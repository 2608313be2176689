----------------------------- MODULE Lifecycle ------------------------------
(***************************************************************************)
(* The life of the process: src/main.cpp, and start, stop, the accept loop *)
(* and the destructor of MarketServer and WebServer.                       *)
(*                                                                         *)
(* The threads are main, which starts the market server; webThread, which  *)
(* starts the web server; an accept thread per server; and a detached      *)
(* thread per connection.  A signal is delivered to main, the thread Linux *)
(* prefers: signalHandler runs on top of whatever main was doing, calls    *)
(* stop of both servers and exit, which runs the destructors of g_webServer*)
(* and g_server, in that order, while the other threads go on.  A signal   *)
(* before the two objects exist finds nothing to stop and is left out, and *)
(* so is a second signal.                                                  *)
(*                                                                         *)
(* What a client thread does between two receives is the matter of         *)
(* Sessions and MarketServer: here it uses the server objects, or holds    *)
(* the logger's mutex, or waits.                                           *)
(***************************************************************************)
EXTENDS Naturals, FiniteSets

CONSTANTS
    Connections,   \* bound: the connections clients open
    Descriptors,   \* what the process may have open
    None

Servers == {"market", "web"}

ASSUME LifecycleAssumption ==
    /\ None \notin Connections \cup Descriptors \cup Servers
    /\ Connections \cap Servers = {}

VARIABLES
    starting,       \* server -> where its start() is
    running,        \* server -> running_
    serverSocket,   \* server -> serverSocket_, None for -1
    joinable,       \* server -> acceptThread_ holds a thread not yet joined
    listening,      \* servers whose listening socket takes connections
    open,           \* descriptor -> the connection, or the listening socket
                    \* (named by its server), that it refers to
    loop,           \* server -> where its accept thread is
    acceptOn,       \* server -> the descriptor accept is called with; once
                    \* inside, the listening socket; then the connection
    stage,          \* what main is at
    at, stopPc,     \* the server being stopped or destroyed, and how far
    destroyed,      \* servers whose destructor is over
    pc,             \* connection -> where its client or its thread is
    server,         \* connection -> the server it was made to
    websockets      \* websocketClients_, as connections

starts == <<starting, running, serverSocket, joinable, listening>>
loops == <<loop, acceptOn>>
ends == <<stage, at, stopPc, destroyed>>
clients == <<pc, server, websockets>>
vars == <<starts, loops, ends, clients, open>>

(* "queued": in the backlog of a listening socket.  "refused": reset by its
   shutdown.  "accepted": accept has returned it.  "recv" waits for the
   client; "serve", "log", "test" and "leave" use the server. *)
ClientStages == {"none", "queued", "refused", "accepted", "recv", "serve", "log",
                 "test", "leave", "done"}

TypeOK ==
    /\ starting \in [Servers -> {"open", "run", "thread", "assign", "done", "failed"}]
    /\ running \in [Servers -> BOOLEAN] /\ joinable \in [Servers -> BOOLEAN]
    /\ serverSocket \in [Servers -> Descriptors \cup {None}]
    /\ listening \subseteq Servers
    /\ open \in [Descriptors -> Connections \cup Servers \cup {None}]
    /\ loop \in [Servers -> {"none", "test", "load", "enter", "accept", "spawn",
                             "done"}]
    /\ acceptOn \in [Servers -> Descriptors \cup Servers \cup Connections \cup {None}]
    /\ stage \in {"running", "handler", "exit", "exited", "aborted"}
    /\ at \in Servers
    /\ stopPc \in {"test", "shutdown", "close", "join", "destroy"}
    /\ destroyed \subseteq Servers
    /\ pc \in [Connections -> ClientStages]
    /\ server \in [Connections -> Servers \cup {None}]
    /\ websockets \subseteq Connections
    /\ \A c \in Connections : pc[c] # "none" => server[c] # None
    /\ \A s \in Servers : loop[s] = "spawn" => acceptOn[s] \in Connections

(* main and webThread have just called the two start functions. *)
Init ==
    /\ starting = [s \in Servers |-> "open"]
    /\ running = [s \in Servers |-> FALSE] /\ joinable = [s \in Servers |-> FALSE]
    /\ serverSocket = [s \in Servers |-> None]
    /\ listening = {}
    /\ open = [d \in Descriptors |-> None]
    /\ loop = [s \in Servers |-> "none"] /\ acceptOn = [s \in Servers |-> None]
    /\ stage = "running" /\ at = "web" /\ stopPc = "test"
    /\ destroyed = {}
    /\ pc = [c \in Connections |-> "none"]
    /\ server = [c \in Connections |-> None]
    /\ websockets = {}

----------------------------------------------------------------------------
(* start().  The market server's runs on main, which a signal interrupts for
   good; the web server's on webThread, which it does not. *)
StarterRuns(s) == s = "market" => stage = "running"

(* socket, setsockopt, bind and listen. *)
OpenSocket(s, d) ==
    /\ StarterRuns(s) /\ starting[s] = "open"
    /\ open[d] = None
    /\ starting' = [starting EXCEPT ![s] = "run"]
    /\ serverSocket' = [serverSocket EXCEPT ![s] = d]
    /\ open' = [open EXCEPT ![d] = s]
    /\ listening' = listening \cup {s}
    /\ UNCHANGED <<running, joinable, loops, ends, clients>>

(* One of them fails, the port being in use for instance: the descriptor, if
   there is one, is closed, serverSocket_ keeps its number, and start throws. *)
OpenFails(s) ==
    /\ StarterRuns(s) /\ starting[s] = "open"
    /\ starting' = [starting EXCEPT ![s] = "failed"]
    /\ \E d \in {None} \cup {e \in Descriptors : open[e] = None} :
          serverSocket' = [serverSocket EXCEPT ![s] = d]
    /\ UNCHANGED <<running, joinable, listening, loops, ends, clients, open>>

(* Mutant: running_ is not set. *)
RunningForgotten(s) ==
    /\ StarterRuns(s) /\ starting[s] = "run"
    /\ starting' = [starting EXCEPT ![s] = "thread"]
    /\ UNCHANGED <<running, serverSocket, joinable, listening, loops, ends, clients, open>>

SetRunning(s) ==
    /\ StarterRuns(s) /\ starting[s] = "run"
    /\ starting' = [starting EXCEPT ![s] = "thread"]
    /\ running' = [running EXCEPT ![s] = TRUE]
    /\ UNCHANGED <<serverSocket, joinable, listening, loops, ends, clients, open>>

(* The thread is created, then moved into acceptThread_. *)
CreateAcceptThread(s) ==
    /\ StarterRuns(s) /\ starting[s] = "thread"
    /\ starting' = [starting EXCEPT ![s] = "assign"]
    /\ loop' = [loop EXCEPT ![s] = "test"]
    /\ UNCHANGED <<running, serverSocket, joinable, listening, acceptOn, ends, clients,
                   open>>

AssignAcceptThread(s) ==
    /\ StarterRuns(s) /\ starting[s] = "assign"
    /\ starting' = [starting EXCEPT ![s] = "done"]
    /\ joinable' = [joinable EXCEPT ![s] = TRUE]
    /\ UNCHANGED <<running, serverSocket, listening, loops, ends, clients, open>>

(* The exception of g_server->start() leaves the try block of main, whose
   local webThread has not been joined: std::terminate.  The web server's is
   caught on webThread. *)
Unwind ==
    /\ stage = "running" /\ starting["market"] = "failed"
    /\ stage' = "aborted"
    /\ UNCHANGED <<starts, loops, at, stopPc, destroyed, clients, open>>

Start(s) ==
    \/ \E d \in Descriptors : OpenSocket(s, d)
    \/ OpenFails(s)
    \/ SetRunning(s)
    \/ CreateAcceptThread(s)
    \/ AssignAcceptThread(s)

----------------------------------------------------------------------------
(* acceptConnections. *)
Loop(s, to) == loop' = [loop EXCEPT ![s] = to]

(* while (running_) *)
LoopTest(s) ==
    /\ loop[s] = "test"
    /\ Loop(s, IF running[s] THEN "load" ELSE "done")
    /\ UNCHANGED <<starts, acceptOn, ends, clients, open>>

(* serverSocket_ is read for the call of accept ... *)
LoadSocket(s) ==
    /\ loop[s] = "load"
    /\ Loop(s, "enter")
    /\ acceptOn' = [acceptOn EXCEPT ![s] = serverSocket[s]]
    /\ UNCHANGED <<starts, ends, clients, open>>

(* ... and looked up by the kernel.  A descriptor that is closed, or refers to
   a connection by now, or to a socket shut down, is an error, and the loop
   goes on; a call that has found the socket keeps it, whatever becomes of
   the descriptor. *)
EnterAccept(s) ==
    /\ loop[s] = "enter"
    /\ LET socket == IF acceptOn[s] = None THEN None ELSE open[acceptOn[s]]
       IN  IF socket \in listening
           THEN Loop(s, "accept") /\ acceptOn' = [acceptOn EXCEPT ![s] = socket]
           ELSE Loop(s, "test") /\ acceptOn' = [acceptOn EXCEPT ![s] = None]
    /\ UNCHANGED <<starts, ends, clients, open>>

(* accept returns a connection of the backlog. *)
Accept(s, c, d) ==
    /\ loop[s] = "accept"
    /\ acceptOn[s] \in listening
    /\ pc[c] = "queued" /\ server[c] = acceptOn[s]
    /\ open[d] = None
    /\ open' = [open EXCEPT ![d] = c]
    /\ pc' = [pc EXCEPT ![c] = "accepted"]
    /\ Loop(s, "spawn")
    /\ acceptOn' = [acceptOn EXCEPT ![s] = c]
    /\ UNCHANGED <<starts, ends, server, websockets>>

(* Mutant: what accept returns is not looked at. *)
AcceptFailsUnnoticed(s) ==
    /\ loop[s] = "accept"
    /\ acceptOn[s] \notin listening
    /\ Loop(s, "spawn")
    /\ acceptOn' = [acceptOn EXCEPT ![s] = None]
    /\ UNCHANGED <<starts, ends, clients, open>>

(* It fails: the socket was shut down, or there is a connection and no
   descriptor left to give it. *)
AcceptFails(s) ==
    /\ loop[s] = "accept"
    /\ \/ acceptOn[s] \notin listening
       \/ /\ \A d \in Descriptors : open[d] # None
          /\ \E c \in Connections : pc[c] = "queued" /\ server[c] = acceptOn[s]
    /\ Loop(s, "test")
    /\ acceptOn' = [acceptOn EXCEPT ![s] = None]
    /\ UNCHANGED <<starts, ends, clients, open>>

(* A detached thread in handleClient of the server whose loop this is. *)
SpawnClientThread(s) ==
    /\ loop[s] = "spawn"
    /\ pc' = [pc EXCEPT ![acceptOn[s]] = "recv"]
    /\ server' = [server EXCEPT ![acceptOn[s]] = s]
    /\ Loop(s, "test")
    /\ acceptOn' = [acceptOn EXCEPT ![s] = None]
    /\ UNCHANGED <<starts, ends, websockets, open>>

AcceptLoop(s) ==
    /\ s \notin destroyed
    /\ \/ LoopTest(s)
       \/ LoadSocket(s)
       \/ EnterAccept(s)
       \/ \E c \in Connections, d \in Descriptors : Accept(s, c, d)
       \/ AcceptFails(s)
       \/ SpawnClientThread(s)

----------------------------------------------------------------------------
(* Clients, and the threads that serve them. *)
Connect(c, s) ==
    /\ pc[c] = "none"
    /\ s \in listening
    /\ pc' = [pc EXCEPT ![c] = "queued"]
    /\ server' = [server EXCEPT ![c] = s]
    /\ UNCHANGED <<starts, loops, ends, websockets, open>>

(* The objects a connection's thread uses once it has received something. *)
Uses(c) == IF server[c] = "market" THEN {"market"} ELSE Servers

(* What comes of the use of a destroyed object is undefined: the behaviour is
   followed up to there. *)
Usable(c) == Uses(c) \cap destroyed = {}

ToClientStage(c, to) == pc' = [pc EXCEPT ![c] = to]

(* recv returns a message. *)
Receive(c) ==
    /\ pc[c] = "recv"
    /\ ToClientStage(c, "serve")
    /\ UNCHANGED <<starts, loops, ends, server, websockets, open>>

CloseClient(c) ==
    /\ ToClientStage(c, "done")
    /\ open' = [d \in Descriptors |-> IF open[d] = c THEN None ELSE open[d]]

(* recv returns 0.  A client of the market server may have registered, and is
   taken out of traderSockets_ before its socket is closed. *)
ReceiveEnd(c) ==
    /\ pc[c] = "recv"
    /\ \/ CloseClient(c)
       \/ server[c] = "market" /\ ToClientStage(c, "leave") /\ UNCHANGED open
    /\ UNCHANGED <<starts, loops, ends, server, websockets>>

(* MarketServer: registration or an order, which may get to the logger; what
   it logs is under connMutex_.  A first message that is not REGISTER is the
   end of the connection. *)
ServeMarket(c) ==
    /\ pc[c] = "serve" /\ server[c] = "market" /\ Usable(c)
    /\ \/ ToClientStage(c, "test") /\ UNCHANGED open
       \/ CloseClient(c)
       \/ /\ \A other \in Connections : pc[other] # "log"
          /\ ToClientStage(c, "log") /\ UNCHANGED open
    /\ UNCHANGED <<starts, loops, ends, server, websockets>>

(* The database has answered. *)
Logged(c) ==
    /\ pc[c] = "log" /\ Usable(c)
    /\ ToClientStage(c, "test")
    /\ UNCHANGED <<starts, loops, ends, server, websockets, open>>

(* while (running_) of the message loop. *)
TestRunning(c) ==
    /\ pc[c] = "test" /\ Usable(c)
    /\ ToClientStage(c, IF running["market"] THEN "recv" ELSE "leave")
    /\ UNCHANGED <<starts, loops, ends, server, websockets, open>>

Leave(c) ==
    /\ pc[c] = "leave" /\ Usable(c)
    /\ CloseClient(c)
    /\ UNCHANGED <<starts, loops, ends, server, websockets>>

(* Mutant: handleHttpRequest does not close the socket. *)
ServeHttpOpen(c) ==
    /\ pc[c] = "serve" /\ server[c] = "web" /\ Usable(c)
    /\ ToClientStage(c, "done")
    /\ UNCHANGED <<starts, loops, ends, server, websockets, open>>

(* handleHttpRequest: one response, and the socket is closed. *)
ServeHttp(c) ==
    /\ pc[c] = "serve" /\ server[c] = "web" /\ Usable(c)
    /\ CloseClient(c)
    /\ UNCHANGED <<starts, loops, ends, server, websockets>>

(* handleWebSocket: the socket is kept in a list nothing reads. *)
ServeWebSocket(c) ==
    /\ pc[c] = "serve" /\ server[c] = "web" /\ Usable(c)
    /\ ToClientStage(c, "done")
    /\ websockets' = websockets \cup {c}
    /\ UNCHANGED <<starts, loops, ends, server, open>>

(* A step that does not wait for the client. *)
Serve(c) ==
    \/ ServeMarket(c)
    \/ Logged(c)
    \/ TestRunning(c)
    \/ Leave(c)
    \/ ServeHttp(c)
    \/ ServeWebSocket(c)

----------------------------------------------------------------------------
(* signalHandler, stop and the destructors, on main. *)
Enter(newStage, s, where) == stage' = newStage /\ at' = s /\ stopPc' = where

Signal ==
    /\ stage = "running"
    /\ Enter("handler", "web", "test")
    /\ UNCHANGED <<starts, loops, destroyed, clients, open>>

(* Where stop returns to: the handler stops the market server, then exits;
   a destructor destroys the members. *)
StopReturns ==
    \/ stage = "handler" /\ at = "web" /\ Enter("handler", "market", "test")
    \/ stage = "handler" /\ at = "market" /\ Enter("exit", "web", "test")
    \/ stage = "exit" /\ Enter("exit", at, "destroy")

(* if (running_) *)
StopTest ==
    /\ stage \in {"handler", "exit"} /\ stopPc = "test"
    /\ IF running[at]
       THEN Enter(stage, at, "shutdown") /\ running' = [running EXCEPT ![at] = FALSE]
       ELSE StopReturns /\ UNCHANGED running
    /\ UNCHANGED <<starting, serverSocket, joinable, listening, loops, destroyed, clients,
                   open>>

(* Mutant: the socket is only closed, which does not wake accept. *)
ShutdownNothing ==
    /\ stopPc = "shutdown" /\ stage \in {"handler", "exit"}
    /\ Enter(stage, at, "close")
    /\ UNCHANGED <<starts, loops, destroyed, clients, open>>

(* shutdown(serverSocket_): accept returns, the backlog is reset. *)
Shutdown ==
    /\ stopPc = "shutdown" /\ stage \in {"handler", "exit"}
    /\ Enter(stage, at, "close")
    /\ listening' = listening \ {at}
    /\ pc' = [c \in Connections |-> IF pc[c] = "queued" /\ server[c] = at
                                    THEN "refused" ELSE pc[c]]
    /\ UNCHANGED <<starting, running, serverSocket, joinable, loops, destroyed, server,
                   websockets, open>>

(* close(serverSocket_); serverSocket_ = -1. *)
CloseSocket ==
    /\ stopPc = "close" /\ stage \in {"handler", "exit"}
    /\ Enter(stage, at, "join")
    /\ open' = [open EXCEPT ![serverSocket[at]] = None]
    /\ serverSocket' = [serverSocket EXCEPT ![at] = None]
    /\ UNCHANGED <<starting, running, joinable, listening, loops, destroyed, clients>>

(* Mutant: acceptThread_ is detached. *)
Detach ==
    /\ stopPc = "join" /\ stage \in {"handler", "exit"}
    /\ joinable' = [joinable EXCEPT ![at] = FALSE]
    /\ StopReturns
    /\ UNCHANGED <<starting, running, serverSocket, listening, loops, destroyed, clients,
                   open>>

(* Mutant: nothing is joined. *)
JoinForgotten ==
    /\ stopPc = "join" /\ stage \in {"handler", "exit"}
    /\ StopReturns
    /\ UNCHANGED <<starts, loops, destroyed, clients, open>>

(* acceptThread_.join(), if there is a thread.  (clientThreads_ of the web
   server, joined next, is always empty.) *)
Join ==
    /\ stopPc = "join" /\ stage \in {"handler", "exit"}
    /\ joinable[at] => loop[at] = "done"
    /\ joinable' = [joinable EXCEPT ![at] = FALSE]
    /\ StopReturns
    /\ UNCHANGED <<starting, running, serverSocket, listening, loops, destroyed, clients,
                   open>>

(* The rest of a destructor: the market server's closes the logger, under
   connMutex_; a thread not joined is std::terminate. *)
Destroy ==
    /\ stage = "exit" /\ stopPc = "destroy"
    /\ at = "market" => \A c \in Connections : pc[c] # "log"
    /\ IF joinable[at]
       THEN Enter("aborted", at, stopPc) /\ UNCHANGED destroyed
       ELSE /\ destroyed' = destroyed \cup {at}
            /\ IF at = "web" THEN Enter("exit", "market", "test")
                             ELSE Enter("exited", at, stopPc)
    /\ UNCHANGED <<starts, loops, clients, open>>

Ending == StopTest \/ Shutdown \/ CloseSocket \/ Join \/ Destroy

----------------------------------------------------------------------------
Over == stage \in {"exited", "aborted"}

Step ==
    \/ \E s \in Servers : Start(s) \/ AcceptLoop(s)
    \/ Unwind
    \/ Ending
    \/ \E c \in Connections :
          \/ \E s \in Servers : Connect(c, s)
          \/ Receive(c)
          \/ ReceiveEnd(c)
          \/ Serve(c)

Next == ~ Over /\ (Step \/ Signal)

Started == starting["market"] = "done" /\ starting["web"] \in {"done", "failed"}

(* The signal comes when both start functions are over. *)
CalmNext == ~ Over /\ (Step \/ (Started /\ Signal))

EndingGoesOn == ~ Over /\ Ending

StartGoesOn(s) == ~ Over /\ Start(s)

LoopGoesOn(s) == ~ Over /\ AcceptLoop(s)

ServeGoesOn(c) == ~ Over /\ Serve(c)

(* Threads that do not wait for a client, and the database, go on. *)
MainScheduled == WF_vars(EndingGoesOn)

ServerScheduled(s) == WF_vars(StartGoesOn(s)) /\ WF_vars(LoopGoesOn(s))

ClientScheduled(c) == WF_vars(ServeGoesOn(c))

Fairness ==
    /\ MainScheduled
    /\ \A s \in Servers : ServerScheduled(s)
    /\ \A c \in Connections : ClientScheduled(c)

Spec == Init /\ [][Next]_vars /\ Fairness

CalmSpec == Init /\ [][CalmNext]_vars /\ Fairness
----------------------------------------------------------------------------
(* Properties. *)

Signalled == stage # "running"

(* stop of this server has returned to the handler. *)
StopOver(s) ==
    \/ stage \in {"exit", "exited"}
    \/ stage = "handler" /\ s = "web" /\ at = "market"

(* When the threads can go on, said without ENABLED: what the proofs of the
   liveness properties take from TLC. *)
CanEnd ==
    /\ stage \in {"handler", "exit"}
    /\ \/ stopPc \in {"test", "shutdown", "close"}
       \/ stopPc = "join" /\ (joinable[at] => loop[at] = "done")
       \/ /\ stage = "exit" /\ stopPc = "destroy"
          /\ at = "market" => \A c \in Connections : pc[c] # "log"

CanStart(s) ==
    ~ Over /\ StarterRuns(s) /\ starting[s] \in {"open", "run", "thread", "assign"}

CanLoop(s) ==
    /\ ~ Over /\ s \notin destroyed
    /\ \/ loop[s] \in {"test", "load", "enter", "spawn"}
       \/ /\ loop[s] = "accept"
          /\ \/ acceptOn[s] \notin listening
             \/ \E c \in Connections : pc[c] = "queued" /\ server[c] = acceptOn[s]

CanServe(c) == ~ Over /\ Usable(c) /\ pc[c] \in {"serve", "log", "test", "leave"}

GuardsEnabled ==
    /\ CanEnd => ENABLED <<EndingGoesOn>>_vars
    /\ \A s \in Servers : CanStart(s) => ENABLED <<StartGoesOn(s)>>_vars
    /\ \A s \in Servers : CanLoop(s) => ENABLED <<LoopGoesOn(s)>>_vars
    /\ \A c \in Connections : CanServe(c) => ENABLED <<ServeGoesOn(c)>>_vars

(* "Press Ctrl+C to stop" (main.cpp): a signal ends the process, whatever the
   accept threads wait for and whatever clients do. *)
ShutdownEnds == (stage = "handler") ~> Over

(* A process that is told to stop ends by exit, not by std::terminate: every
   thread object has been joined when its destructor runs. *)
EndsByExit == stage = "aborted" => starting["market"] = "failed"

(* Once stop has returned, the server takes no connection and makes no
   thread, even for a connection that accept had returned already. *)
NothingAcceptedOnceStopped ==
    [][\A c \in Connections :
          \/ pc[c] = "queued" /\ pc'[c] = "accepted"
          \/ pc[c] = "accepted" /\ pc'[c] = "recv"
          => ~ StopOver(server'[c])]_vars

(* A client that connects gets a thread, unless descriptors run out or the
   process is ending. *)
ConnectionsTaken ==
    \A c \in Connections :
        pc[c] = "queued" ~> \/ pc[c] # "queued"
                            \/ Signalled
                            \/ \A d \in Descriptors : open[d] # None

(* No descriptor is lost: one that refers to a connection whose thread is
   over is a websocket's. *)
NoDescriptorLost ==
    \A d \in Descriptors :
        open[d] \in Connections /\ pc[open[d]] = "done" => open[d] \in websockets

(* A start that fails is reported by main's catch block ("Error: ", return
   1), which the process lives to reach. *)
StartFailureReported == starting["market"] = "failed" => stage # "aborted"

(* "Stop the server" (MarketServer.h): once "Market server stopped" is out, no
   message of a client is taken in hand. *)
StoppedServerServesNobody ==
    [][StopOver("market") =>
          \A c \in Connections : server[c] = "market" /\ pc'[c] = "serve" =>
                                     pc[c] = "serve"]_vars

(* No thread is in a member function of an object that is gone. *)
DestroyedServerUnused ==
    \A c \in Connections :
        pc[c] \in {"serve", "log", "test", "leave"} => Usable(c)
=============================================================================
