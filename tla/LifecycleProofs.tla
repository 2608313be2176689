-------------------------- MODULE LifecycleProofs ---------------------------
(***************************************************************************)
(* Theorems about Lifecycle, for every number of connections and           *)
(* descriptors.  TypeOK holds whenever the signal comes; the others of a   *)
(* signal that comes when both start functions are over (CalmSpec).        *)
(***************************************************************************)
EXTENDS Lifecycle, TLAPS

(* A server is being stopped: running_ is cleared, and its thread is not
   joined yet. *)
Stopping(s) ==
    /\ stage \in {"handler", "exit"} /\ at = s
    /\ stopPc \in {"shutdown", "close", "join"}

(* The signal came late. *)
SignalIsCalm == stage \in {"handler", "exit", "exited"} => Started

(* Before the accept thread is there, nothing has to be joined. *)
NoThreadYet ==
    \A s \in Servers : starting[s] \in {"open", "run", "thread", "failed"} =>
        loop[s] = "none" /\ ~ joinable[s]

(* running_ is true from before the thread is made until stop. *)
RunsUntilStopped ==
    /\ \A s \in Servers : starting[s] \in {"thread", "assign"} => running[s]
    /\ \A s \in Servers : starting[s] = "done" =>
          \/ running[s]
          \/ Stopping(s)
          \/ loop[s] = "done" /\ ~ joinable[s]
    /\ \A s \in Servers : running[s] \/ Stopping(s) =>
          starting[s] \in {"thread", "assign", "done"}

(* A thread that may still run is one stop can join. *)
ThreadsJoinable ==
    \A s \in Servers : starting[s] = "done" => joinable[s] \/ loop[s] = "done"

DestroyedJoined ==
    stage = "exit" /\ stopPc = "destroy" => ~ joinable[at]

(* Once stop is over, the loop is. *)
StoppedLoopsOver == \A s \in Servers : StopOver(s) => loop[s] \in {"none", "done"}

(* A descriptor a server has, or has read for accept, never refers to the
   other's socket. *)
SocketsOwn ==
    \A s \in Servers :
        /\ starting[s] \in {"run", "thread", "assign", "done"} /\ serverSocket[s] # None
              => open[serverSocket[s]] = s
        /\ loop[s] = "enter" /\ acceptOn[s] # None =>
              /\ acceptOn[s] \in Descriptors
              /\ open[acceptOn[s]] \in Servers => open[acceptOn[s]] = s
              /\ ~ Started => open[acceptOn[s]] = s
        /\ loop[s] = "accept" => acceptOn[s] = s

CalmInv ==
    /\ TypeOK
    /\ SignalIsCalm
    /\ NoThreadYet
    /\ RunsUntilStopped
    /\ ThreadsJoinable
    /\ DestroyedJoined
    /\ StoppedLoopsOver
    /\ SocketsOwn
    /\ EndsByExit
----------------------------------------------------------------------------
(* Types. *)

LEMMA StartTypes ==
    ASSUME TypeOK, NEW s \in Servers, Start(s)
    PROVE  TypeOK'
<1> USE DEF TypeOK, starts, loops, ends, clients, StarterRuns
<1>1. CASE \E d \in Descriptors : OpenSocket(s, d)
  BY <1>1 DEF OpenSocket
<1>2. CASE OpenFails(s)
  BY <1>2 DEF OpenFails
<1>3. CASE SetRunning(s)
  BY <1>3 DEF SetRunning
<1>4. CASE CreateAcceptThread(s)
  BY <1>4 DEF CreateAcceptThread
<1>5. CASE AssignAcceptThread(s)
  BY <1>5 DEF AssignAcceptThread
<1>6. QED
  BY <1>1, <1>2, <1>3, <1>4, <1>5 DEF Start

LEMMA LoopTypes ==
    ASSUME TypeOK, NEW s \in Servers, AcceptLoop(s)
    PROVE  TypeOK'
<1> USE DEF TypeOK, starts, loops, ends, clients, Loop
<1>1. CASE LoopTest(s)
  BY <1>1 DEF LoopTest
<1>2. CASE LoadSocket(s)
  BY <1>2 DEF LoadSocket
<1>3. CASE EnterAccept(s)
  BY <1>3 DEF EnterAccept
<1>4. CASE \E c \in Connections, d \in Descriptors : Accept(s, c, d)
  BY <1>4 DEF Accept, ClientStages
<1>5. CASE AcceptFails(s)
  BY <1>5 DEF AcceptFails
<1>6. CASE SpawnClientThread(s)
  BY <1>6, LifecycleAssumption DEF SpawnClientThread, ClientStages
<1>7. QED
  BY <1>1, <1>2, <1>3, <1>4, <1>5, <1>6 DEF AcceptLoop

(* What a client and its thread do changes nothing of the servers, and of the
   descriptors at most the client's own, which it closes. *)
ClientStep(c) ==
    \/ \E s \in Servers : Connect(c, s)
    \/ Receive(c)
    \/ ReceiveEnd(c)
    \/ Serve(c)

LEMMA ClientTypes ==
    ASSUME TypeOK, NEW c \in Connections, ClientStep(c)
    PROVE  TypeOK'
<1> USE DEF TypeOK, starts, loops, ends, clients, ClientStages, ToClientStage
<1>1. CASE \E s \in Servers : Connect(c, s)
  BY <1>1, LifecycleAssumption DEF Connect
<1>2. CASE Receive(c)
  BY <1>2 DEF Receive
<1>3. CASE ReceiveEnd(c)
  BY <1>3 DEF ReceiveEnd, CloseClient
<1>4. CASE ServeMarket(c)
  BY <1>4 DEF ServeMarket, CloseClient
<1>5. CASE Logged(c)
  BY <1>5 DEF Logged
<1>6. CASE TestRunning(c)
  BY <1>6 DEF TestRunning
<1>7. CASE Leave(c)
  BY <1>7 DEF Leave, CloseClient
<1>8. CASE ServeHttp(c)
  BY <1>8 DEF ServeHttp, CloseClient
<1>9. CASE ServeWebSocket(c)
  BY <1>9 DEF ServeWebSocket
<1>10. QED
  BY <1>1, <1>2, <1>3, <1>4, <1>5, <1>6, <1>7, <1>8, <1>9 DEF ClientStep, Serve

LEMMA ClientFrame ==
    ASSUME TypeOK, NEW c \in Connections, ClientStep(c)
    PROVE  /\ UNCHANGED <<starts, loops, ends>>
           /\ \A d \in Descriptors : \/ open'[d] = open[d]
                                     \/ open[d] = c /\ open'[d] = None
<1> USE DEF TypeOK, starts, loops, ends, clients, ToClientStage
<1>1. CASE \E s \in Servers : Connect(c, s)
  BY <1>1 DEF Connect
<1>2. CASE Receive(c)
  BY <1>2 DEF Receive
<1>3. CASE ReceiveEnd(c)
  BY <1>3 DEF ReceiveEnd, CloseClient
<1>4. CASE ServeMarket(c)
  BY <1>4 DEF ServeMarket, CloseClient
<1>5. CASE Logged(c)
  BY <1>5 DEF Logged
<1>6. CASE TestRunning(c)
  BY <1>6 DEF TestRunning
<1>7. CASE Leave(c)
  BY <1>7 DEF Leave, CloseClient
<1>8. CASE ServeHttp(c)
  BY <1>8 DEF ServeHttp, CloseClient
<1>9. CASE ServeWebSocket(c)
  BY <1>9 DEF ServeWebSocket
<1>10. QED
  BY <1>1, <1>2, <1>3, <1>4, <1>5, <1>6, <1>7, <1>8, <1>9 DEF ClientStep, Serve

LEMMA EndTypes ==
    ASSUME TypeOK, Unwind \/ Signal \/ Ending
    PROVE  TypeOK'
<1> USE DEF TypeOK, starts, loops, ends, clients, Servers
<1>1. CASE Unwind
  BY <1>1 DEF Unwind
<1>2. CASE Signal
  BY <1>2 DEF Signal, Enter
<1>3. CASE StopTest
  <2>1. \/ Enter(stage, at, "shutdown") /\ running' = [running EXCEPT ![at] = FALSE]
        \/ StopReturns /\ running' = running
    BY <1>3, Zenon DEF StopTest
  <2>2. UNCHANGED <<starting, serverSocket, joinable, listening, loops, destroyed,
                    clients, open>>
    BY <1>3, Zenon DEF StopTest
  <2>3. stage \in {"handler", "exit"}
    BY <1>3, Zenon DEF StopTest
  <2>4. QED
    BY <2>1, <2>2, <2>3 DEF StopReturns, Enter
<1>4. CASE Shutdown
  BY <1>4 DEF Shutdown, ClientStages, Enter
<1>5. CASE CloseSocket
  BY <1>5 DEF CloseSocket, Enter
<1>6. CASE Join
  BY <1>6 DEF Join, StopReturns, Enter
<1>7. CASE Destroy
  <2>1. \/ Enter("aborted", at, stopPc) /\ destroyed' = destroyed
        \/ destroyed' = destroyed \cup {at} /\ Enter("exit", "market", "test")
        \/ destroyed' = destroyed \cup {at} /\ Enter("exited", at, stopPc)
    BY <1>7, Zenon DEF Destroy
  <2>2. QED
    BY <1>7, <2>1 DEF Destroy, Enter
<1>8. QED
  BY <1>1, <1>2, <1>3, <1>4, <1>5, <1>6, <1>7 DEF Ending

LEMMA TypesKept == TypeOK /\ [Next]_vars => TypeOK'
<1> SUFFICES ASSUME TypeOK, [Next]_vars PROVE TypeOK'
  OBVIOUS
<1>1. CASE Next
  BY <1>1, StartTypes, LoopTypes, ClientTypes, EndTypes DEF Next, Step, ClientStep
<1>2. CASE UNCHANGED vars
  BY <1>2 DEF vars, starts, loops, ends, clients, TypeOK
<1>3. QED
  BY <1>1, <1>2

LEMMA TypesInitially == Init => TypeOK
BY DEF Init, TypeOK, ClientStages, Servers

(* Types, whenever the signal comes. *)
THEOREM LifecycleTypesCorrect == Spec => []TypeOK
<1>1. Init => TypeOK
  BY TypesInitially
<1>2. TypeOK /\ [Next]_vars => TypeOK'
  BY TypesKept
<1>3. QED
  BY <1>1, <1>2, PTL DEF Spec
(* A connection whose thread is over has no descriptor, unless it was handed
   to websocketClients_: every path through handleClient of either server
   closes its socket. *)
THEOREM DescriptorsClosed == Spec => []NoDescriptorLost
<1> DEFINE Inv == TypeOK /\ NoDescriptorLost
<1>1. Init => Inv
  BY TypesInitially, LifecycleAssumption DEF Init, NoDescriptorLost
<1>2. Inv /\ [Next]_vars => Inv'
  <2> SUFFICES ASSUME Inv, [Next]_vars PROVE NoDescriptorLost'
    BY TypesKept
  <2> USE LifecycleAssumption DEF NoDescriptorLost, TypeOK, ClientStages, starts, loops,
                                  ends, clients
  <2>1. ASSUME NEW s \in Servers, Start(s) PROVE NoDescriptorLost'
    BY <2>1 DEF Start, OpenSocket, OpenFails, SetRunning, CreateAcceptThread,
                AssignAcceptThread
  <2>2. ASSUME NEW s \in Servers, AcceptLoop(s) PROVE NoDescriptorLost'
    <3>1. CASE LoopTest(s) \/ LoadSocket(s) \/ EnterAccept(s) \/ AcceptFails(s)
      BY <3>1 DEF LoopTest, LoadSocket, EnterAccept, AcceptFails
    <3>2. CASE \E b \in Connections, d \in Descriptors : Accept(s, b, d)
      BY <3>2 DEF Accept
    <3>3. CASE SpawnClientThread(s)
      BY <3>3 DEF SpawnClientThread
    <3>4. QED
      BY <2>2, <3>1, <3>2, <3>3, Zenon DEF AcceptLoop
  <2>3. ASSUME NEW c \in Connections, ClientStep(c) PROVE NoDescriptorLost'
    <3> USE DEF ToClientStage, CloseClient
    <3>1. CASE \E s \in Servers : Connect(c, s)
      BY <3>1 DEF Connect
    <3>2. CASE Receive(c) \/ ReceiveEnd(c)
      BY <3>2 DEF Receive, ReceiveEnd
    <3>3. CASE ServeMarket(c) \/ Logged(c) \/ TestRunning(c) \/ Leave(c)
      BY <3>3 DEF ServeMarket, Logged, TestRunning, Leave
    <3>4. CASE ServeHttp(c) \/ ServeWebSocket(c)
      BY <3>4 DEF ServeHttp, ServeWebSocket
    <3>5. QED
      BY <2>3, <3>1, <3>2, <3>3, <3>4, Zenon DEF ClientStep, Serve
  <2>4. ASSUME Unwind \/ Signal \/ Ending PROVE NoDescriptorLost'
    <3>1. CASE Shutdown
      BY <3>1 DEF Shutdown
    <3>2. CASE CloseSocket
      BY <3>2 DEF CloseSocket
    <3>3. CASE Unwind \/ Signal \/ StopTest \/ Join \/ Destroy
      BY <3>3 DEF Unwind, Signal, StopTest, Join, Destroy
    <3>4. QED
      BY <2>4, <3>1, <3>2, <3>3, Zenon DEF Ending
  <2>5. CASE UNCHANGED vars
    BY <2>5 DEF vars
  <2>6. QED
    BY <2>1, <2>2, <2>3, <2>4, <2>5, Zenon DEF Next, Step, ClientStep
<1>3. QED
  BY <1>1, <1>2, PTL DEF Spec
----------------------------------------------------------------------------
(* A calm signal. *)

LEMMA CalmInitially == Init => CalmInv
<1> SUFFICES ASSUME Init PROVE CalmInv
  OBVIOUS
<1>1. TypeOK
  BY TypesInitially
<1>2. QED
  BY <1>1 DEF Init, CalmInv, SignalIsCalm, Started, NoThreadYet, RunsUntilStopped,
         ThreadsJoinable, DestroyedJoined, StoppedLoopsOver, SocketsOwn, EndsByExit,
         StopOver, Stopping, Over, Servers, TypeOK, starts, loops, ends, clients

LEMMA StartCalm ==
    ASSUME CalmInv, TypeOK', ~ Over, NEW s \in Servers, Start(s)
    PROVE  CalmInv'
<1> USE LifecycleAssumption
    DEF CalmInv, SignalIsCalm, Started, NoThreadYet, RunsUntilStopped,
         ThreadsJoinable, DestroyedJoined, StoppedLoopsOver, SocketsOwn, EndsByExit,
         StopOver, Stopping, Over, Servers, TypeOK, starts, loops, ends, clients,
         StarterRuns
<1>1. CASE \E d \in Descriptors : OpenSocket(s, d)
  BY <1>1 DEF OpenSocket
<1>2. CASE OpenFails(s)
  BY <1>2 DEF OpenFails
<1>3. CASE SetRunning(s)
  BY <1>3 DEF SetRunning
<1>4. CASE CreateAcceptThread(s)
  BY <1>4 DEF CreateAcceptThread
<1>5. CASE AssignAcceptThread(s)
  BY <1>5 DEF AssignAcceptThread
<1>6. QED
  BY <1>1, <1>2, <1>3, <1>4, <1>5, Zenon DEF Start

(* accept is entered with the server's own socket or not at all. *)
LEMMA EnterAcceptOwn ==
    ASSUME CalmInv, NEW s \in Servers, EnterAccept(s)
    PROVE  \/ Loop(s, "accept") /\ acceptOn' = [acceptOn EXCEPT ![s] = s]
           \/ Loop(s, "test") /\ acceptOn' = [acceptOn EXCEPT ![s] = None]
<1> DEFINE socket == IF acceptOn[s] = None THEN None ELSE open[acceptOn[s]]
<1>1. CASE socket \in listening
  <2>1. acceptOn[s] # None /\ open[acceptOn[s]] \in Servers
    BY <1>1, LifecycleAssumption DEF CalmInv, TypeOK
  <2>2. socket = s
    BY <2>1 DEF EnterAccept, CalmInv, SocketsOwn
  <2>3. QED
    BY <1>1, <2>2, Zenon DEF EnterAccept
<1>2. CASE socket \notin listening
  BY <1>2, Zenon DEF EnterAccept
<1>3. QED
  BY <1>1, <1>2

LEMMA LoopCalm ==
    ASSUME CalmInv, TypeOK', ~ Over, NEW s \in Servers, AcceptLoop(s)
    PROVE  CalmInv'
<1> USE LifecycleAssumption
    DEF CalmInv, SignalIsCalm, Started, NoThreadYet, RunsUntilStopped,
         ThreadsJoinable, DestroyedJoined, StoppedLoopsOver, SocketsOwn, EndsByExit,
         StopOver, Stopping, Over, Servers, TypeOK, starts, loops, ends, clients,
         Loop
<1>1. CASE LoopTest(s)
  BY <1>1 DEF LoopTest
<1>2. CASE LoadSocket(s)
  BY <1>2 DEF LoadSocket
<1>3. CASE EnterAccept(s)
  <2>1. \/ loop' = [loop EXCEPT ![s] = "accept"] /\ acceptOn' = [acceptOn EXCEPT ![s] = s]
        \/ loop' = [loop EXCEPT ![s] = "test"] /\ acceptOn' = [acceptOn EXCEPT ![s] = None]
    BY <1>3, EnterAcceptOwn, Zenon DEF Loop
  <2>2. loop[s] = "enter" /\ UNCHANGED <<starts, ends, open>>
    BY <1>3, Zenon DEF EnterAccept
  <2>3. QED
    BY <2>1, <2>2
<1>4. CASE \E c \in Connections, d \in Descriptors : Accept(s, c, d)
  BY <1>4 DEF Accept
<1>5. CASE AcceptFails(s)
  BY <1>5 DEF AcceptFails
<1>6. CASE SpawnClientThread(s)
  BY <1>6 DEF SpawnClientThread
<1>7. QED
  BY <1>1, <1>2, <1>3, <1>4, <1>5, <1>6, Zenon DEF AcceptLoop

LEMMA ClientCalm ==
    ASSUME CalmInv, TypeOK', NEW c \in Connections, ClientStep(c)
    PROVE  CalmInv'
<1>1. /\ UNCHANGED <<starts, loops, ends>>
      /\ \A d \in Descriptors : open'[d] = open[d] \/ (open[d] = c /\ open'[d] = None)
  BY ClientFrame DEF CalmInv
<1>2. QED
  BY <1>1, LifecycleAssumption
  DEF CalmInv, SignalIsCalm, Started, NoThreadYet, RunsUntilStopped,
         ThreadsJoinable, DestroyedJoined, StoppedLoopsOver, SocketsOwn, EndsByExit,
         StopOver, Stopping, Over, Servers, TypeOK, starts, loops, ends, clients

LEMMA EndCalm ==
    ASSUME CalmInv, TypeOK', ~ Over, Unwind \/ (Started /\ Signal) \/ Ending
    PROVE  CalmInv'
<1> USE LifecycleAssumption
    DEF CalmInv, SignalIsCalm, Started, NoThreadYet, RunsUntilStopped,
         ThreadsJoinable, DestroyedJoined, StoppedLoopsOver, SocketsOwn, EndsByExit,
         StopOver, Stopping, Over, Servers, TypeOK, starts, loops, ends, clients,
         Enter
<1>1. CASE Unwind
  BY <1>1 DEF Unwind
<1>2. CASE Started /\ Signal
  BY <1>2 DEF Signal
<1>3. CASE StopTest
  BY <1>3 DEF StopTest, StopReturns
<1>4. CASE Shutdown
  BY <1>4 DEF Shutdown
<1>5. CASE CloseSocket
  BY <1>5 DEF CloseSocket
<1>6. CASE Join
  BY <1>6 DEF Join, StopReturns
<1>7. CASE Destroy
  BY <1>7 DEF Destroy
<1>8. QED
  BY <1>1, <1>2, <1>3, <1>4, <1>5, <1>6, <1>7, Zenon DEF Ending

LEMMA CalmStep == CalmInv /\ [CalmNext]_vars => CalmInv'
<1> SUFFICES ASSUME CalmInv, [CalmNext]_vars PROVE CalmInv'
  OBVIOUS
<1>1. CASE CalmNext
  <2>1. TypeOK'
    BY <1>1, TypesKept, Zenon DEF CalmInv, CalmNext, Next
  <2>2. QED
    BY <1>1, <2>1, StartCalm, LoopCalm, ClientCalm, EndCalm, Zenon
    DEF CalmNext, Step, ClientStep
<1>2. CASE UNCHANGED vars
  BY <1>2 DEF vars, CalmInv, SignalIsCalm, Started, NoThreadYet, RunsUntilStopped,
         ThreadsJoinable, DestroyedJoined, StoppedLoopsOver, SocketsOwn, EndsByExit,
         StopOver, Stopping, Over, Servers, TypeOK, starts, loops, ends, clients
<1>3. QED
  BY <1>1, <1>2

LEMMA CalmAlways == CalmSpec => []CalmInv
<1>1. QED
  BY CalmInitially, CalmStep, PTL DEF CalmSpec

(* A process told to stop when both servers are up ends by exit: no thread
   object is destroyed unjoined (the destructors of the two servers). *)
THEOREM ShutdownByExit == CalmSpec => []EndsByExit
<1>1. CalmInv => EndsByExit
  BY DEF CalmInv
<1>2. QED
  BY <1>1, CalmAlways, PTL

(* Once stop has returned, the server's accept thread neither takes a
   connection nor makes a thread for one (stop and acceptConnections). *)
THEOREM NothingAcceptedAfterStop == CalmSpec => NothingAcceptedOnceStopped
<1> DEFINE Taken(c) == \/ pc[c] = "queued" /\ pc'[c] = "accepted"
                       \/ pc[c] = "accepted" /\ pc'[c] = "recv"
<1>1. CalmInv /\ [CalmNext]_vars =>
        [\A c \in Connections : Taken(c) => ~ StopOver(server'[c])]_vars
  <2> SUFFICES ASSUME CalmInv, CalmNext, NEW c \in Connections, Taken(c)
               PROVE  ~ StopOver(server'[c])
    BY Zenon
  <2>1. PICK s \in Servers : loop[s] \in {"accept", "spawn"} /\ server'[c] = s
    <3> USE DEF CalmInv, TypeOK, ClientStages, clients
    <3>1. ASSUME NEW s \in Servers, Start(s) PROVE FALSE
      BY <3>1 DEF Start, OpenSocket, OpenFails, SetRunning, CreateAcceptThread,
                  AssignAcceptThread
    <3>2. ASSUME NEW s \in Servers, AcceptLoop(s)
          PROVE  loop[s] \in {"accept", "spawn"} /\ server'[c] = s
      <4>1. CASE LoopTest(s) \/ LoadSocket(s) \/ EnterAccept(s) \/ AcceptFails(s)
        BY <4>1 DEF LoopTest, LoadSocket, EnterAccept, AcceptFails
      <4>2. CASE \E b \in Connections, d \in Descriptors : Accept(s, b, d)
        BY <4>2 DEF Accept, SocketsOwn
      <4>3. CASE SpawnClientThread(s)
        BY <4>3 DEF SpawnClientThread
      <4>4. QED
        BY <3>2, <4>1, <4>2, <4>3, Zenon DEF AcceptLoop
    <3>3. ASSUME NEW b \in Connections, ClientStep(b) PROVE FALSE
      <4> USE DEF ToClientStage, CloseClient
      <4>1. CASE (\E s \in Servers : Connect(b, s)) \/ Receive(b) \/ ReceiveEnd(b)
        BY <4>1 DEF Connect, Receive, ReceiveEnd
      <4>2. CASE ServeMarket(b) \/ Logged(b) \/ TestRunning(b) \/ Leave(b)
        BY <4>2 DEF ServeMarket, Logged, TestRunning, Leave
      <4>3. CASE ServeHttp(b) \/ ServeWebSocket(b)
        BY <4>3 DEF ServeHttp, ServeWebSocket
      <4>4. QED
        BY <3>3, <4>1, <4>2, <4>3, Zenon DEF ClientStep, Serve
    <3>4. ASSUME Unwind \/ Signal \/ Ending PROVE FALSE
      <4>1. CASE Shutdown
        BY <4>1 DEF Shutdown
      <4>2. CASE Unwind \/ Signal \/ StopTest \/ CloseSocket \/ Join \/ Destroy
        BY <4>2 DEF Unwind, Signal, StopTest, CloseSocket, Join, Destroy
      <4>3. QED
        BY <3>4, <4>1, <4>2, Zenon DEF Ending
    <3>5. QED
      BY <3>1, <3>2, <3>3, <3>4, Zenon DEF CalmNext, Step, ClientStep
  <2>2. loop[s] \notin {"none", "done"}
    BY <2>1
  <2>3. QED
    BY <2>1, <2>2 DEF CalmInv, StoppedLoopsOver
<1>2. QED
  BY <1>1, CalmAlways, PTL DEF CalmSpec, NothingAcceptedOnceStopped

----------------------------------------------------------------------------
(* What else holds after a calm signal, for the liveness properties. *)

InStop(where) == stage \in {"handler", "exit"} /\ stopPc \in where

(* running_ is cleared first, and nothing listens for a server that is not
   running, from the shutdown on. *)
StopCleared == InStop({"shutdown", "close", "join"}) => ~ running[at]

ListenersRun ==
    \A s \in listening :
        /\ starting[s] \in {"run", "thread", "assign", "done"}
        /\ starting[s] = "done" => running[s] \/ (at = s /\ InStop({"shutdown"}))

StoppedForGood == \A s \in Servers : StopOver(s) => ~ running[s]

(* The handler destroys nothing; exit destroys the web server first, and stops
   nothing, both having been stopped by the handler. *)
EndingPlace ==
    /\ stage = "running" => destroyed = {}
    /\ stage = "handler" => destroyed = {} /\ stopPc # "destroy"
    /\ stage = "exit" => /\ stopPc \in {"test", "destroy"}
                         /\ destroyed = IF at = "web" THEN {} ELSE {"web"}

(* A loop exists once its thread is made, and ends only for a server that does
   not run. *)
LoopsMade ==
    \A s \in Servers :
        /\ loop[s] # "none" <=> starting[s] \in {"assign", "done"}
        /\ loop[s] = "done" => ~ running[s]

(* Until the signal, a server that has come so far listens, and its loop calls
   accept with the listening socket. *)
Up(s) == stage = "running" /\ starting[s] \in {"run", "thread", "assign", "done"}

ServersUp ==
    \A s \in Servers : Up(s) =>
        /\ s \in listening /\ serverSocket[s] # None /\ open[serverSocket[s]] = s
        /\ loop[s] = "enter" => acceptOn[s] = serverSocket[s]

EndInv ==
    /\ StopCleared
    /\ ListenersRun
    /\ StoppedForGood
    /\ EndingPlace
    /\ LoopsMade
    /\ ServersUp

LEMMA EndInitially == Init => EndInv
BY DEF Init, EndInv, StopCleared, ListenersRun, StoppedForGood, EndingPlace, LoopsMade,
       ServersUp, Up, InStop, StopOver

LEMMA StartEnds ==
    ASSUME CalmInv, EndInv, ~ Over, NEW s \in Servers, Start(s)
    PROVE  EndInv'
<1> USE LifecycleAssumption
    DEF CalmInv, SignalIsCalm, Started, NoThreadYet, EndInv, StopCleared, ListenersRun,
        StoppedForGood, EndingPlace, LoopsMade, ServersUp, Up, InStop, StopOver, Over,
        Servers, TypeOK, starts, loops, ends, clients, StarterRuns
<1>1. CASE \E d \in Descriptors : OpenSocket(s, d)
  BY <1>1 DEF OpenSocket
<1>2. CASE OpenFails(s)
  BY <1>2 DEF OpenFails
<1>3. CASE SetRunning(s)
  BY <1>3 DEF SetRunning
<1>4. CASE CreateAcceptThread(s)
  BY <1>4 DEF CreateAcceptThread
<1>5. CASE AssignAcceptThread(s)
  BY <1>5 DEF AssignAcceptThread, RunsUntilStopped, Stopping
<1>6. QED
  BY <1>1, <1>2, <1>3, <1>4, <1>5, Zenon DEF Start

LEMMA LoopEnds ==
    ASSUME CalmInv, EndInv, ~ Over, NEW s \in Servers, AcceptLoop(s)
    PROVE  EndInv'
<1> USE LifecycleAssumption
    DEF CalmInv, EndInv, StopCleared, ListenersRun,
        StoppedForGood, EndingPlace, LoopsMade, ServersUp, Up, InStop, StopOver, Over,
        Servers, TypeOK, starts, loops, ends, clients, Loop
<1>1. CASE LoopTest(s)
  BY <1>1 DEF LoopTest
<1>2. CASE LoadSocket(s)
  BY <1>2 DEF LoadSocket
<1>3. CASE EnterAccept(s)
  <2>1. \/ loop' = [loop EXCEPT ![s] = "accept"] /\ acceptOn' = [acceptOn EXCEPT ![s] = s]
        \/ loop' = [loop EXCEPT ![s] = "test"] /\ acceptOn' = [acceptOn EXCEPT ![s] = None]
    BY <1>3, EnterAcceptOwn, Zenon DEF Loop
  <2>2. loop[s] = "enter" /\ UNCHANGED <<starts, ends, open>>
    BY <1>3, Zenon DEF EnterAccept
  <2>3. QED
    BY <2>1, <2>2
<1>4. CASE \E c \in Connections, d \in Descriptors : Accept(s, c, d)
  BY <1>4 DEF Accept
<1>5. CASE AcceptFails(s)
  BY <1>5 DEF AcceptFails
<1>6. CASE SpawnClientThread(s)
  BY <1>6 DEF SpawnClientThread
<1>7. QED
  BY <1>1, <1>2, <1>3, <1>4, <1>5, <1>6, Zenon DEF AcceptLoop

LEMMA ClientEnds ==
    ASSUME CalmInv, EndInv, NEW c \in Connections, ClientStep(c)
    PROVE  EndInv'
<1>1. /\ UNCHANGED <<starts, loops, ends>>
      /\ \A d \in Descriptors : open'[d] = open[d] \/ (open[d] = c /\ open'[d] = None)
  BY ClientFrame DEF CalmInv
<1>2. QED
  BY <1>1, LifecycleAssumption
  DEF CalmInv, EndInv, StopCleared, ListenersRun,
      StoppedForGood, EndingPlace, LoopsMade, ServersUp, Up, InStop, StopOver, Over,
      Servers, TypeOK, starts, loops, ends, clients

LEMMA EndEnds ==
    ASSUME CalmInv, EndInv, ~ Over, Unwind \/ (Started /\ Signal) \/ Ending
    PROVE  EndInv'
<1> USE LifecycleAssumption
    DEF CalmInv, SignalIsCalm, RunsUntilStopped, Stopping, Started, EndInv, StopCleared,
        ListenersRun, StoppedForGood, EndingPlace, LoopsMade, ServersUp, Up, InStop,
        StopOver, Over, Servers, TypeOK, starts, loops, ends, clients, Enter
<1>1. CASE Unwind
  BY <1>1 DEF Unwind
<1>2. CASE Started /\ Signal
  BY <1>2 DEF Signal
<1>3. CASE StopTest
  BY <1>3 DEF StopTest, StopReturns
<1>4. CASE Shutdown
  BY <1>4 DEF Shutdown
<1>5. CASE CloseSocket
  BY <1>5 DEF CloseSocket
<1>6. CASE Join
  BY <1>6 DEF Join, StopReturns
<1>7. CASE Destroy
  BY <1>7 DEF Destroy
<1>8. QED
  BY <1>1, <1>2, <1>3, <1>4, <1>5, <1>6, <1>7, Zenon DEF Ending

LEMMA EndStep == CalmInv /\ EndInv /\ [CalmNext]_vars => EndInv'
<1> SUFFICES ASSUME CalmInv, EndInv, [CalmNext]_vars PROVE EndInv'
  OBVIOUS
<1>1. CASE CalmNext
  BY <1>1, StartEnds, LoopEnds, ClientEnds, EndEnds, Zenon DEF CalmNext, Step, ClientStep
<1>2. CASE UNCHANGED vars
  BY <1>2 DEF vars, EndInv, StopCleared, ListenersRun, StoppedForGood, EndingPlace,
      LoopsMade, ServersUp, Up, InStop, StopOver, starts, loops, ends, clients
<1>3. QED
  BY <1>1, <1>2

(* A connection is the loop's own until its thread is made; only threads of the
   market server log. *)
Spawning ==
    \A s \in Servers : loop[s] = "spawn" =>
        pc[acceptOn[s]] = "accepted" /\ server[acceptOn[s]] = s

LoggersOfMarket == \A c \in Connections : pc[c] = "log" => server[c] = "market"

(* What waits in a backlog waits for a server that is up, until the signal. *)
QueuedForServers ==
    \A c \in Connections : pc[c] = "queued" /\ stage = "running" => Up(server[c])

ConnectionInv == Spawning /\ LoggersOfMarket /\ QueuedForServers

LEMMA ConnectionsInitially == Init => ConnectionInv
BY DEF Init, ConnectionInv, Spawning, LoggersOfMarket, QueuedForServers

LEMMA ConnectionStep ==
    CalmInv /\ EndInv /\ ConnectionInv /\ [CalmNext]_vars => ConnectionInv'
<1> SUFFICES ASSUME CalmInv, EndInv, ConnectionInv, [CalmNext]_vars PROVE ConnectionInv'
  OBVIOUS
<1> USE LifecycleAssumption
    DEF ConnectionInv, Spawning, LoggersOfMarket, QueuedForServers, Up, TypeOK,
        ClientStages, Servers, starts, loops, ends, clients
<1>1. TypeOK
  BY DEF CalmInv
<1>2. ASSUME NEW s \in Servers, Start(s) PROVE ConnectionInv'
  BY <1>1, <1>2 DEF Start, OpenSocket, OpenFails, SetRunning, CreateAcceptThread,
                    AssignAcceptThread
<1>3. ASSUME NEW s \in Servers, AcceptLoop(s) PROVE ConnectionInv'
  <2> USE DEF Loop
  <2>1. CASE LoopTest(s) \/ LoadSocket(s) \/ EnterAccept(s) \/ AcceptFails(s)
    BY <1>1, <2>1 DEF LoopTest, LoadSocket, EnterAccept, AcceptFails
  <2>2. ASSUME NEW c \in Connections, NEW d \in Descriptors, Accept(s, c, d)
        PROVE  ConnectionInv'
    <3>1. acceptOn[s] = s
      BY <2>2 DEF Accept, CalmInv, SocketsOwn
    <3>2. QED
      BY <1>1, <2>2, <3>1 DEF Accept
  <2>3. CASE SpawnClientThread(s)
    BY <1>1, <2>3 DEF SpawnClientThread
  <2>4. QED
    BY <1>3, <2>1, <2>2, <2>3, Zenon DEF AcceptLoop
<1>4. ASSUME NEW c \in Connections, ClientStep(c) PROVE ConnectionInv'
  <2> USE DEF ToClientStage, CloseClient
  <2>1. CASE \E s \in Servers : Connect(c, s)
    BY <1>1, <2>1 DEF Connect, EndInv, ListenersRun
  <2>2. CASE Receive(c) \/ ReceiveEnd(c)
    BY <1>1, <2>2 DEF Receive, ReceiveEnd
  <2>3. CASE ServeMarket(c) \/ Logged(c) \/ TestRunning(c) \/ Leave(c)
    BY <1>1, <2>3 DEF ServeMarket, Logged, TestRunning, Leave
  <2>4. CASE ServeHttp(c) \/ ServeWebSocket(c)
    BY <1>1, <2>4 DEF ServeHttp, ServeWebSocket
  <2>5. QED
    BY <1>4, <2>1, <2>2, <2>3, <2>4, Zenon DEF ClientStep, Serve
<1>5. ASSUME Unwind \/ Signal \/ Ending PROVE ConnectionInv'
  <2> USE DEF Enter
  <2>1. CASE Shutdown
    BY <1>1, <2>1 DEF Shutdown
  <2>2. CASE Unwind \/ Signal
    BY <1>1, <2>2 DEF Unwind, Signal
  <2>3. CASE StopTest \/ CloseSocket \/ Join \/ Destroy
    BY <1>1, <2>3 DEF StopTest, CloseSocket, Join, Destroy, StopReturns
  <2>4. QED
    BY <1>5, <2>1, <2>2, <2>3, Zenon DEF Ending
<1>6. CASE UNCHANGED vars
  BY <1>6 DEF vars
<1>7. QED
  BY <1>2, <1>3, <1>4, <1>5, <1>6, Zenon DEF CalmNext, Step, ClientStep

LiveInv == CalmInv /\ EndInv /\ ConnectionInv

LEMMA LiveInitially == Init => LiveInv
BY CalmInitially, EndInitially, ConnectionsInitially DEF LiveInv

LEMMA LiveStep == LiveInv /\ [CalmNext]_vars => LiveInv'
BY CalmStep, EndStep, ConnectionStep DEF LiveInv

LEMMA LiveAlways == CalmSpec => []LiveInv
BY LiveInitially, LiveStep, PTL DEF CalmSpec

----------------------------------------------------------------------------
(* Liveness: from one place of main's ending to the next. *)

Where(st, s, place) == stage = st /\ at = s /\ stopPc = place

(* Where stop of s returns to. *)
Returned(st, s) ==
    \/ st = "handler" /\ s = "web" /\ Where("handler", "market", "test")
    \/ st = "handler" /\ s = "market" /\ Where("exit", "web", "test")
    \/ st = "exit" /\ Where("exit", s, "destroy")

Past(st, s, place) ==
    \/ place = "test" /\ (Returned(st, s) \/ Where(st, s, "shutdown"))
    \/ place = "shutdown" /\ Where(st, s, "close")
    \/ place = "close" /\ Where(st, s, "join")
    \/ place = "join" /\ Returned(st, s)
    \/ place = "destroy" /\ (Over \/ (s = "web" /\ Where("exit", "market", "test")))

Endings == {"handler", "exit"}

Places == {"test", "shutdown", "close", "join", "destroy"}

(* No one but main's own ending moves it. *)
LEMMA OnlyEndingMoves ==
    ASSUME LiveInv, NEW st \in Endings, NEW s \in Servers, NEW place \in Places,
           Where(st, s, place), [CalmNext]_vars
    PROVE  EndingGoesOn \/ Where(st, s, place)'
<1>1. stage \in Endings /\ ~ Over
  BY DEF Where, Endings, Over
<1>2. ASSUME NEW r \in Servers, Start(r) \/ AcceptLoop(r)
      PROVE  UNCHANGED ends
  BY <1>2 DEF Start, OpenSocket, OpenFails, SetRunning, CreateAcceptThread,
     AssignAcceptThread, AcceptLoop, LoopTest, LoadSocket, EnterAccept, Accept, AcceptFails,
     SpawnClientThread
<1>3. ASSUME NEW c \in Connections, ClientStep(c)
      PROVE  UNCHANGED ends
  BY <1>3, ClientFrame DEF LiveInv, CalmInv
<1>4. ~ Unwind /\ ~ Signal
  BY <1>1 DEF Unwind, Signal, Endings
<1>5. Ending => EndingGoesOn
  BY <1>1 DEF EndingGoesOn
<1>6. UNCHANGED ends => Where(st, s, place)'
  BY DEF ends, Where
<1>7. UNCHANGED vars => UNCHANGED ends
  BY DEF vars
<1>8. QED
  BY <1>2, <1>3, <1>4, <1>5, <1>6, <1>7, Zenon DEF CalmNext, Step, ClientStep

LEMMA EndingMoves ==
    ASSUME NEW st \in Endings, NEW s \in Servers, NEW place \in Places,
           Where(st, s, place), EndingGoesOn
    PROVE  Past(st, s, place)'
<1> USE DEF Where, Endings, Places, Servers, Past, Returned, Enter, StopReturns, Over
<1>1. CASE StopTest
  BY <1>1 DEF StopTest
<1>2. CASE Shutdown
  BY <1>2 DEF Shutdown
<1>3. CASE CloseSocket
  BY <1>3 DEF CloseSocket
<1>4. CASE Join
  BY <1>4 DEF Join
<1>5. CASE Destroy
  BY <1>5 DEF Destroy
<1>6. QED
  BY <1>1, <1>2, <1>3, <1>4, <1>5, Zenon DEF EndingGoesOn, Ending

(* If main stays at a place, whatever it waits for there comes, for good. *)
Unblocked(st, s, place) == []([]Where(st, s, place) => <>[]CanEnd)

Leaves(st, s, place) == Where(st, s, place) ~> Past(st, s, place)

LEMMA PlaceLeft ==
    ASSUME NEW st \in Endings, NEW s \in Servers, NEW place \in Places
    PROVE  [][CalmNext]_vars /\ []LiveInv /\ []GuardsEnabled /\ MainScheduled
           /\ Unblocked(st, s, place)
              => Leaves(st, s, place)
<1>1. LiveInv /\ Where(st, s, place) /\ [CalmNext]_vars
         => (Where(st, s, place) \/ Past(st, s, place))'
  BY OnlyEndingMoves, EndingMoves
<1>2. Where(st, s, place) /\ <<EndingGoesOn>>_vars => Past(st, s, place)'
  BY EndingMoves
<1>3. GuardsEnabled /\ CanEnd => ENABLED <<EndingGoesOn>>_vars
  BY DEF GuardsEnabled
<1>4. QED
  BY <1>1, <1>2, <1>3, PTL DEF MainScheduled, Unblocked, Leaves

LEMMA NothingToWaitFor ==
    ASSUME NEW st \in Endings, NEW s \in Servers, NEW place \in Places,
           \/ place \in {"test", "shutdown", "close"}
           \/ st = "exit" /\ s = "web" /\ place = "destroy"
    PROVE  Unblocked(st, s, place)
<1>1. Where(st, s, place) => CanEnd
  BY DEF Where, CanEnd, Endings
<1>2. QED
  BY <1>1, PTL DEF Unblocked

(* The join of the accept thread. *)
Joining(s) == Where("handler", s, "join")

LoopAt(s, place) == loop[s] = place

LEMMA LoopOnlyMovesItself ==
    ASSUME LiveInv, NEW s \in Servers, starting[s] \in {"done", "failed"}, [CalmNext]_vars
    PROVE  LoopGoesOn(s) \/ UNCHANGED loop[s]
<1> USE DEF LiveInv, CalmInv, TypeOK, loops
<1>1. ASSUME NEW r \in Servers, Start(r)
      PROVE  UNCHANGED loop[s]
  BY <1>1 DEF Start, OpenSocket, OpenFails, SetRunning, CreateAcceptThread,
     AssignAcceptThread, Servers
<1>2. ASSUME NEW r \in Servers, r # s, AcceptLoop(r)
      PROVE  UNCHANGED loop[s]
  BY <1>2 DEF AcceptLoop, LoopTest, LoadSocket, EnterAccept, Accept, AcceptFails,
     SpawnClientThread, Loop
<1>3. ASSUME NEW c \in Connections, ClientStep(c)
      PROVE  UNCHANGED loop[s]
  BY <1>3, ClientFrame
<1>4. Unwind \/ Signal \/ Ending => UNCHANGED loop
  BY DEF Unwind, Signal, Ending, StopTest, Shutdown, CloseSocket, Join, Destroy
<1>5. UNCHANGED vars => UNCHANGED loop
  BY DEF vars
<1>6. QED
  BY <1>1, <1>2, <1>3, <1>4, <1>5 DEF CalmNext, Step, ClientStep, LoopGoesOn

LEMMA LoopMoves ==
    ASSUME LiveInv, NEW s \in Servers, LoopGoesOn(s)
    PROVE  /\ LoopAt(s, "load") => LoopAt(s, "enter")'
           /\ LoopAt(s, "enter") => LoopAt(s, "accept")' \/ LoopAt(s, "test")'
           /\ LoopAt(s, "accept") => LoopAt(s, "spawn")' \/ LoopAt(s, "test")'
           /\ LoopAt(s, "spawn") => LoopAt(s, "test")'
           /\ LoopAt(s, "test") /\ ~ running[s] => LoopAt(s, "done")'
           /\ LoopAt(s, "test") /\ running[s] => LoopAt(s, "load")'
           /\ ~ LoopAt(s, "done")
<1> USE DEF LoopAt, Loop, LiveInv, CalmInv, TypeOK
<1>1. CASE LoopTest(s)
  BY <1>1 DEF LoopTest
<1>2. CASE LoadSocket(s)
  BY <1>2 DEF LoadSocket
<1>3. CASE EnterAccept(s)
  BY <1>3 DEF EnterAccept
<1>4. CASE \E c \in Connections, d \in Descriptors : Accept(s, c, d)
  BY <1>4 DEF Accept
<1>5. CASE AcceptFails(s)
  BY <1>5 DEF AcceptFails
<1>6. CASE SpawnClientThread(s)
  BY <1>6 DEF SpawnClientThread
<1>7. QED
  BY <1>1, <1>2, <1>3, <1>4, <1>5, <1>6, Zenon DEF LoopGoesOn, AcceptLoop

(* The loop of a server being stopped gets to its end: what it is in returns,
   and running_ is false. *)
LEMMA LoopEndsWhileJoined ==
    ASSUME NEW s \in Servers
    PROVE  [][CalmNext]_vars /\ []LiveInv /\ []GuardsEnabled /\ ServerScheduled(s)
              => Unblocked("handler", s, "join")
<1> DEFINE AtPlace(place) == Joining(s) /\ LoopAt(s, place)
           Free == Joining(s) /\ (joinable[s] => LoopAt(s, "done"))
<1>1. LiveInv /\ Joining(s) =>
         /\ Started /\ ~ running[s] /\ s \notin listening /\ s \notin destroyed /\ ~ Over
         /\ Free \/ AtPlace("load") \/ AtPlace("enter") \/ AtPlace("accept") \/ AtPlace("spawn")
            \/ AtPlace("test")
  BY DEF LiveInv, CalmInv, EndInv, TypeOK, SignalIsCalm, NoThreadYet, Started, StopCleared,
     InStop, ListenersRun, EndingPlace, LoopsMade, Joining, Where, LoopAt, Over, Servers
<1>2. LiveInv /\ Joining(s) /\ Joining(s)' /\ [CalmNext]_vars => UNCHANGED joinable[s]
  <2>1. SUFFICES ASSUME LiveInv, Joining(s), Joining(s)', [CalmNext]_vars
                 PROVE  UNCHANGED joinable[s]
    OBVIOUS
  <2>2. Started
    BY <2>1, <1>1
  <2>3. ASSUME NEW r \in Servers, Start(r) \/ AcceptLoop(r)
        PROVE  UNCHANGED joinable[s]
    BY <2>2, <2>3 DEF Start, OpenSocket, OpenFails, SetRunning, CreateAcceptThread,
       AssignAcceptThread, AcceptLoop, LoopTest, LoadSocket, EnterAccept, Accept,
       AcceptFails, SpawnClientThread, starts, Started, Servers
  <2>4. ASSUME NEW c \in Connections, ClientStep(c)
        PROVE  UNCHANGED joinable[s]
    BY <2>1, <2>4, ClientFrame DEF LiveInv, CalmInv, starts
  <2>5. ~ Unwind /\ ~ Signal /\ ~ Ending
    BY <2>1 DEF Unwind, Signal, Ending, StopTest, Shutdown, CloseSocket, Join, Destroy,
       StopReturns, Enter, Joining, Where
  <2>6. UNCHANGED vars => UNCHANGED joinable[s]
    BY DEF vars, starts
  <2>7. QED
    BY <2>1, <2>3, <2>4, <2>5, <2>6 DEF CalmNext, Step, ClientStep
<1>3. LiveInv /\ Joining(s) /\ [CalmNext]_vars => LoopGoesOn(s) \/ UNCHANGED loop[s]
  BY <1>1, LoopOnlyMovesItself DEF Started, Servers
<1>4. LiveInv /\ Free /\ Joining(s)' /\ [CalmNext]_vars => Free'
  BY <1>2, <1>3, LoopMoves DEF LoopAt
<1>5. ASSUME NEW place
      PROVE  LiveInv /\ AtPlace(place) /\ Joining(s)' /\ [CalmNext]_vars
                => LoopGoesOn(s) \/ AtPlace(place)'
  BY <1>3 DEF LoopAt
<1>6. LiveInv /\ AtPlace("load") /\ Joining(s)' /\ [CalmNext]_vars
         => LoopGoesOn(s) \/ AtPlace("load")'
  BY <1>5
<1>7. LiveInv /\ AtPlace("enter") /\ Joining(s)' /\ [CalmNext]_vars
         => LoopGoesOn(s) \/ AtPlace("enter")'
  BY <1>5
<1>8. LiveInv /\ AtPlace("accept") /\ Joining(s)' /\ [CalmNext]_vars
         => LoopGoesOn(s) \/ AtPlace("accept")'
  BY <1>5
<1>9. LiveInv /\ AtPlace("spawn") /\ Joining(s)' /\ [CalmNext]_vars
         => LoopGoesOn(s) \/ AtPlace("spawn")'
  BY <1>5
<1>10. LiveInv /\ AtPlace("test") /\ Joining(s)' /\ [CalmNext]_vars
         => LoopGoesOn(s) \/ AtPlace("test")'
  BY <1>5
<1>11. LiveInv /\ LoopGoesOn(s) /\ Joining(s) /\ Joining(s)' =>
          /\ AtPlace("load") => AtPlace("enter")'
          /\ AtPlace("enter") => AtPlace("accept")' \/ AtPlace("test")'
          /\ AtPlace("accept") => AtPlace("spawn")' \/ AtPlace("test")'
          /\ AtPlace("spawn") => AtPlace("test")'
          /\ AtPlace("test") => Free'
  BY <1>1, LoopMoves
<1>12. LiveInv /\ Joining(s) /\ ~ Free => CanLoop(s)
  BY <1>1 DEF CanLoop, LoopAt, LiveInv, CalmInv, SocketsOwn
<1>13. GuardsEnabled /\ CanLoop(s) => ENABLED <<LoopGoesOn(s)>>_vars
  BY DEF GuardsEnabled
<1>14. Free => CanEnd
  BY DEF Joining, Where, CanEnd, LoopAt
<1>15. Joining(s) <=> Where("handler", s, "join")
  BY DEF Joining
<1>16. QED
  BY <1>1, <1>4, <1>6, <1>7, <1>8, <1>9, <1>10, <1>11, <1>12, <1>13, <1>14, <1>15, PTL
     DEF ServerScheduled, Unblocked

(* The last thing main waits for is the logger's mutex, which the destructor of
   the market server takes.  A thread past its last message does not come back
   to the logger. *)
MarketGoes == Where("exit", "market", "destroy")

NotLogging(c) == pc[c] # "log"

LastStages == {"test", "leave", "done"}

NeverLogsAgain(c) == <>[]NotLogging(c)

(* What every connection does from some time on, all do from some time on: so
   it is of any behaviour if there are finitely many connections, by an
   induction over them that takes temporal formulas, which the provers do not
   have. *)
FinitelyManyConnections ==
    (\A c \in Connections : NeverLogsAgain(c)) => <>[](\A c \in Connections : NotLogging(c))

LEMMA ClientOnlyMovesItself ==
    ASSUME LiveInv, NEW c \in Connections, pc[c] \in LastStages \cup {"log"}, [CalmNext]_vars
    PROVE  ServeGoesOn(c) \/ UNCHANGED pc[c]
<1> USE DEF LastStages, LiveInv, CalmInv, TypeOK, clients
<1>1. ASSUME NEW s \in Servers, Start(s)
      PROVE  UNCHANGED pc[c]
  BY <1>1 DEF Start, OpenSocket, OpenFails, SetRunning, CreateAcceptThread,
     AssignAcceptThread
<1>2. ASSUME NEW s \in Servers, AcceptLoop(s)
      PROVE  UNCHANGED pc[c]
  <2>1. CASE \E b \in Connections, d \in Descriptors : Accept(s, b, d)
    BY <2>1 DEF Accept
  <2>2. CASE SpawnClientThread(s)
    BY <2>2 DEF SpawnClientThread, ConnectionInv, Spawning
  <2>3. CASE LoopTest(s) \/ LoadSocket(s) \/ EnterAccept(s) \/ AcceptFails(s)
    BY <2>3 DEF LoopTest, LoadSocket, EnterAccept, AcceptFails
  <2>4. QED
    BY <1>2, <2>1, <2>2, <2>3 DEF AcceptLoop
<1>3. ASSUME NEW b \in Connections, b # c, ClientStep(b)
      PROVE  UNCHANGED pc[c]
  BY <1>3 DEF ClientStep, Serve, Connect, Receive, ReceiveEnd, ServeMarket, Logged,
     TestRunning, Leave, ServeHttp, ServeWebSocket, ToClientStage, CloseClient
<1>4. ASSUME ClientStep(c)
      PROVE  Serve(c)
  BY <1>4 DEF ClientStep, Connect, Receive, ReceiveEnd
<1>5. Unwind \/ Signal \/ Ending => UNCHANGED pc[c]
  BY DEF Unwind, Signal, Ending, StopTest, Shutdown, CloseSocket, Join, Destroy
<1>6. UNCHANGED vars => UNCHANGED pc[c]
  BY DEF vars
<1>7. CalmNext => ~ Over
  BY DEF CalmNext
<1>8. QED
  BY <1>1, <1>2, <1>3, <1>4, <1>5, <1>6, <1>7, Zenon
     DEF CalmNext, Step, ClientStep, ServeGoesOn

LEMMA LastClientSteps ==
    ASSUME LiveInv, MarketGoes, NEW c \in Connections, ServeGoesOn(c)
    PROVE  /\ pc[c] = "log" => pc'[c] = "test"
           /\ pc[c] \in LastStages => pc'[c] \in LastStages
<1>1. ~ running["market"]
  BY DEF LiveInv, EndInv, StoppedForGood, StopOver, MarketGoes, Where, Servers
<1>2. QED
  BY <1>1 DEF LiveInv, CalmInv, TypeOK, LastStages, ServeGoesOn, Serve, ServeMarket, Logged,
     TestRunning, Leave, ServeHttp, ServeWebSocket, ToClientStage, CloseClient

LEMMA LoggerLeftForGood ==
    ASSUME NEW c \in Connections
    PROVE  [][CalmNext]_vars /\ []LiveInv /\ []GuardsEnabled /\ ClientScheduled(c)
              /\ <>[]MarketGoes => NeverLogsAgain(c)
<1> DEFINE Logging == pc[c] = "log"
           Last == pc[c] \in LastStages
<1>1. LiveInv /\ MarketGoes /\ Logging /\ [CalmNext]_vars => ServeGoesOn(c) \/ Logging'
  BY ClientOnlyMovesItself
<1>2. LiveInv /\ MarketGoes /\ Logging /\ ServeGoesOn(c) => Last'
  BY LastClientSteps DEF LastStages
<1>3. LiveInv /\ MarketGoes /\ Last /\ [CalmNext]_vars => Last'
  BY ClientOnlyMovesItself, LastClientSteps
<1>4. LiveInv /\ MarketGoes /\ Logging => CanServe(c)
  BY DEF LiveInv, ConnectionInv, LoggersOfMarket, EndInv, EndingPlace, MarketGoes, Where,
     CanServe, Usable, Uses, Over
<1>5. GuardsEnabled /\ CanServe(c) => ENABLED <<ServeGoesOn(c)>>_vars
  BY DEF GuardsEnabled
<1>6. NotLogging(c) <=> ~ Logging
  BY DEF NotLogging
<1>7. Last => ~ Logging
  BY DEF LastStages
<1> HIDE DEF Logging, Last
<1>8. QED
  BY <1>1, <1>2, <1>3, <1>4, <1>5, <1>6, <1>7, PTL DEF ClientScheduled, NeverLogsAgain

ClientsScheduled == \A c \in Connections : ClientScheduled(c)

LEMMA LoggerComesFree ==
    [][CalmNext]_vars /\ []LiveInv /\ []GuardsEnabled /\ ClientsScheduled
    /\ FinitelyManyConnections
       => Unblocked("exit", "market", "destroy")
<1>1. [][CalmNext]_vars /\ []LiveInv /\ []GuardsEnabled /\ ClientsScheduled /\ <>[]MarketGoes
         => \A c \in Connections : NeverLogsAgain(c)
  BY LoggerLeftForGood DEF ClientsScheduled
<1>2. [][CalmNext]_vars /\ []LiveInv /\ []GuardsEnabled /\ ClientsScheduled
      /\ FinitelyManyConnections /\ <>[]MarketGoes
         => <>[](\A c \in Connections : NotLogging(c))
  BY <1>1 DEF FinitelyManyConnections
<1>3. MarketGoes /\ (\A c \in Connections : NotLogging(c)) => CanEnd
  BY DEF MarketGoes, Where, CanEnd, NotLogging
<1>4. MarketGoes <=> Where("exit", "market", "destroy")
  BY DEF MarketGoes
<1>5. QED
  BY <1>2, <1>3, <1>4, PTL DEF Unblocked

ServersScheduled == \A s \in Servers : ServerScheduled(s)

(* A signal that comes once both servers are started ends the process: main
   waits for an accept thread only when shutdown has woken it and running_ is
   false, and for the logger only while the threads past their last message
   leave it. *)
THEOREM ShutdownCompletes ==
    CalmSpec /\ []GuardsEnabled /\ FinitelyManyConnections => ShutdownEnds
<1> DEFINE Safe == [][CalmNext]_vars /\ []LiveInv /\ []GuardsEnabled /\ MainScheduled
<1>1. ASSUME NEW s \in Servers
      PROVE  Safe /\ ServerScheduled(s)
                => /\ Leaves("handler", s, "test") /\ Leaves("handler", s, "shutdown")
                   /\ Leaves("handler", s, "close") /\ Leaves("handler", s, "join")
                   /\ Leaves("exit", s, "test")
  BY PlaceLeft, NothingToWaitFor, LoopEndsWhileJoined DEF Endings, Places
<1>2. Safe => Leaves("exit", "web", "destroy")
  BY PlaceLeft, NothingToWaitFor DEF Endings, Places, Servers
<1>3. Safe /\ ClientsScheduled /\ FinitelyManyConnections
         => Leaves("exit", "market", "destroy")
  BY PlaceLeft, LoggerComesFree DEF Endings, Places, Servers
<1>4. Fairness => MainScheduled /\ ClientsScheduled /\ ServerScheduled("market")
                  /\ ServerScheduled("web")
  BY DEF Fairness, ClientsScheduled, Servers
<1>5. LiveInv /\ stage = "handler" =>
         \/ Where("handler", "web", "test") \/ Where("handler", "web", "shutdown")
         \/ Where("handler", "web", "close") \/ Where("handler", "web", "join")
         \/ Where("handler", "market", "test") \/ Where("handler", "market", "shutdown")
         \/ Where("handler", "market", "close") \/ Where("handler", "market", "join")
  BY DEF LiveInv, CalmInv, EndInv, EndingPlace, TypeOK, Where, Servers
<1>6. LiveInv => /\ ~ Where("exit", "web", "shutdown")
                 /\ ~ Where("exit", "market", "shutdown")
  BY DEF LiveInv, EndInv, EndingPlace, Where
<1>7. /\ Past("handler", "web", "test") =>
            Where("handler", "market", "test") \/ Where("handler", "web", "shutdown")
      /\ Past("handler", "web", "shutdown") => Where("handler", "web", "close")
      /\ Past("handler", "web", "close") => Where("handler", "web", "join")
      /\ Past("handler", "web", "join") => Where("handler", "market", "test")
      /\ Past("handler", "market", "test") =>
            Where("exit", "web", "test") \/ Where("handler", "market", "shutdown")
      /\ Past("handler", "market", "shutdown") => Where("handler", "market", "close")
      /\ Past("handler", "market", "close") => Where("handler", "market", "join")
      /\ Past("handler", "market", "join") => Where("exit", "web", "test")
  BY DEF Past, Returned
<1>8. /\ Past("exit", "web", "test") =>
            Where("exit", "web", "destroy") \/ Where("exit", "web", "shutdown")
      /\ Past("exit", "web", "destroy") => Where("exit", "market", "test") \/ Over
      /\ Past("exit", "market", "test") =>
            Where("exit", "market", "destroy") \/ Where("exit", "market", "shutdown")
      /\ Past("exit", "market", "destroy") => Over
  BY DEF Past, Returned
<1>9. CalmSpec /\ []GuardsEnabled => Safe /\ Fairness
  BY LiveAlways, PTL DEF CalmSpec, Fairness
<1>10. Safe /\ ServerScheduled("web")
          => /\ Leaves("handler", "web", "test") /\ Leaves("handler", "web", "shutdown")
             /\ Leaves("handler", "web", "close") /\ Leaves("handler", "web", "join")
             /\ Leaves("exit", "web", "test")
  BY <1>1 DEF Servers
<1>11. Safe /\ ServerScheduled("market")
          => /\ Leaves("handler", "market", "test") /\ Leaves("handler", "market", "shutdown")
             /\ Leaves("handler", "market", "close") /\ Leaves("handler", "market", "join")
             /\ Leaves("exit", "market", "test")
  BY <1>1 DEF Servers
<1> HIDE DEF Safe
<1>12. Safe => []LiveInv
  BY DEF Safe
<1>13. Safe /\ Fairness /\ FinitelyManyConnections => ShutdownEnds
  <2>1. Safe /\ Fairness /\ FinitelyManyConnections
           => (Where("handler", "market", "test") ~> Where("exit", "web", "test"))
    BY <1>4, <1>7, <1>11, PTL DEF Leaves
  <2>2. Safe /\ Fairness /\ FinitelyManyConnections
           => (Where("exit", "web", "test") ~> Over)
    BY <1>2, <1>3, <1>4, <1>6, <1>8, <1>10, <1>11, <1>12, PTL DEF Leaves
  <2>3. QED
    BY <1>4, <1>5, <1>7, <1>10, <1>11, <1>12, <2>1, <2>2, PTL DEF Leaves, ShutdownEnds
<1>14. QED
  BY <1>9, <1>13

----------------------------------------------------------------------------
(* Liveness: a connection in the backlog. *)

FreeDescriptor == \E d \in Descriptors : open[d] = None

Waits(c) == pc[c] = "queued" /\ ~ Signalled /\ FreeDescriptor

WaitsFor(c, s) == Waits(c) /\ server[c] = s

Takes(s, b) == \E d \in Descriptors : Accept(s, b, d)

NoLongerTakes(s, b) == <>[][~ Takes(s, b)]_vars

TakesNoMore(s) == <>[][\A b \in Connections : ~ Takes(s, b)]_vars

WaitEnds(c, s) == ~ <>[]WaitsFor(c, s)

(* Another valid law of finitely many connections: if each is taken from the
   backlog for the last time some time, there is a last time any is. *)
FinitelyManyTaken ==
    \A s \in Servers : (\A b \in Connections : NoLongerTakes(s, b)) => TakesNoMore(s)

(* A connection is taken once. *)
LEMMA TakenOnce ==
    ASSUME NEW s \in Servers, NEW b \in Connections
    PROVE  [][CalmNext]_vars /\ []LiveInv => NoLongerTakes(s, b)
<1> DEFINE Taken == pc[b] \notin {"none", "queued"}
<1>1. LiveInv /\ Takes(s, b) => ~ Taken /\ Taken'
  BY DEF Takes, Accept, LiveInv, CalmInv, TypeOK
<1>2. ASSUME LiveInv, Taken, [CalmNext]_vars
      PROVE  Taken'
  <2> USE <1>2 DEF LiveInv, CalmInv, TypeOK, clients
  <2>1. ASSUME NEW r \in Servers, Start(r)
        PROVE  Taken'
    BY <2>1 DEF Start, OpenSocket, OpenFails, SetRunning, CreateAcceptThread,
       AssignAcceptThread
  <2>2. ASSUME NEW r \in Servers, AcceptLoop(r)
        PROVE  Taken'
    BY <2>2 DEF AcceptLoop, LoopTest, LoadSocket, EnterAccept, Accept, AcceptFails,
       SpawnClientThread
  <2>3. ASSUME NEW c \in Connections, ClientStep(c)
        PROVE  Taken'
    BY <2>3 DEF ClientStep, Serve, Connect, Receive, ReceiveEnd, ServeMarket, Logged,
       TestRunning, Leave, ServeHttp, ServeWebSocket, ToClientStage, CloseClient
  <2>4. Unwind \/ Signal \/ Ending => Taken'
    BY DEF Unwind, Signal, Ending, StopTest, Shutdown, CloseSocket, Join, Destroy
  <2>5. UNCHANGED vars => Taken'
    BY DEF vars
  <2>6. QED
    BY <2>1, <2>2, <2>3, <2>4, <2>5, Zenon DEF CalmNext, Step, ClientStep
<1> HIDE DEF Taken
<1>3. LiveInv /\ Taken /\ [CalmNext]_vars => Taken'
  BY <1>2
<1>4. QED
  BY <1>1, <1>3, PTL DEF NoLongerTakes

(* A server someone waits for is up, and its start goes on to its end. *)
StartAt(s, place) == starting[s] = place

LEMMA StartMoves ==
    ASSUME LiveInv, NEW s \in Servers, ~ StartAt(s, "open"), [CalmNext]_vars
    PROVE  /\ StartGoesOn(s) \/ UNCHANGED starting[s]
           /\ StartGoesOn(s) => /\ StartAt(s, "run") => StartAt(s, "thread")'
                                /\ StartAt(s, "thread") => StartAt(s, "assign")'
                                /\ StartAt(s, "assign") => StartAt(s, "done")'
                                /\ ~ StartAt(s, "done")
<1> USE DEF LiveInv, CalmInv, TypeOK, starts, StartAt
<1>1. ASSUME NEW r \in Servers, r # s, Start(r)
      PROVE  UNCHANGED starting[s]
  BY <1>1 DEF Start, OpenSocket, OpenFails, SetRunning, CreateAcceptThread,
     AssignAcceptThread
<1>2. ASSUME NEW r \in Servers, AcceptLoop(r)
      PROVE  UNCHANGED starting[s]
  BY <1>2 DEF AcceptLoop, LoopTest, LoadSocket, EnterAccept, Accept, AcceptFails,
     SpawnClientThread
<1>3. ASSUME NEW c \in Connections, ClientStep(c)
      PROVE  UNCHANGED starting[s]
  BY <1>3, ClientFrame
<1>4. Unwind \/ Signal \/ Ending => UNCHANGED starting
  BY DEF Unwind, Signal, Ending, StopTest, Shutdown, CloseSocket, Join, Destroy
<1>5. UNCHANGED vars => UNCHANGED starting
  BY DEF vars
<1>6. StartGoesOn(s) \/ UNCHANGED starting[s]
  BY <1>1, <1>2, <1>3, <1>4, <1>5 DEF CalmNext, Step, ClientStep, StartGoesOn
<1>7. StartGoesOn(s) => /\ StartAt(s, "run") => StartAt(s, "thread")'
                        /\ StartAt(s, "thread") => StartAt(s, "assign")'
                        /\ StartAt(s, "assign") => StartAt(s, "done")'
                        /\ ~ StartAt(s, "done")
  BY DEF StartGoesOn, Start, OpenSocket, OpenFails, SetRunning, CreateAcceptThread,
     AssignAcceptThread
<1>8. QED
  BY <1>6, <1>7

LEMMA StartComesToItsEnd ==
    ASSUME NEW c \in Connections, NEW s \in Servers
    PROVE  [][CalmNext]_vars /\ []LiveInv /\ []GuardsEnabled /\ ServerScheduled(s)
              /\ <>[]WaitsFor(c, s) => <>[]StartAt(s, "done")
<1>1. LiveInv /\ WaitsFor(c, s) =>
         StartAt(s, "run") \/ StartAt(s, "thread") \/ StartAt(s, "assign") \/ StartAt(s, "done")
  BY DEF LiveInv, ConnectionInv, QueuedForServers, Up, WaitsFor, Waits, Signalled, StartAt
<1>2. LiveInv /\ StartAt(s, "run") /\ [CalmNext]_vars
         => StartAt(s, "thread")' \/ (~ StartGoesOn(s) /\ StartAt(s, "run")')
  BY StartMoves DEF StartAt
<1>3. LiveInv /\ StartAt(s, "thread") /\ [CalmNext]_vars
         => StartAt(s, "assign")' \/ (~ StartGoesOn(s) /\ StartAt(s, "thread")')
  BY StartMoves DEF StartAt
<1>4. LiveInv /\ StartAt(s, "assign") /\ [CalmNext]_vars
         => StartAt(s, "done")' \/ (~ StartGoesOn(s) /\ StartAt(s, "assign")')
  BY StartMoves DEF StartAt
<1>5. LiveInv /\ StartAt(s, "done") /\ [CalmNext]_vars => StartAt(s, "done")'
  BY StartMoves DEF StartAt
<1>6. WaitsFor(c, s) /\ (StartAt(s, "run") \/ StartAt(s, "thread") \/ StartAt(s, "assign"))
         => CanStart(s)
  BY DEF WaitsFor, Waits, Signalled, StartAt, CanStart, StarterRuns, Over
<1>7. GuardsEnabled /\ CanStart(s) => ENABLED <<StartGoesOn(s)>>_vars
  BY DEF GuardsEnabled
<1>8. QED
  BY <1>1, <1>2, <1>3, <1>4, <1>5, <1>6, <1>7, PTL DEF ServerScheduled

(* Its loop then comes back to accept, and there takes someone. *)
LEMMA LoopMovesUp ==
    ASSUME LiveInv, NEW c \in Connections, NEW s \in Servers, WaitsFor(c, s),
           StartAt(s, "done")
    PROVE  /\ CanLoop(s)
           /\ \/ LoopAt(s, "test") \/ LoopAt(s, "load") \/ LoopAt(s, "enter")
              \/ LoopAt(s, "accept") \/ LoopAt(s, "spawn")
           /\ LoopGoesOn(s) => /\ LoopAt(s, "spawn") => LoopAt(s, "test")'
                               /\ LoopAt(s, "test") => LoopAt(s, "load")'
                               /\ LoopAt(s, "load") => LoopAt(s, "enter")'
                               /\ LoopAt(s, "enter") => LoopAt(s, "accept")'
                               /\ LoopAt(s, "accept") => \E b \in Connections : Takes(s, b)
<1> USE DEF LoopAt, StartAt, WaitsFor, Waits, Signalled
<1>1. /\ running[s] /\ s \in listening /\ s \notin destroyed /\ ~ Over
      /\ open[serverSocket[s]] = s /\ serverSocket[s] # None
      /\ loop[s] = "enter" => acceptOn[s] = serverSocket[s]
      /\ loop[s] = "accept" => acceptOn[s] = s
      /\ loop[s] \in {"test", "load", "enter", "accept", "spawn"}
  BY DEF LiveInv, CalmInv, TypeOK, SocketsOwn, EndInv, ListenersRun, InStop, ServersUp, Up,
     EndingPlace, LoopsMade, Over
<1>2. CanLoop(s)
  BY <1>1 DEF CanLoop
<1>3. LoopGoesOn(s) => /\ LoopAt(s, "spawn") => LoopAt(s, "test")'
                       /\ LoopAt(s, "test") => LoopAt(s, "load")'
                       /\ LoopAt(s, "load") => LoopAt(s, "enter")'
  BY <1>1, LoopMoves
<1>4. LoopGoesOn(s) /\ LoopAt(s, "enter") => LoopAt(s, "accept")'
  BY <1>1 DEF LoopGoesOn, AcceptLoop, LoopTest, LoadSocket, EnterAccept, Accept, AcceptFails,
     SpawnClientThread, Loop, LiveInv, CalmInv, TypeOK
<1>5. LoopGoesOn(s) /\ LoopAt(s, "accept") => \E b \in Connections : Takes(s, b)
  BY <1>1 DEF LoopGoesOn, AcceptLoop, LoopTest, LoadSocket, EnterAccept, AcceptFails,
     SpawnClientThread, Takes, FreeDescriptor
<1>6. QED
  BY <1>1, <1>2, <1>3, <1>4, <1>5

LEMMA NobodyWaitsForGood ==
    ASSUME NEW c \in Connections, NEW s \in Servers
    PROVE  [][CalmNext]_vars /\ []LiveInv /\ []GuardsEnabled /\ ServerScheduled(s)
              /\ FinitelyManyTaken => WaitEnds(c, s)
<1> DEFINE Ready == WaitsFor(c, s) /\ StartAt(s, "done")
           TakesSome == ~ (\A b \in Connections : ~ Takes(s, b))
<1>1. [][CalmNext]_vars /\ []LiveInv => \A b \in Connections : NoLongerTakes(s, b)
  BY TakenOnce
<1>2. [][CalmNext]_vars /\ []LiveInv /\ FinitelyManyTaken => <>[][~ TakesSome]_vars
  <2>1. [][CalmNext]_vars /\ []LiveInv /\ FinitelyManyTaken => TakesNoMore(s)
    BY <1>1 DEF FinitelyManyTaken
  <2>2. QED
    BY <2>1, PTL DEF TakesNoMore
<1>3. LiveInv /\ Ready =>
         /\ CanLoop(s)
         /\ \/ LoopAt(s, "test") \/ LoopAt(s, "load") \/ LoopAt(s, "enter")
            \/ LoopAt(s, "accept") \/ LoopAt(s, "spawn")
  BY LoopMovesUp
<1>4. LiveInv /\ Ready /\ LoopGoesOn(s) =>
         /\ LoopAt(s, "spawn") => LoopAt(s, "test")'
         /\ LoopAt(s, "test") => LoopAt(s, "load")'
         /\ LoopAt(s, "load") => LoopAt(s, "enter")'
         /\ LoopAt(s, "enter") => LoopAt(s, "accept")'
         /\ LoopAt(s, "accept") => TakesSome
  BY LoopMovesUp
<1>5. LiveInv /\ Ready /\ [CalmNext]_vars =>
         \/ <<LoopGoesOn(s)>>_vars
         \/ /\ LoopAt(s, "spawn") => LoopAt(s, "spawn")'
            /\ LoopAt(s, "test") => LoopAt(s, "test")'
            /\ LoopAt(s, "load") => LoopAt(s, "load")'
            /\ LoopAt(s, "enter") => LoopAt(s, "enter")'
            /\ LoopAt(s, "accept") => LoopAt(s, "accept")'
  BY LoopOnlyMovesItself DEF StartAt, LoopAt, vars, loops
<1>6. GuardsEnabled /\ CanLoop(s) => ENABLED <<LoopGoesOn(s)>>_vars
  BY DEF GuardsEnabled
<1>7. [][CalmNext]_vars /\ []LiveInv /\ []GuardsEnabled /\ ServerScheduled(s)
      /\ <>[]WaitsFor(c, s) => <>[]StartAt(s, "done")
  BY StartComesToItsEnd
<1> HIDE DEF TakesSome
<1>8. QED
  BY <1>2, <1>3, <1>4, <1>5, <1>6, <1>7, PTL DEF ServerScheduled, WaitEnds

(* A connection that waits waits for one server. *)
LEMMA WaitsForOne ==
    ASSUME NEW c \in Connections, NEW s \in Servers, LiveInv, WaitsFor(c, s), Waits(c)',
           [CalmNext]_vars
    PROVE  WaitsFor(c, s)'
<1> USE DEF WaitsFor, Waits, LiveInv, CalmInv, TypeOK, clients
<1>1. ASSUME NEW r \in Servers, Start(r)
      PROVE  UNCHANGED server[c]
  BY <1>1 DEF Start, OpenSocket, OpenFails, SetRunning, CreateAcceptThread,
     AssignAcceptThread
<1>2. ASSUME NEW r \in Servers, AcceptLoop(r)
      PROVE  UNCHANGED server[c]
  BY <1>2 DEF AcceptLoop, LoopTest, LoadSocket, EnterAccept, Accept, AcceptFails,
     SpawnClientThread, ConnectionInv, Spawning
<1>3. ASSUME NEW b \in Connections, ClientStep(b)
      PROVE  UNCHANGED server[c]
  BY <1>3 DEF ClientStep, Serve, Connect, Receive, ReceiveEnd, ServeMarket, Logged,
     TestRunning, Leave, ServeHttp, ServeWebSocket, ToClientStage, CloseClient
<1>4. Unwind \/ Signal \/ Ending => UNCHANGED server
  BY DEF Unwind, Signal, Ending, StopTest, Shutdown, CloseSocket, Join, Destroy
<1>5. UNCHANGED vars => UNCHANGED server
  BY DEF vars
<1>6. UNCHANGED server[c]
  BY <1>1, <1>2, <1>3, <1>4, <1>5, Zenon DEF CalmNext, Step, ClientStep
<1>7. QED
  BY <1>6

(* Every connection in a backlog is taken, unless the process is told to stop
   or descriptors run out first: the accept loop comes back to accept, and
   there takes one of finitely many, each once. *)
THEOREM BacklogTaken ==
    CalmSpec /\ []GuardsEnabled /\ FinitelyManyTaken => ConnectionsTaken
<1>1. ASSUME NEW c \in Connections
      PROVE  CalmSpec /\ []GuardsEnabled /\ FinitelyManyTaken
                => (pc[c] = "queued" ~> \/ pc[c] # "queued"
                                        \/ Signalled
                                        \/ \A d \in Descriptors : open[d] # None)
  <2>1. LiveInv /\ Waits(c) => WaitsFor(c, "market") \/ WaitsFor(c, "web")
    BY DEF LiveInv, CalmInv, TypeOK, Waits, WaitsFor, Servers
  <2>2. LiveInv /\ WaitsFor(c, "market") /\ Waits(c)' /\ [CalmNext]_vars
           => WaitsFor(c, "market")'
    BY WaitsForOne DEF Servers
  <2>3. LiveInv /\ WaitsFor(c, "web") /\ Waits(c)' /\ [CalmNext]_vars => WaitsFor(c, "web")'
    BY WaitsForOne DEF Servers
  <2>4. [][CalmNext]_vars /\ []LiveInv /\ []GuardsEnabled /\ FinitelyManyTaken
        /\ ServerScheduled("market") /\ ServerScheduled("web")
           => WaitEnds(c, "market") /\ WaitEnds(c, "web")
    BY NobodyWaitsForGood DEF Servers
  <2>5. Fairness => ServerScheduled("market") /\ ServerScheduled("web")
    BY DEF Fairness, Servers
  <2> DEFINE Queued == pc[c] = "queued"
             Taken == \/ pc[c] # "queued"
                      \/ Signalled
                      \/ \A d \in Descriptors : open[d] # None
  <2>6. ~ Taken => Waits(c)
    BY DEF Waits, FreeDescriptor
  <2>7. CalmSpec /\ []GuardsEnabled /\ FinitelyManyTaken => ~ <>[]Waits(c)
    BY <2>1, <2>2, <2>3, <2>4, <2>5, LiveAlways, PTL DEF CalmSpec, WaitEnds
  <2> HIDE DEF Queued, Taken
  <2>8. CalmSpec /\ []GuardsEnabled /\ FinitelyManyTaken => (Queued ~> Taken)
    BY <2>6, <2>7, PTL
  <2>9. QED
    BY <2>8 DEF Queued, Taken
<1>2. QED
  BY <1>1 DEF ConnectionsTaken
=============================================================================
