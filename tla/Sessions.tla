------------------------------ MODULE Sessions ------------------------------
(***************************************************************************)
(* The connections of src/MarketServer.cpp: acceptConnections, one         *)
(* detached handleClient thread per connection, the map traderSockets_     *)
(* from trader ids to socket descriptors, and the notifications other      *)
(* threads send through it (onTradeExecuted, onSettlementComplete).        *)
(*                                                                         *)
(* A descriptor is a number the operating system gives out again once it   *)
(* is closed; a connection is what a descriptor refers to while it is      *)
(* open.  Which orders a client sends, and what comes of them, is          *)
(* MatchingEngine's matter: here any order may make the server notify any  *)
(* registered trader.                                                      *)
(*                                                                         *)
(* A send waits for room.  One made under socketsMutex_ keeps every other  *)
(* thread from the map as long as it waits: for ever, if its client does   *)
(* not read (module Notifications).  So taking the mutex for a             *)
(* notification and sending it are two steps, and nothing makes the second *)
(* one happen.                                                             *)
(***************************************************************************)
EXTENDS Naturals, FiniteSets

CONSTANTS
    Connections,   \* bound: the connections clients open in a behaviour
    Descriptors,   \* what the process may have open
    Traders,       \* the ids clients register with
    EmptyId,       \* the one of "REGISTER:" with nothing behind it
    None

ASSUME SessionsAssumption ==
    /\ None \notin Connections /\ None \notin Traders /\ None \notin Descriptors

VARIABLES
    pc,              \* connection -> where its handleClient is
    traderId,        \* connection -> handleClient's traderId
    descriptor,      \* connection -> its clientSocket
    open,            \* descriptor -> the connection it refers to
    hungUp,          \* connections whose client has closed its end
    traders,         \* the keys of traders_ and accounts_
    traderSockets,   \* trader -> descriptor: traderSockets_
    terminated,      \* SIGPIPE has killed the process
    delivered        \* history: notifications as [to, about], a connection
                     \* and the trader it was meant for

vars == <<pc, traderId, descriptor, open, hungUp, traders, traderSockets,
          terminated, delivered>>

(* "first": before the first recv.  "reply" and "record": registered, about
   to send REGISTERED, about to enter the socket in the map.  In the message
   loop: "serving" before recv, "processing" in processMessage, "notifying" in
   a callback that has socketsMutex_.  "unregister" and "close": behind it. *)
InLoop == {"serving", "processing", "notifying"}

Stages == {"none", "first", "reply", "record"} \cup InLoop
          \cup {"unregister", "close", "done"}

(* Nobody has socketsMutex_. *)
SocketsFree == \A c \in Connections : pc[c] # "notifying"

TypeOK ==
    /\ pc \in [Connections -> Stages]
    /\ traderId \in [Connections -> Traders \cup {None}]
    /\ descriptor \in [Connections -> Descriptors \cup {None}]
    /\ open \in [Descriptors -> Connections \cup {None}]
    /\ hungUp \subseteq Connections
    /\ traders \subseteq Traders
    /\ DOMAIN traderSockets \subseteq Traders
    /\ traderSockets \in [DOMAIN traderSockets -> Descriptors]
    /\ terminated \in BOOLEAN
    /\ delivered \subseteq [to : Connections, about : Traders]

Init ==
    /\ pc = [c \in Connections |-> "none"]
    /\ traderId = [c \in Connections |-> None]
    /\ descriptor = [c \in Connections |-> None]
    /\ open = [d \in Descriptors |-> None]
    /\ hungUp = {}
    /\ traders = {}
    /\ traderSockets = [t \in {} |-> 0]
    /\ terminated = FALSE
    /\ delivered = {}

----------------------------------------------------------------------------
(* A send on a connection.  One the client has closed takes it and drops it,
   or raises SIGPIPE, which nothing ignores or handles. *)
Send(c) ==
    \/ UNCHANGED terminated
    \/ c \in hungUp /\ terminated' = TRUE

(* Mutant: the thread is not given its socket. *)
AcceptUnset(c, d) ==
    /\ pc[c] = "none"
    /\ open[d] = None
    /\ pc' = [pc EXCEPT ![c] = "first"]
    /\ open' = [open EXCEPT ![d] = c]
    /\ UNCHANGED <<traderId, descriptor, hungUp, traders, traderSockets, terminated,
                   delivered>>

(* acceptConnections: accept, then a detached thread in handleClient. *)
Accept(c, d) ==
    /\ pc[c] = "none"
    /\ open[d] = None
    /\ pc' = [pc EXCEPT ![c] = "first"]
    /\ descriptor' = [descriptor EXCEPT ![c] = d]
    /\ open' = [open EXCEPT ![d] = c]
    /\ UNCHANGED <<traderId, hungUp, traders, traderSockets, terminated, delivered>>

(* The client closes its end; what it sent before can still be read. *)
HangUp(c) ==
    /\ pc[c] \notin {"none", "done"}
    /\ hungUp' = hungUp \cup {c}
    /\ UNCHANGED <<pc, traderId, descriptor, open, traders, traderSockets,
                   terminated, delivered>>

(* The first message is REGISTER: trader and account are made if they do not
   exist, under tradersMutex_. *)
Register(c, id) ==
    /\ pc[c] = "first"
    /\ pc' = [pc EXCEPT ![c] = "reply"]
    /\ traderId' = [traderId EXCEPT ![c] = id]
    /\ traders' = traders \cup {id}
    /\ UNCHANGED <<descriptor, open, hungUp, traderSockets, terminated, delivered>>

(* Mutant: the early return does not close the socket. *)
RefuseWithoutClose(c) ==
    /\ pc[c] = "first"
    /\ pc' = [pc EXCEPT ![c] = "done"]
    /\ UNCHANGED <<traderId, descriptor, open, hungUp, traders, traderSockets,
                   terminated, delivered>>

(* The first message is another one, or the client is gone: close. *)
Refuse(c) ==
    /\ pc[c] = "first"
    /\ pc' = [pc EXCEPT ![c] = "close"]
    /\ UNCHANGED <<traderId, descriptor, open, hungUp, traders, traderSockets,
                   terminated, delivered>>

(* send(REGISTERED), which has the whole of the socket's buffer. *)
Reply(c) ==
    /\ pc[c] = "reply"
    /\ pc' = [pc EXCEPT ![c] = "record"]
    /\ Send(c)
    /\ UNCHANGED <<traderId, descriptor, open, hungUp, traders, traderSockets,
                   delivered>>

(* traderSockets_[traderId] = clientSocket, under socketsMutex_: the socket of
   an earlier connection of the same trader is overwritten. *)
Record(c) ==
    /\ pc[c] = "record"
    /\ SocketsFree
    /\ pc' = [pc EXCEPT ![c] = "serving"]
    /\ traderSockets' = [t \in DOMAIN traderSockets \cup {traderId[c]} |->
          IF t = traderId[c] THEN descriptor[c] ELSE traderSockets[t]]
    /\ UNCHANGED <<traderId, descriptor, open, hungUp, traders, terminated,
                   delivered>>

(* recv returns a message, and processMessage begins. *)
ProcessMessage(c) ==
    /\ pc[c] = "serving"
    /\ pc' = [pc EXCEPT ![c] = "processing"]
    /\ UNCHANGED <<traderId, descriptor, open, hungUp, traders, traderSockets,
                   terminated, delivered>>

(* onTradeExecuted or onSettlementComplete, called as often as the order has
   trades: socketsMutex_ is taken. *)
LockSockets(c) ==
    /\ pc[c] = "processing"
    /\ SocketsFree
    /\ pc' = [pc EXCEPT ![c] = "notifying"]
    /\ UNCHANGED <<traderId, descriptor, open, hungUp, traders, traderSockets,
                   terminated, delivered>>

(* The trader is looked up, and whoever its recorded descriptor refers to is
   sent the notification; the mutex is given up. *)
NotifyTrader(c, id) ==
    /\ pc[c] = "notifying"
    /\ pc' = [pc EXCEPT ![c] = "processing"]
    /\ id \in traders
    /\ LET to == IF id \in DOMAIN traderSockets THEN open[traderSockets[id]] ELSE None IN
       IF to = None
       THEN UNCHANGED <<terminated, delivered>>
       ELSE Send(to) /\ delivered' = delivered \cup {[to |-> to, about |-> id]}
    /\ UNCHANGED <<traderId, descriptor, open, hungUp, traders, traderSockets>>

(* processMessage ends with the reply. *)
Answer(c) ==
    /\ pc[c] = "processing"
    /\ pc' = [pc EXCEPT ![c] = "serving"]
    /\ Send(c)
    /\ UNCHANGED <<traderId, descriptor, open, hungUp, traders, traderSockets,
                   delivered>>

(* Mutant: the trader's socket is not taken out of the map. *)
EndOfStreamStillRecorded(c) ==
    /\ pc[c] = "serving"
    /\ c \in hungUp
    /\ pc' = [pc EXCEPT ![c] = "close"]
    /\ UNCHANGED <<traderId, descriptor, open, hungUp, traders, traderSockets,
                   terminated, delivered>>

(* recv returns 0. *)
EndOfStream(c) ==
    /\ pc[c] = "serving"
    /\ c \in hungUp
    /\ pc' = [pc EXCEPT ![c] = "unregister"]
    /\ UNCHANGED <<traderId, descriptor, open, hungUp, traders, traderSockets,
                   terminated, delivered>>

(* Mutant: the map is emptied. *)
UnregisterEverybody(c) ==
    /\ pc[c] = "unregister"
    /\ traderId[c] = EmptyId \/ SocketsFree
    /\ pc' = [pc EXCEPT ![c] = "close"]
    /\ traderSockets' = IF traderId[c] = EmptyId THEN traderSockets
                        ELSE [t \in {} |-> 0]
    /\ UNCHANGED <<traderId, descriptor, open, hungUp, traders, terminated,
                   delivered>>

(* traderSockets_.erase(traderId), under socketsMutex_, unless the id is
   empty: whatever socket is recorded for the trader. *)
Unregister(c) ==
    /\ pc[c] = "unregister"
    /\ traderId[c] = EmptyId \/ SocketsFree
    /\ pc' = [pc EXCEPT ![c] = "close"]
    /\ traderSockets' = IF traderId[c] = EmptyId THEN traderSockets
                        ELSE [t \in DOMAIN traderSockets \ {traderId[c]} |->
                                traderSockets[t]]
    /\ UNCHANGED <<traderId, descriptor, open, hungUp, traders, terminated,
                   delivered>>

Close(c) ==
    /\ pc[c] = "close"
    /\ pc' = [pc EXCEPT ![c] = "done"]
    /\ open' = [open EXCEPT ![descriptor[c]] = None]
    /\ UNCHANGED <<traderId, descriptor, hungUp, traders, traderSockets,
                   terminated, delivered>>

----------------------------------------------------------------------------
(* A step of the connection's thread that waits neither for its client nor for
   anybody else's, but it may be for socketsMutex_. *)
Handle(c) ==
    \/ c \in hungUp /\ Refuse(c)
    \/ Reply(c)
    \/ Record(c)
    \/ EndOfStream(c)
    \/ Unregister(c)
    \/ Close(c)

(* A message: nothing makes its steps happen. *)
HandleMessage(c) ==
    \/ ProcessMessage(c)
    \/ LockSockets(c)
    \/ \E id \in Traders : NotifyTrader(c, id)
    \/ Answer(c)

Next ==
    /\ ~ terminated
    /\ \E c \in Connections :
          \/ \E d \in Descriptors : Accept(c, d)
          \/ HangUp(c)
          \/ Refuse(c)
          \/ \E id \in Traders : Register(c, id)
          \/ HandleMessage(c)
          \/ Handle(c)

Spec == Init /\ [][Next]_vars

(* A thread whose next call does not block is scheduled, one that waits for
   socketsMutex_ gets it if it comes free often enough, and what a client sent
   before it went away has been read one day. *)
GoesOn(c) == ~ terminated /\ Handle(c)

Scheduled(c) == SF_vars(GoesOn(c))

Fairness == \A c \in Connections : Scheduled(c)

FairSpec == Spec /\ Fairness

----------------------------------------------------------------------------
(* Properties. *)

(* The socket recorded for a trader is open and the trader's own: a
   connection takes its entry out of the map before it closes its socket, so
   a descriptor given out again is never found under an old name.  Except for
   the empty name, whose entry is never taken out (MarketServer.cpp:201). *)
RecordedSocketIsOwn ==
    \A id \in DOMAIN traderSockets \ {EmptyId} :
        LET c == open[traderSockets[id]]
        IN  c # None /\ traderId[c] = id

(* What is sent to a trader reaches a connection that registered as that
   trader, and nobody else's, except for what is meant for the empty name. *)
NotificationsReachOwner ==
    \A n \in delivered : n.about # EmptyId => traderId[n.to] = n.about

(* A trader that has only ever had one connection is recorded with its socket
   from the record on and as long as the connection is served, and no longer
   once it has ended, whatever the other traders do meanwhile.  (With a second
   connection of the trader it is not: the end of the first erases the entry of
   the second; and a trade between REGISTERED and the record is not announced.) *)
SoleConnectionRecorded ==
    \A c \in Connections :
        (traderId[c] # None /\ \A x \in Connections \ {c} : traderId[x] # traderId[c]) =>
            /\ pc[c] \in InLoop =>
                  /\ traderId[c] \in DOMAIN traderSockets
                  /\ traderSockets[traderId[c]] = descriptor[c]
            /\ pc[c] \in {"close", "done"} /\ traderId[c] # EmptyId =>
                  traderId[c] \notin DOMAIN traderSockets

(* "Get number of connected traders" (MarketServer.h): when no handleClient
   is on its way into or out of the message loop, every trader with a live
   connection is counted and no other. *)
ConnectedTradersCounted ==
    (\A c \in Connections : \/ pc[c] \in {"none", "done"}
                            \/ pc[c] \in InLoop /\ c \notin hungUp) =>
        Cardinality(DOMAIN traderSockets) =
            Cardinality({ traderId[c] : c \in
                            { x \in Connections : pc[x] \in InLoop } })

(* When Handle can be done, said without ENABLED: what the proof of
   DescriptorReleased takes from TLC. *)
CanHandle(c) ==
    /\ ~ terminated
    /\ \/ pc[c] \in {"reply", "close"}
       \/ pc[c] \in {"record", "unregister"} /\ SocketsFree
       \/ c \in hungUp /\ pc[c] \in {"first", "serving"}

GuardsEnabled ==
    \A c \in Connections : CanHandle(c) => ENABLED <<GoesOn(c)>>_vars

(* What the thread of a connection waits for comes to be: no notification that
   has socketsMutex_ waits for ever for room, and its own calls, of the callbacks,
   of the logger and of send, return. *)
CallsReturn(c) ==
    /\ []<>(terminated \/ SocketsFree)
    /\ []<>(terminated \/ pc[c] \notin {"processing", "notifying"})

(* If they do, a client that goes away gets its descriptor released, unless the
   process dies first: its thread gets socketsMutex_, to record the socket and
   to take it out of the map, however often the others take it, and the other
   threads may wait for what they like without it.  (One client that does not
   read can keep the mutex from all: SlowClient.cfg.) *)
DescriptorReleased ==
    \A c \in Connections :
        CallsReturn(c) => (c \in hungUp ~> terminated \/ \A d \in Descriptors : open[d] # c)
=============================================================================
