--------------------------- MODULE Notifications ----------------------------
(***************************************************************************)
(* The sends of src/MarketServer.cpp: the notifications of onTradeExecuted *)
(* and onSettlementComplete, under socketsMutex_, and the replies.  The    *)
(* sockets block: a send to a client that does not read waits, once the    *)
(* buffers between the two are full, with whatever the thread holds.       *)
(*                                                                         *)
(* There is a thread per client; which orders meet is MatchingEngine's     *)
(* matter, and whose socket is recorded that of Sessions: here an order    *)
(* makes one trade with any client, or none, and everybody is recorded.    *)
(***************************************************************************)
EXTENDS Naturals, Sequences

CONSTANTS
    Clients,
    Readers,    \* those that read whenever there is something to read
    Capacity,   \* messages the buffers to a client hold
    MaxOrders,  \* bound: orders sent
    None

ASSUME NotificationsAssumption ==
    /\ None \notin Clients /\ Readers \subseteq Clients
    /\ Capacity \in Nat \ {0} /\ MaxOrders \in Nat

VARIABLES
    pc,        \* client -> where its thread is
    due,       \* client -> whom its thread has yet to notify, in this order
    mutex,     \* the client whose thread holds socketsMutex_, or None
    unread,    \* client -> messages sent to it that it has not read
    orders     \* orders sent so far

vars == <<pc, due, mutex, unread, orders>>

Stages == {"record", "recv", "match", "notify", "send", "answer"}

TypeOK ==
    /\ pc \in [Clients -> Stages]
    /\ due \in [Clients -> Seq(Clients)]
    /\ mutex \in Clients \cup {None}
    /\ \A c \in Clients : mutex = c <=> pc[c] = "send"
    /\ \A c \in Clients : pc[c] = "send" => due[c] # << >>
    /\ unread \in [Clients -> 0 .. Capacity]
    /\ orders \in 0 .. MaxOrders

(* Every client is connected, and has been sent its REGISTERED. *)
Init ==
    /\ pc = [c \in Clients |-> "record"]
    /\ due = [c \in Clients |-> << >>]
    /\ mutex = None
    /\ unread = [c \in Clients |-> 0]
    /\ orders = 0

Goto(c, stage) == pc' = [pc EXCEPT ![c] = stage]

----------------------------------------------------------------------------
(* traderSockets_[traderId] = clientSocket, in handleClient. *)
Record(c) ==
    /\ pc[c] = "record"
    /\ mutex = None
    /\ Goto(c, "recv")
    /\ UNCHANGED <<due, mutex, unread, orders>>

(* The client sends an order, and its thread gets it. *)
ReceiveOrder(c) ==
    /\ pc[c] = "recv"
    /\ orders < MaxOrders
    /\ orders' = orders + 1
    /\ Goto(c, "match")
    /\ UNCHANGED <<due, mutex, unread>>

(* Whom a trade is notified to: buyer and seller when it is executed, and
   again if it is settled. *)
Notified(buyer, seller) == {<<buyer, seller>>, <<buyer, seller, buyer, seller>>}

(* The order trades with one of another client, or of its own, or rests. *)
Match(c) ==
    /\ pc[c] = "match"
    /\ \/ Goto(c, "answer") /\ UNCHANGED due
       \/ /\ \E other \in Clients :
                \E told \in Notified(c, other) \cup Notified(other, c) :
                    due' = [due EXCEPT ![c] = told]
          /\ Goto(c, "notify")
    /\ UNCHANGED <<mutex, unread, orders>>

LockSockets(c) ==
    /\ pc[c] = "notify"
    /\ mutex = None
    /\ mutex' = c
    /\ Goto(c, "send")
    /\ UNCHANGED <<due, unread, orders>>

(* send blocks while there is no room. *)
Send(to) ==
    /\ unread[to] < Capacity
    /\ unread' = [unread EXCEPT ![to] = @ + 1]

(* Mutant: the seller is notified in the scope of the buyer's lock_guard. *)
SendNoticeNested(c) ==
    /\ pc[c] = "send"
    /\ Send(Head(due[c]))
    /\ due' = [due EXCEPT ![c] = Tail(@)]
    /\ mutex' = IF Len(due[c]) = 1 THEN None ELSE mutex
    /\ Goto(c, IF Len(due[c]) = 1 THEN "answer" ELSE "notify")
    /\ UNCHANGED orders

(* The lock is given up after every notification. *)
SendNotice(c) ==
    /\ pc[c] = "send"
    /\ Send(Head(due[c]))
    /\ due' = [due EXCEPT ![c] = Tail(@)]
    /\ mutex' = None
    /\ Goto(c, IF Len(due[c]) = 1 THEN "answer" ELSE "notify")
    /\ UNCHANGED orders

(* ORDER_ACCEPTED, sent with no lock held. *)
Answer(c) ==
    /\ pc[c] = "answer"
    /\ Send(c)
    /\ Goto(c, "recv")
    /\ UNCHANGED <<due, mutex, orders>>

(* The client reads what is there. *)
Read(c) ==
    /\ unread[c] > 0
    /\ unread' = [unread EXCEPT ![c] = 0]
    /\ UNCHANGED <<pc, due, mutex, orders>>

----------------------------------------------------------------------------
Continue(c) ==
    \/ Record(c)
    \/ Match(c)
    \/ LockSockets(c)
    \/ SendNotice(c)
    \/ Answer(c)

Next == \E c \in Clients : ReceiveOrder(c) \/ Continue(c) \/ Read(c)

(* A thread that waits for the mutex, or for room, which others take as well,
   gets it when it is there often enough.  Clients need not send. *)
Served(c) == SF_vars(Continue(c))

Reads(c) == WF_vars(Read(c))

Fairness ==
    /\ \A c \in Clients : Served(c)
    /\ \A c \in Readers : Reads(c)

Spec == Init /\ [][Next]_vars /\ Fairness
----------------------------------------------------------------------------
(* Properties. *)

(* When threads and clients can go on, said without ENABLED: what the proof of
   the liveness property takes from TLC. *)
Room(c) == unread[c] < Capacity

CanContinue(c) ==
    \/ pc[c] \in {"record", "notify"} /\ mutex = None
    \/ pc[c] = "match"
    \/ pc[c] = "send" /\ Room(Head(due[c]))
    \/ pc[c] = "answer" /\ Room(c)

GuardsEnabled ==
    \A c \in Clients :
        /\ CanContinue(c) => ENABLED <<Continue(c)>>_vars
        /\ unread[c] > 0 => ENABLED <<Read(c)>>_vars

(* "Concurrent trader connections" (README.md): a client that reads what it is
   sent has each of its orders answered, whoever else it trades with. *)
ReadersAnswered == \A c \in Readers : pc[c] # "recv" ~> pc[c] = "recv"
=============================================================================
