----------------------------- MODULE OrderLogger -----------------------------
(***************************************************************************)
(* src/OrderLogger.cpp and the calls MarketServer makes to it: logOrder    *)
(* before an order is matched, logTrade in the trade callback.  The        *)
(* PostgreSQL database outlives the process; books, counters and the       *)
(* connection do not, so a behaviour is a number of runs of the process    *)
(* on one database.                                                        *)
(*                                                                         *)
(* The database is external: it stores a row, refuses it (a value that     *)
(* does not fit, a missing table, a key that exists) or the connection is  *)
(* lost before the answer is in, with or without the row being stored.     *)
(* Nothing ever connects again in the same run.                            *)
(*                                                                         *)
(* Matching is abstract: an incoming order trades with any of the orders   *)
(* in the books.  A row is its key and what the properties look at: the    *)
(* parties of a trade.                                                     *)
(***************************************************************************)
EXTENDS Naturals, Sequences, FiniteSets

CONSTANTS
    Threads,    \* client threads
    Orders,     \* bound: the order ids the clock gives out, each once
    None,
    MaxRuns,    \* bound: runs of the process
    MaxTrades   \* bound: trades of one order

ASSUME LoggerAssumption ==
    /\ None \notin Threads \cup Orders
    /\ MaxRuns \in Nat /\ MaxTrades \in Nat

VARIABLES
    \* The database.
    tables,           \* those that exist
    orderRows,        \* the ids in table orders
    tradeRows,        \* table trades: trade id -> the orders that traded
    \* The process.
    running,
    connection,       \* "none": conn_ is null; otherwise PQstatus(conn_)
    connMutex,        \* the thread that holds it, or None
    tradeIdCounter,
    resting,          \* the orders in the books
    pc,               \* thread -> where it is in submitOrder
    order,            \* thread -> the order it submits
    trades,           \* thread -> trades whose callback is due
    \* History.
    runs,             \* starts of the process
    used,             \* the order ids given out
    refused,          \* the orders whose row the database refused
    returned          \* the trades of this run whose logTrade has returned with
                      \* the connection up and not for a value refused

database == <<tables, orderRows, tradeRows>>
process == <<running, connection, connMutex, tradeIdCounter, resting>>
local == <<pc, order, trades>>
vars == <<database, process, local, runs, used, refused, returned>>

TradeValues ==
    [id : Nat, parties : SUBSET Orders]

(* "logOrder", "logTrade": a call is due.  "orderSent", "tradeSent": inside
   it, waiting for the database. *)
Stages == {"idle", "logOrder", "orderSent", "match", "logTrade", "tradeSent"}

TypeOK ==
    /\ tables \subseteq {"orders", "trades"}
    /\ orderRows \subseteq Orders
    /\ DOMAIN tradeRows \subseteq Nat
    /\ tradeRows \in [DOMAIN tradeRows -> SUBSET Orders]
    /\ running \in BOOLEAN
    /\ connection \in {"none", "ok", "bad"}
    /\ connMutex \in Threads \cup {None}
    /\ tradeIdCounter \in Nat
    /\ resting \subseteq Orders
    /\ pc \in [Threads -> Stages]
    /\ order \in [Threads -> Orders \cup {None}]
    /\ trades \in [Threads -> Seq(TradeValues)]
    /\ runs \in 0 .. MaxRuns
    /\ used \subseteq Orders /\ refused \subseteq Orders
    /\ returned \subseteq TradeValues

NoThreads == [t \in Threads |-> "idle"]
NoOrders == [t \in Threads |-> None]
NoTrades == [t \in Threads |-> << >>]

Init ==
    /\ tables = {} /\ orderRows = {} /\ tradeRows = << >>
    /\ running = FALSE /\ connection = "none" /\ connMutex = None
    /\ tradeIdCounter = 0 /\ resting = {}
    /\ pc = NoThreads /\ order = NoOrders /\ trades = NoTrades
    /\ runs = 0 /\ used = {} /\ refused = {} /\ returned = {}

----------------------------------------------------------------------------
(* The MarketServer constructor: initialize connects and creates the tables
   that do not exist, in this order, up to the first failure.  After a failed
   CREATE conn_ is kept, and used; the result is only warned about. *)
Initialize ==
    /\ ~ running /\ runs < MaxRuns
    /\ running' = TRUE
    /\ runs' = runs + 1
    /\ \/ connection' = "none" /\ UNCHANGED tables
       \/ /\ connection' \in {"ok", "bad"}
          /\ tables' \in {tables, tables \cup {"orders"}, {"orders", "trades"}}
    /\ UNCHANGED <<orderRows, tradeRows, connMutex, tradeIdCounter, resting,
                   local, used, refused, returned>>

(* Mutants: logOrder is not called, or is called with an order not set. *)
SubmitOrderUnlogged(t, o) ==
    /\ running
    /\ pc[t] = "idle"
    /\ o \notin used
    /\ used' = used \cup {o}
    /\ order' = [order EXCEPT ![t] = o]
    /\ pc' = [pc EXCEPT ![t] = "match"]
    /\ UNCHANGED <<database, process, trades, runs, refused, returned>>

SubmitOrderUnset(t, o) ==
    /\ running
    /\ pc[t] = "idle"
    /\ o \notin used
    /\ used' = used \cup {o}
    /\ pc' = [pc EXCEPT ![t] = "logOrder"]
    /\ UNCHANGED <<database, process, order, trades, runs, refused, returned>>

(* A client's order; its id is read from the clock. *)
SubmitOrder(t, o) ==
    /\ running
    /\ pc[t] = "idle"
    /\ o \notin used
    /\ used' = used \cup {o}
    /\ order' = [order EXCEPT ![t] = o]
    /\ pc' = [pc EXCEPT ![t] = "logOrder"]
    /\ UNCHANGED <<database, process, trades, runs, refused, returned>>

(* The first lines of logOrder and logTrade: under connMutex_, the query is
   sent, or the call returns false at once if there is no connection. *)
Send(t, due, sent, next) ==
    /\ pc[t] = due
    /\ connMutex = None
    /\ IF connection = "ok"
       THEN connMutex' = t /\ pc' = [pc EXCEPT ![t] = sent]
       ELSE UNCHANGED connMutex /\ pc' = [pc EXCEPT ![t] = next]

LogOrder(t) ==
    /\ Send(t, "logOrder", "orderSent", "match")
    /\ UNCHANGED <<database, running, connection, tradeIdCounter, resting,
                   order, trades, runs, used, refused, returned>>

(* INSERT INTO orders ... ON CONFLICT DO UPDATE. *)
StoreOrder(t) ==
    /\ "orders" \in tables
    /\ orderRows' = orderRows \cup {order[t]}

(* Mutant: some way out of the function keeps the mutex. *)
UnlockMaybe(t) == connMutex' \in {connMutex, None}

Unlock(t) == connMutex' = None

(* PQexecParams returns in logOrder, which releases connMutex_ however it
   goes.  The result is not looked at: the order is matched. *)
OrderAnswered(t) ==
    /\ pc[t] = "orderSent"
    /\ Unlock(t)
    /\ pc' = [pc EXCEPT ![t] = "match"]
    /\ \/ StoreOrder(t) /\ UNCHANGED <<connection, refused>>
       \/ /\ refused' = refused \cup {order[t]}
          /\ UNCHANGED <<orderRows, connection>>
       \/ /\ connection' = "bad"
          /\ StoreOrder(t) \/ UNCHANGED orderRows
          /\ UNCHANGED refused
    /\ UNCHANGED <<tables, tradeRows, running, tradeIdCounter, resting, order,
                   trades, runs, used, returned>>

(* MatchingEngine::submitOrder up to the callbacks.  The trades are numbered
   from tradeIdCounter_, in one step: that two threads may read the same number
   is MatchingEngine's matter (OverlapIds.cfg); the order and those it met may stay or be gone. *)
Match(t) ==
    /\ pc[t] = "match"
    /\ pc' = [pc EXCEPT ![t] = "logTrade"]
    /\ \E n \in 0 .. MaxTrades : \E met \in [1 .. n -> resting] :
         /\ \A i, j \in 1 .. n : i # j => met[i] # met[j]
         /\ trades' = [trades EXCEPT ![t] =
               [i \in 1 .. n |-> [id |-> tradeIdCounter + i - 1,
                                  parties |-> {order[t], met[i]}]]]
         /\ tradeIdCounter' = tradeIdCounter + n
         /\ \E gone \in SUBSET { met[i] : i \in 1 .. n } :
               resting' \in { resting \ gone, (resting \ gone) \cup {order[t]} }
    /\ UNCHANGED <<database, running, connection, connMutex, order, runs, used,
                   refused, returned>>

(* The trade callback: onTradeExecuted (Sessions), then logTrade. *)
LogTrade(t) ==
    /\ trades[t] # << >>
    /\ Send(t, "logTrade", "tradeSent", "logTrade")
    /\ trades' = IF connection = "ok" THEN trades
                 ELSE [trades EXCEPT ![t] = Tail(@)]
    /\ UNCHANGED <<database, running, connection, tradeIdCounter, resting,
                   order, runs, used, refused, returned>>

(* INSERT INTO trades: an existing trade_id is an error. *)
StoreTrade(trade) ==
    /\ "trades" \in tables
    /\ trade.id \notin DOMAIN tradeRows
    /\ tradeRows' = [id \in DOMAIN tradeRows \cup {trade.id} |->
          IF id = trade.id THEN trade.parties ELSE tradeRows[id]]

TradeExists(trade) ==
    trade.id \in DOMAIN tradeRows

TradeAnswered(t) ==
    LET trade == Head(trades[t]) IN
    /\ pc[t] = "tradeSent"
    /\ Unlock(t)
    /\ pc' = [pc EXCEPT ![t] = "logTrade"]
    /\ trades' = [trades EXCEPT ![t] = Tail(@)]
    /\ \/ /\ StoreTrade(trade)
          /\ returned' = returned \cup {trade}
          /\ UNCHANGED connection
       \/ /\ "trades" \in tables /\ TradeExists(trade)
          /\ returned' = returned \cup {trade}
          /\ UNCHANGED <<tradeRows, connection>>
       \/ UNCHANGED <<tradeRows, connection, returned>>
       \/ /\ connection' = "bad"
          /\ StoreTrade(trade) \/ UNCHANGED tradeRows
          /\ UNCHANGED returned
    /\ UNCHANGED <<tables, orderRows, running, tradeIdCounter, resting, order,
                   runs, used, refused>>

(* Every callback is done: submitOrder goes on to settlement. *)
Return(t) ==
    /\ pc[t] = "logTrade"
    /\ trades[t] = << >>
    /\ pc' = [pc EXCEPT ![t] = "idle"]
    /\ order' = [order EXCEPT ![t] = None]
    /\ UNCHANGED <<database, process, trades, runs, used, refused, returned>>

(* The process ends, by a crash or by a signal (whose handler calls exit).  A
   query the database has may still be carried out. *)
Crash ==
    /\ running
    /\ running' = FALSE
    /\ connection' = "none"
    /\ \/ UNCHANGED <<orderRows, tradeRows>>
       \/ /\ \E t \in Threads : pc[t] = "orderSent" /\ StoreOrder(t)
          /\ UNCHANGED tradeRows
       \/ /\ \E t \in Threads : pc[t] = "tradeSent" /\ StoreTrade(Head(trades[t]))
          /\ UNCHANGED orderRows
    /\ connMutex' = None /\ tradeIdCounter' = 0 /\ resting' = {}
    /\ pc' = NoThreads /\ order' = NoOrders /\ trades' = NoTrades
    /\ returned' = {}
    /\ UNCHANGED <<tables, runs, used, refused>>

----------------------------------------------------------------------------
Continue(t) ==
    \/ LogOrder(t)
    \/ OrderAnswered(t)
    \/ Match(t)
    \/ LogTrade(t)
    \/ TradeAnswered(t)
    \/ Return(t)

Next ==
    \/ Initialize
    \/ \E t \in Threads : Continue(t) \/ \E o \in Orders : SubmitOrder(t, o)
    \/ Crash

Spec == Init /\ [][Next]_vars

(* What a thread does without waiting for the database. *)
Run(t) == LogOrder(t) \/ Match(t) \/ LogTrade(t) \/ Return(t)

(* Threads go on, and get connMutex_ sooner or later. *)
ThreadsRun == Spec /\ \A t \in Threads : SF_vars(Run(t))

(* And the database answers, or the connection is lost. *)
DatabaseAnswers ==
    ThreadsRun /\ \A t \in Threads : WF_vars(OrderAnswered(t) \/ TradeAnswered(t))

----------------------------------------------------------------------------
(* Properties. *)

(* A stored trade never refers to an order the database has never heard of:
   whatever is lost, and whenever the process ends, the orders of a trade row
   have rows of their own unless the database refused them.  It takes that
   an order is logged before it can be matched, that the log is never
   resumed after a gap, and that the books do not outlive the connection. *)
TradesReferToLoggedOrders ==
    \A id \in DOMAIN tradeRows : tradeRows[id] \subseteq orderRows \cup refused

(* "All orders and trades logged to database" (README.md): a trade whose
   logTrade has returned, the connection being up and the database having
   nothing against its values, is in the table. *)
TradesLogged ==
    \A trade \in returned :
        trade.id \in DOMAIN tradeRows /\ tradeRows[trade.id] = trade.parties

(* With a database that answers, and until the process ends, every order gets
   through the logger to its settlement, whatever is refused or lost: no way
   out of logOrder or logTrade keeps connMutex_. *)
EveryOrderReturns == \A t \in Threads : pc[t] # "idle" ~> pc[t] = "idle"

(* "All database operations are non-blocking (logging happens
   asynchronously)" (DATABASE.md): an order is matched whether the database
   answers or not. *)
MatchedWithoutAnswer ==
    \A t \in Threads : pc[t] = "logOrder" ~> pc[t] \notin {"logOrder", "orderSent"}
=============================================================================
