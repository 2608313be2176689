-------------------------- MODULE OrderLoggerProofs --------------------------
(***************************************************************************)
(* No stored trade refers to an order that was lost, for any number of     *)
(* threads, orders and runs of the process.  The invariant says of a run   *)
(* whose connection is up that nothing in memory refers to a lost order;   *)
(* once the connection is down this need not hold any more, but then       *)
(* nothing is stored.  Of connMutex_ it needs that the connection does not *)
(* break under a thread that waits for an answer.                          *)
(***************************************************************************)
EXTENDS OrderLogger, SequenceTheorems, TLAPS

Known == orderRows \cup refused

NothingLeft ==
    /\ connection = "none"
    /\ resting = {}
    /\ pc = NoThreads /\ order = NoOrders /\ trades = NoTrades

LoggerInv ==
    /\ TypeOK
    /\ ~ running => NothingLeft
    /\ \A t \in Threads :
          /\ pc[t] # "idle" => order[t] # None
          /\ pc[t] \in {"orderSent", "tradeSent"} =>
                connMutex = t /\ connection = "ok"
          /\ pc[t] = "tradeSent" => trades[t] # << >>
    /\ connection = "ok" =>
          /\ resting \subseteq Known
          /\ \A t \in Threads :
                /\ pc[t] \in {"match", "logTrade", "tradeSent"} => order[t] \in Known
                /\ \A i \in 1 .. Len(trades[t]) : trades[t][i].parties \subseteq Known
    /\ TradesReferToLoggedOrders

----------------------------------------------------------------------------
USE LoggerAssumption

(* What is left of a thread's trades after the first. *)
LEMMA TailOfTrades ==
    ASSUME NEW s \in Seq(TradeValues), s # << >>
    PROVE  /\ Head(s) \in TradeValues /\ Head(s) = s[1] /\ 1 \in 1 .. Len(s)
           /\ Tail(s) \in Seq(TradeValues)
           /\ \A i \in 1 .. Len(Tail(s)) :
                 i + 1 \in 1 .. Len(s) /\ Tail(s)[i] = s[i + 1]
BY HeadTailProperties, EmptySeq, LenProperties

LEMMA NothingLeftTypes ==
    /\ NoThreads \in [Threads -> Stages]
    /\ NoOrders \in [Threads -> Orders \cup {None}]
    /\ NoTrades \in [Threads -> Seq(TradeValues)]
<1>1. << >> \in Seq(TradeValues)
  BY EmptySeq
<1>2. QED
  BY <1>1 DEF NoThreads, NoOrders, NoTrades, Stages

LEMMA LoggerInitially == Init => LoggerInv
<1> SUFFICES ASSUME Init PROVE LoggerInv
  OBVIOUS
<1>1. DOMAIN tradeRows = {} /\ tradeRows \in [DOMAIN tradeRows -> SUBSET Orders]
  BY DEF Init
<1>2. TypeOK
  <2>1. /\ tables \subseteq {"orders", "trades"} /\ orderRows \subseteq Orders
        /\ running \in BOOLEAN /\ connection \in {"none", "ok", "bad"}
        /\ connMutex \in Threads \cup {None}
        /\ resting \subseteq Orders
        /\ used \subseteq Orders /\ refused \subseteq Orders
        /\ returned \subseteq TradeValues
    BY Zenon DEF Init
  <2>2. tradeIdCounter \in Nat /\ runs \in 0 .. MaxRuns
    <3>1. tradeIdCounter = 0 /\ runs = 0
      BY DEF Init
    <3>2. QED
      BY <3>1
  <2>3. pc = NoThreads /\ order = NoOrders /\ trades = NoTrades
    BY DEF Init
  <2>4. QED
    BY <1>1, <2>1, <2>2, <2>3, NothingLeftTypes DEF TypeOK
<1>3. NothingLeft /\ connection # "ok" /\ \A t \in Threads : pc[t] = "idle"
  BY DEF Init, NothingLeft, NoThreads
<1>4. QED
  BY <1>1, <1>2, <1>3 DEF LoggerInv, TradesReferToLoggedOrders

(* One step per action. *)
LEMMA LoggerStep == LoggerInv /\ [Next]_vars => LoggerInv'
<1> SUFFICES ASSUME LoggerInv, [Next]_vars PROVE LoggerInv'
  OBVIOUS
<1> USE DEF LoggerInv, TradesReferToLoggedOrders, Known
<1>1. CASE Initialize
  <2>1. TypeOK'
    BY <1>1 DEF Initialize, TypeOK, local
  <2>2. QED
    BY <1>1, <2>1 DEF Initialize, NothingLeft, local, NoThreads, NoOrders, NoTrades
<1>2. ASSUME NEW t \in Threads, NEW o \in Orders, SubmitOrder(t, o)
      PROVE  LoggerInv'
  <2>1. TypeOK'
    BY <1>2 DEF SubmitOrder, TypeOK, Stages, database, process
  <2>2. QED
    BY <1>2, <2>1 DEF SubmitOrder, TypeOK, database, process
<1>3. ASSUME NEW t \in Threads, LogOrder(t) PROVE LoggerInv'
  <2>1. TypeOK'
    BY <1>3 DEF LogOrder, Send, TypeOK, Stages, database
  <2>2. QED
    BY <1>3, <2>1 DEF LogOrder, Send, TypeOK, NothingLeft, NoThreads, database
<1>4. ASSUME NEW t \in Threads, OrderAnswered(t) PROVE LoggerInv'
  <2>1. order[t] \in Orders
    BY <1>4 DEF OrderAnswered, TypeOK
  <2>2. TypeOK'
    BY <1>4, <2>1 DEF OrderAnswered, StoreOrder, Unlock, TypeOK, Stages
  <2>3. connection' = "ok" => order[t] \in Known'
    BY <1>4 DEF OrderAnswered, StoreOrder
  <2>4. Known \subseteq Known'
    BY <1>4 DEF OrderAnswered, StoreOrder
  <2>5. running' = running /\ (~ running => FALSE)
    BY <1>4 DEF OrderAnswered, NothingLeft
  <2>6. \A u \in Threads : pc'[u] \in {"orderSent", "tradeSent"} => FALSE
    BY <1>4 DEF OrderAnswered, TypeOK
  <2>7. QED
    BY <1>4, <2>2, <2>3, <2>4, <2>5, <2>6 DEF OrderAnswered, StoreOrder, TypeOK
<1>5. ASSUME NEW t \in Threads, Match(t) PROVE LoggerInv'
  <2>1. PICK n \in 0 .. MaxTrades : \E met \in [1 .. n -> resting] :
          /\ trades' = [trades EXCEPT ![t] =
                [i \in 1 .. n |-> [id |-> tradeIdCounter + i - 1,
                                   parties |-> {order[t], met[i]}]]]
          /\ tradeIdCounter' = tradeIdCounter + n
          /\ resting' \subseteq resting \cup {order[t]}
    BY <1>5 DEF Match
  <2>2. PICK met \in [1 .. n -> resting] :
          /\ trades' = [trades EXCEPT ![t] =
                [i \in 1 .. n |-> [id |-> tradeIdCounter + i - 1,
                                   parties |-> {order[t], met[i]}]]]
          /\ tradeIdCounter' = tradeIdCounter + n
          /\ resting' \subseteq resting \cup {order[t]}
    BY <2>1
  <2> DEFINE new == [i \in 1 .. n |-> [id |-> tradeIdCounter + i - 1,
                                       parties |-> {order[t], met[i]}]]
  <2>3. order[t] \in Orders /\ resting \subseteq Orders /\ n \in Nat
        /\ tradeIdCounter \in Nat
    BY <1>5 DEF Match, TypeOK
  <2>4. new \in Seq(TradeValues) /\ Len(new) = n
    <3>1. new \in [1 .. n -> TradeValues]
      BY <2>3 DEF TradeValues
    <3> HIDE DEF new
    <3>2. QED
      BY <2>3, <3>1
  <2>5. /\ trades' \in [Threads -> Seq(TradeValues)]
        /\ trades'[t] = new
        /\ \A u \in Threads : u # t => trades'[u] = trades[u]
    BY <2>2, <2>4 DEF TypeOK
  <2>6. TypeOK'
    BY <1>5, <2>2, <2>3, <2>5 DEF Match, TypeOK, Stages, database
  <2>7. connection = "ok" => \A i \in 1 .. n : new[i].parties \subseteq Known
    BY <1>5 DEF Match
  <2>8. Known' = Known /\ connection' = connection /\ running' = running
        /\ running /\ connMutex' = connMutex /\ order' = order
        /\ tradeRows' = tradeRows
    BY <1>5 DEF Match, database, NothingLeft, NoThreads
  <2>9. /\ pc[t] = "match" /\ pc'[t] = "logTrade"
        /\ \A u \in Threads : u # t => pc'[u] = pc[u]
    BY <1>5 DEF Match, TypeOK
  <2> HIDE DEF new
  <2>10. \A u \in Threads :
          /\ pc'[u] # "idle" => order'[u] # None
          /\ pc'[u] \in {"orderSent", "tradeSent"} =>
                connMutex' = u /\ connection' = "ok"
          /\ pc'[u] = "tradeSent" => trades'[u] # << >>
    BY <2>5, <2>8, <2>9
  <2>11. connection' = "ok" =>
          /\ resting' \subseteq Known'
          /\ \A u \in Threads :
                /\ pc'[u] \in {"match", "logTrade", "tradeSent"} => order'[u] \in Known'
                /\ \A i \in 1 .. Len(trades'[u]) : trades'[u][i].parties \subseteq Known'
    BY <2>2, <2>4, <2>5, <2>7, <2>8, <2>9
  <2>12. TradesReferToLoggedOrders'
    BY <2>8
  <2>13. QED
    BY <2>6, <2>8, <2>10, <2>11, <2>12
<1>6. ASSUME NEW t \in Threads, LogTrade(t) PROVE LoggerInv'
  <2>1. /\ trades[t] \in Seq(TradeValues) /\ trades[t] # << >>
        /\ Tail(trades[t]) \in Seq(TradeValues)
    BY <1>6, TailOfTrades DEF LogTrade, TypeOK
  <2>2. TypeOK'
    BY <1>6, <2>1 DEF LogTrade, Send, TypeOK, Stages, database
  <2>3. CASE connection = "ok"
    BY <1>6, <2>2, <2>3 DEF LogTrade, Send, TypeOK, NothingLeft, NoThreads, database
  <2>4. CASE connection # "ok"
    BY <1>6, <2>2, <2>4 DEF LogTrade, Send, TypeOK, NothingLeft, NoThreads, database
  <2>5. QED
    BY <2>3, <2>4
<1>7. ASSUME NEW t \in Threads, TradeAnswered(t) PROVE LoggerInv'
  <2> DEFINE trade == Head(trades[t])
  <2>1. /\ trades[t] \in Seq(TradeValues) /\ trades[t] # << >>
        /\ connMutex = t /\ connection = "ok" /\ running
    BY <1>7 DEF TradeAnswered, TypeOK, NothingLeft
  <2>2. /\ trade \in TradeValues /\ trade.parties \subseteq Known
        /\ Tail(trades[t]) \in Seq(TradeValues)
        /\ \A i \in 1 .. Len(Tail(trades[t])) :
              Tail(trades[t])[i].parties \subseteq Known
    BY <2>1, TailOfTrades
  <2>3. trade.id \in Nat /\ trade.parties \in SUBSET Orders
    BY <2>2 DEF TradeValues
  <2>4. tradeRows' = tradeRows \/ StoreTrade(trade)
    BY <1>7 DEF TradeAnswered
  <2> HIDE DEF trade
  <2>5. /\ DOMAIN tradeRows' \subseteq Nat
        /\ tradeRows' \in [DOMAIN tradeRows' -> SUBSET Orders]
        /\ \A id \in DOMAIN tradeRows' : tradeRows'[id] \subseteq Known
    BY <2>2, <2>3, <2>4 DEF StoreTrade, TypeOK
  <2>6. /\ connection' \in {"ok", "bad"} /\ connMutex' = None
        /\ returned' \subseteq returned \cup {trade}
        /\ trades' = [trades EXCEPT ![t] = Tail(@)]
        /\ pc' = [pc EXCEPT ![t] = "logTrade"] /\ pc[t] = "tradeSent"
    BY <1>7, <2>1 DEF TradeAnswered, Unlock, trade
  <2>7. TypeOK'
    BY <1>7, <2>2, <2>5, <2>6 DEF TradeAnswered, TypeOK, Stages
  <2>8. Known' = Known /\ running' = running /\ order' = order
        /\ resting' = resting
    BY <1>7 DEF TradeAnswered
  <2>9. \A u \in Threads : pc'[u] \in {"orderSent", "tradeSent"} => FALSE
    BY <2>1, <2>6 DEF TypeOK
  <2>10. QED
    BY <2>1, <2>2, <2>5, <2>6, <2>7, <2>8, <2>9 DEF TypeOK
<1>8. ASSUME NEW t \in Threads, Return(t) PROVE LoggerInv'
  <2>1. TypeOK'
    BY <1>8 DEF Return, TypeOK, Stages, database, process
  <2>2. QED
    BY <1>8, <2>1 DEF Return, TypeOK, NothingLeft, NoThreads, database, process
<1>9. CASE Crash
  <2>1. /\ orderRows' = orderRows /\ tradeRows' = tradeRows
        \/ /\ \E t \in Threads : pc[t] = "orderSent" /\ StoreOrder(t)
           /\ tradeRows' = tradeRows
        \/ /\ \E t \in Threads : pc[t] = "tradeSent" /\ StoreTrade(Head(trades[t]))
           /\ orderRows' = orderRows
    BY <1>9 DEF Crash
  <2> DEFINE RowsOK ==
        /\ orderRows' \subseteq Orders
        /\ DOMAIN tradeRows' \subseteq Nat
        /\ tradeRows' \in [DOMAIN tradeRows' -> SUBSET Orders]
        /\ \A id \in DOMAIN tradeRows' : tradeRows'[id] \subseteq orderRows' \cup refused
  <2>2. RowsOK
    <3>1. CASE orderRows' = orderRows /\ tradeRows' = tradeRows
      BY <3>1 DEF TypeOK
    <3>2. ASSUME NEW t \in Threads, pc[t] = "orderSent", StoreOrder(t),
                 tradeRows' = tradeRows
          PROVE  RowsOK
      BY <3>2 DEF StoreOrder, TypeOK
    <3>3. ASSUME NEW t \in Threads, pc[t] = "tradeSent",
                 StoreTrade(Head(trades[t])), orderRows' = orderRows
          PROVE  RowsOK
      <4>1. trades[t] \in Seq(TradeValues) /\ trades[t] # << >> /\ connection = "ok"
        BY <3>3 DEF TypeOK
      <4>2. Head(trades[t]) \in TradeValues /\ Head(trades[t]).parties \subseteq Known
        BY <4>1, TailOfTrades
      <4>3. /\ Head(trades[t]).id \in Nat
            /\ Head(trades[t]).parties \in SUBSET Orders
        BY <4>2 DEF TradeValues
      <4>4. QED
        BY <3>3, <4>2, <4>3 DEF StoreTrade, TypeOK
    <3>4. QED
      BY <2>1, <3>1, <3>2, <3>3
  <2>3. TypeOK'
    BY <1>9, <2>2, NothingLeftTypes DEF Crash, TypeOK
  <2>4. QED
    BY <1>9, <2>2, <2>3 DEF Crash, NothingLeft, NoThreads, NoOrders, NoTrades
<1>10. CASE UNCHANGED vars
  BY <1>10 DEF vars, database, process, local, TypeOK, NothingLeft
<1>11. QED
  BY <1>1, <1>2, <1>3, <1>4, <1>5, <1>6, <1>7, <1>8, <1>9, <1>10
     DEF Next, Continue

LEMMA LoggerAlways == Spec => []LoggerInv
BY LoggerInitially, LoggerStep, PTL DEF Spec

(* The logger's variables have their types throughout. *)
THEOREM LoggerTypesCorrect == Spec => []TypeOK
<1>1. LoggerInv => TypeOK
  BY DEF LoggerInv
<1>2. QED
  BY <1>1, LoggerAlways, PTL

(* In the database, logOrder and logTrade leave no trade whose orders were
   lost, whatever fails and however often the server restarts. *)
THEOREM NoTradeOfLostOrders == Spec => []TradesReferToLoggedOrders
<1>1. LoggerInv => TradesReferToLoggedOrders
  BY DEF LoggerInv
<1>2. QED
  BY <1>1, LoggerAlways, PTL
=============================================================================
