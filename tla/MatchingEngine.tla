--------------------------- MODULE MatchingEngine ---------------------------
(***************************************************************************)
(* src/MatchingEngine.cpp on the books of src/OrderBook.cpp.  One engine   *)
(* object serves every client thread of the server, and each thread calls  *)
(* submitOrder on the book of its order's symbol.  A step is one iteration *)
(* of the matching loop cut in two (the part before the trade id counter   *)
(* is stored, and the part from there on), the tail of submitOrder, or one *)
(* call of the trade callback.                                             *)
(*                                                                         *)
(* The code takes no lock in here.  Spec lets the threads overlap freely;  *)
(* SerialSpec lets two orders overlap only when their symbols differ,      *)
(* which is the discipline the class relies on and the server does not     *)
(* enforce.  matchBuyOrder and matchSellOrder are each other's mirror      *)
(* image, so one definition, parameterised by the side, models both.       *)
(*                                                                         *)
(* Quantities and prices are integers: the double arithmetic is exact on   *)
(* them.  An order's trader plays no part in matching and is left out; an  *)
(* order's id is its place in the arrival order (the code derives it from  *)
(* the clock).                                                             *)
(***************************************************************************)
EXTENDS OrderBook

CONSTANTS
    Threads,      \* client threads that call submitOrder
    Symbols,
    Prices,       \* limit prices clients send
    Quantities,   \* quantities clients send, zero and negative ones included
    MaxOrders     \* bound: orders submitted in a behaviour

ASSUME ConstantsAssumption ==
    /\ Prices \subseteq Int
    /\ Quantities \subseteq Int
    /\ MaxOrders \in Nat

VARIABLES
    books,            \* symbol -> OrderBook
    tradeIdCounter,   \* MatchingEngine::tradeIdCounter_
    pc,               \* thread -> where it is in submitOrder
    order,            \* thread -> the Order it was called with, as it is now
    candidates,       \* thread -> the rest of the snapshot the loop runs over
    pointer,          \* thread -> address getOrder returned for the candidate
    loadedId,         \* thread -> value of tradeIdCounter_ it has read
    trades,           \* thread -> trades made and not yet announced
    \* History, read by no action's guard and by no other variable:
    submitted,        \* the orders as they came in; an order's id is its index
    traded,           \* order id -> quantity of it traded so far
    tape,             \* every trade, in the order they were made
    announced         \* every trade, in the order tradeCallback_ got them

shared == <<books, tradeIdCounter>>
local == <<pc, order, candidates, pointer, loadedId, trades>>
history == <<submitted, traded, tape, announced>>
vars == <<shared, local, history>>

----------------------------------------------------------------------------
(* The values the variables take. *)

(* Orders as parseOrderMessage builds them.  A market order's price is never
   read.  An order whose numbers do not parse is REJECTED with quantity 0, and
   the engine does with it what it does with any order of quantity 0. *)
NewOrders(id) ==
    [id : {id}, symbol : Symbols, side : Sides, type : {"LIMIT"},
     price : Prices, quantity : Quantities, filledQuantity : {0},
     status : {"PENDING"}]
    \cup
    [id : {id}, symbol : Symbols, side : Sides, type : {"MARKET"},
     price : {0}, quantity : Quantities, filledQuantity : {0},
     status : {"PENDING"}]

OrderIds == 1 .. MaxOrders

(* A local that is out of scope. *)
None == << >>

OrderValues ==
    { o \in [id : OrderIds, symbol : Symbols, side : Sides, type : Types,
             price : Prices \cup {0}, quantity : Quantities,
             filledQuantity : Int, status : Statuses] :
        o.type = "LIMIT" => o.price \in Prices }

Trades ==
    [tradeId : Nat, buyOrderId : OrderIds, sellOrderId : OrderIds,
     symbol : Symbols, price : Prices \cup {0}, quantity : Int]

Addresses == [side : Sides, price : Prices, pos : Nat \ {0}]

Copies == [pos : Nat \ {0}, order : OrderValues]

TypeOK ==
    /\ books = [s \in Symbols |-> books[s]]
    /\ \A s \in Symbols : IsBook(books[s], Prices, OrderIds, OrderValues)
    /\ tradeIdCounter \in Nat
    /\ pc \in [Threads -> {"idle", "match", "trade", "notify"}]
    /\ order \in [Threads -> OrderValues \cup {None}]
    /\ candidates \in [Threads -> SUBSET Copies]
    /\ pointer \in [Threads -> Addresses \cup {None}]
    /\ loadedId \in [Threads -> Nat]
    /\ trades \in [Threads -> Seq(Trades)]
    /\ \A t \in Threads : /\ pc[t] # "idle" => order[t] # None
                          /\ pc[t] = "trade" => pointer[t] # None
    /\ submitted \in Seq(OrderValues) /\ Len(submitted) <= MaxOrders
    /\ traded \in Seq(Int) /\ Len(traded) = Len(submitted)
    /\ tape \in Seq(Trades)
    /\ announced \in Seq(Trades)

----------------------------------------------------------------------------
(* The matching loop's conditions. *)

Remaining(o) == o.quantity - o.filledQuantity

Available(c) == Remaining(c.order)

Lesser(a, b) == IF a <= b THEN a ELSE b

(* Mutant: `<=` for `<` in the price test, so that equal prices do not trade. *)
PriceAcceptedIfBetter(o, c) ==
    o.type = "LIMIT" => BetterPrice(Opposite(o.side), c.order.price, o.price)

(* The loop does not break on this candidate's price. *)
PriceAccepted(o, c) ==
    o.type = "LIMIT" => ~ BetterPrice(Opposite(o.side), o.price, c.order.price)

(* The first copy left in the snapshot. *)
IsNext(t, c) == /\ c \in candidates[t]
                /\ IsFirst(candidates[t], Opposite(order[t].side), c)

(* The loop is left: nothing remains, the snapshot is exhausted, or the
   next copy's price is not acceptable. *)
LoopEnds(t) ==
    \/ Remaining(order[t]) <= 0
    \/ candidates[t] = {}
    \/ \E c \in candidates[t] : IsNext(t, c) /\ ~ PriceAccepted(order[t], c)

(* Mutant: a market order's price, which nobody set, is used. *)
MatchPriceLower(o, c) == Lesser(o.price, c.order.price)

MatchPrice(o, c) ==
    IF o.type = "MARKET" THEN c.order.price ELSE Lesser(o.price, c.order.price)

(* filledQuantity += quantity, and the status that follows from it. *)
Fill(o, quantity) ==
    LET filled == o.filledQuantity + quantity
    IN  [o EXCEPT !.filledQuantity = filled,
                  !.status = IF filled >= o.quantity THEN "FILLED"
                             ELSE "PARTIALLY_FILLED"]

(* Mutant: a full resting order stays in the book. *)
FillRestingInPlace(book, at, id, filled) == WriteThrough(book, at, filled)

(* A full resting order leaves its book (by the snapshot's id), a partly
   filled one keeps its place with the new quantity. *)
FillResting(book, at, id, filled) ==
    IF filled.status = "FILLED"
    THEN RemoveOrder(WriteThrough(book, at, filled), id)
    ELSE WriteThrough(book, at, filled)

(* tradeIdCounter_++, the value that is stored. *)
NextTradeId(tradeId) == tradeId + 1

CreateTrade(tradeId, o, resting, price, quantity) ==
    [tradeId |-> tradeId,
     buyOrderId |-> IF o.side = "BUY" THEN o.id ELSE resting.id,
     sellOrderId |-> IF o.side = "BUY" THEN resting.id ELSE o.id,
     symbol |-> o.symbol, price |-> price, quantity |-> quantity]

(* Mutant: the test for LIMIT is dropped. *)
RestsWhateverType(o) ==
    /\ o.status \notin {"FILLED", "CANCELLED"}
    /\ o.filledQuantity < o.quantity

(* The tail of submitOrder: does what is left go into the book? *)
Rests(o) ==
    /\ o.status \notin {"FILLED", "CANCELLED"}
    /\ o.type = "LIMIT"
    /\ o.filledQuantity < o.quantity

----------------------------------------------------------------------------
Init ==
    /\ books = [s \in Symbols |-> EmptyBook]
    /\ tradeIdCounter = 0
    /\ pc = [t \in Threads |-> "idle"]
    /\ order = [t \in Threads |-> None]
    /\ candidates = [t \in Threads |-> {}]
    /\ pointer = [t \in Threads |-> None]
    /\ loadedId = [t \in Threads |-> 0]
    /\ trades = [t \in Threads |-> << >>]
    /\ submitted = << >>
    /\ traded = << >>
    /\ tape = << >>
    /\ announced = << >>

(* The call, up to the head of the loop: an order with nothing to fill
   returns before the snapshot of the opposite side is taken. *)
SubmitOrder(t, o) ==
    /\ pc[t] = "idle"
    /\ pc' = [pc EXCEPT ![t] = "match"]
    /\ order' = [order EXCEPT ![t] = o]
    /\ candidates' = [candidates EXCEPT ![t] =
          IF Remaining(o) <= 0 THEN {}
          ELSE GetOrders(books[o.symbol], Opposite(o.side))]
    /\ submitted' = Append(submitted, o)
    /\ traded' = Append(traded, 0)
    /\ UNCHANGED <<shared, pointer, loadedId, trades, tape, announced>>

(* An iteration up to the load of tradeIdCounter_: getOrder finds the live
   order behind the copy, or the loop goes on to the next copy. *)
ConsiderNext(t) ==
    /\ pc[t] = "match"
    /\ ~ LoopEnds(t)
    /\ \E c \in candidates[t] :
         /\ IsNext(t, c)
         /\ LET book == books[order[t].symbol]
            IN  IF HasOrder(book, c.order.id) /\ Available(c) > 0
                THEN /\ pc' = [pc EXCEPT ![t] = "trade"]
                     /\ pointer' = [pointer EXCEPT ![t] =
                                       GetOrder(book, c.order.id)]
                     /\ loadedId' = [loadedId EXCEPT ![t] = tradeIdCounter]
                     /\ UNCHANGED candidates
                ELSE /\ candidates' = [candidates EXCEPT ![t] = @ \ {c}]
                     /\ UNCHANGED <<pc, pointer, loadedId>>
    /\ UNCHANGED <<shared, order, trades, history>>

(* The rest of the iteration: the counter is stored, the trade is made, both
   orders are filled (the resting one through the pointer) and the loop goes
   on (its locals are gone).  What the code does through a pointer whose slot
   is gone is undefined: the step is then not enabled, and Spec has only the
   behaviours in which this does not happen. *)
ExecuteTrade(t) ==
    /\ pc[t] = "trade"
    /\ InBounds(books[order[t].symbol], pointer[t])
    /\ \E c \in candidates[t] :
         /\ IsNext(t, c)
         /\ LET o == order[t]
                book == books[o.symbol]
                resting == OrderAt(book, pointer[t])
                quantity == Lesser(Remaining(o), Available(c))
                trade == CreateTrade(loadedId[t], o, resting,
                                     MatchPrice(o, c), quantity)
            IN  /\ trades' = [trades EXCEPT ![t] = Append(@, trade)]
                /\ tape' = Append(tape, trade)
                /\ order' = [order EXCEPT ![t] = Fill(o, quantity)]
                /\ books' = [books EXCEPT ![o.symbol] =
                       FillResting(book, pointer[t], c.order.id,
                                   Fill(resting, quantity))]
                /\ traded' = [id \in DOMAIN traded |->
                       IF id \in {o.id, resting.id} THEN traded[id] + quantity
                       ELSE traded[id]]
         /\ candidates' = [candidates EXCEPT ![t] = @ \ {c}]
    /\ tradeIdCounter' = NextTradeId(loadedId[t])
    /\ pc' = [pc EXCEPT ![t] = "match"]
    /\ pointer' = [pointer EXCEPT ![t] = None]
    /\ loadedId' = [loadedId EXCEPT ![t] = 0]
    /\ UNCHANGED <<submitted, announced>>

(* The loop is over: what is left of a limit order rests, as PENDING. *)
FinishMatching(t) ==
    /\ pc[t] = "match"
    /\ LoopEnds(t)
    /\ pc' = [pc EXCEPT ![t] = "notify"]
    /\ LET o == order[t]
           resting == [o EXCEPT !.status = "PENDING"]
       IN  IF Rests(o)
           THEN /\ order' = [order EXCEPT ![t] = resting]
                /\ books' = [books EXCEPT ![o.symbol] = AddOrder(@, resting)]
           ELSE UNCHANGED <<order, books>>
    /\ candidates' = [candidates EXCEPT ![t] = {}]
    /\ UNCHANGED <<tradeIdCounter, pointer, loadedId, trades, history>>

(* One call of tradeCallback_. *)
NotifyTrade(t) ==
    /\ pc[t] = "notify"
    /\ trades[t] # << >>
    /\ announced' = Append(announced, Head(trades[t]))
    /\ trades' = [trades EXCEPT ![t] = Tail(@)]
    /\ UNCHANGED <<shared, pc, order, candidates, pointer, loadedId,
                   submitted, traded, tape>>

(* Mutant: the callback is not called for every trade. *)
ReturnEarly(t) ==
    /\ pc[t] = "notify"
    /\ pc' = [pc EXCEPT ![t] = "idle"]
    /\ order' = [order EXCEPT ![t] = None]
    /\ UNCHANGED <<shared, candidates, pointer, loadedId, trades, history>>

Return(t) ==
    /\ pc[t] = "notify"
    /\ trades[t] = << >>
    /\ pc' = [pc EXCEPT ![t] = "idle"]
    /\ order' = [order EXCEPT ![t] = None]
    /\ UNCHANGED <<shared, candidates, pointer, loadedId, trades, history>>

----------------------------------------------------------------------------
(* Bound: MaxOrders calls. *)
Submit(t) ==
    /\ Len(submitted) < MaxOrders
    /\ \E o \in NewOrders(Len(submitted) + 1) : SubmitOrder(t, o)

(* No thread is between its snapshot of the book and its last write to it. *)
BookFree(symbol) ==
    \A t \in Threads : pc[t] \in {"match", "trade"} => order[t].symbol # symbol

SerialSubmit(t) ==
    /\ Len(submitted) < MaxOrders
    /\ \E o \in NewOrders(Len(submitted) + 1) :
          BookFree(o.symbol) /\ SubmitOrder(t, o)

Loop(t) == ConsiderNext(t) \/ ExecuteTrade(t) \/ FinishMatching(t)

Continue(t) == Loop(t) \/ NotifyTrade(t) \/ Return(t)

Next == \E t \in Threads : Submit(t) \/ Continue(t)

SerialNext == \E t \in Threads : SerialSubmit(t) \/ Continue(t)

(* The loop and the tail after it take no lock, call nobody and wait for nothing:
   the scheduler runs a thread that is there.  tradeCallback_ is the server's: it
   sends on sockets and waits for the database and for the mutexes of both, so
   that nothing is assumed of NotifyTrade. *)
Scheduled(t) == WF_vars(Loop(t))

Fairness == \A t \in Threads : Scheduled(t)

Spec == Init /\ [][Next]_vars /\ Fairness

SerialSpec == Init /\ [][SerialNext]_vars /\ Fairness

----------------------------------------------------------------------------
(* Properties. *)

(* The order is being matched by some thread. *)
InMatching(id) ==
    \E t \in Threads : pc[t] \in {"match", "trade"} /\ order[t].id = id

(* The index says of every order in the book where it is, and of no other
   order anything; every order is where RestsAt says, behind the orders of
   its level that came before it; and no level is empty.  addOrder,
   removeOrder and getOrder of OrderBook.cpp rely on each other for this. *)
BookConsistent == \A s \in Symbols : Consistent(books[s], s)

(* What the book says of an order is what its trades say: no order trades
   more than was asked, a limit order is in its book exactly while something
   is left of it, with what it has traded as its filled quantity, and no
   market order is (submitOrder's tail, the fills of both sides). *)
BookMatchesTrades ==
    \A id \in DOMAIN submitted :
        LET o == submitted[id]
            book == books[o.symbol]
        IN  /\ traded[id] > 0 => traded[id] <= o.quantity
            /\ ~ InMatching(id) =>
                 /\ HasOrder(book, id) <=>
                        o.type = "LIMIT" /\ traded[id] < o.quantity
                 /\ HasOrder(book, id) =>
                        OrderAt(book, GetOrder(book, id)).filledQuantity
                            = traded[id]

(* Between two orders no bid of a book meets an ask: matching stops only
   when nothing more can be matched. *)
NotCrossed ==
    \A s \in Symbols : BookFree(s) =>
        \A bid \in OrdersOn(books[s], "BUY"), ask \in OrdersOn(books[s], "SELL") :
            bid.price < ask.price

(* No trade is at a price that a limit of either order excludes. *)
LimitsRespected ==
    \A i \in DOMAIN tape :
        LET buy == submitted[tape[i].buyOrderId]
            sell == submitted[tape[i].sellOrderId]
        IN  /\ buy.type = "LIMIT" => tape[i].price <= buy.price
            /\ sell.type = "LIMIT" => tape[i].price >= sell.price

(* Price-time priority: a trade takes, of all orders resting on the opposite
   side when it is made, one no other order has a better price than, and of
   those with its price the one submitted first. *)
PriceTimePriority ==
    [][tape' # tape =>
        LET trade == tape'[Len(tape')]
            book == books[trade.symbol]
            parties == {trade.buyOrderId, trade.sellOrderId}
        IN  \E side \in Sides : \E o \in OrdersOn(book, side) :
                /\ o.id \in parties
                /\ \A other \in OrdersOn(book, side) \ {o} :
                     \/ BetterPrice(side, o.price, other.price)
                     \/ o.price = other.price /\ o.id < other.id]_vars

(* "Generate unique trade ID" (include/MatchingEngine.h). *)
TradeIdsUnique ==
    \A i, j \in DOMAIN tape : tape[i].tradeId = tape[j].tradeId => i = j

(* A trade is made in the call of the order that arrived later. *)
IsTradeOf(id, trade) ==
    id = IF trade.buyOrderId < trade.sellOrderId THEN trade.sellOrderId
         ELSE trade.buyOrderId

(* The trades of an order's call, in the order of the list. *)
TradesOf(id, list) ==
    LET chosen[n \in 0 .. Len(list)] ==
            IF n = 0 THEN << >>
            ELSE IF IsTradeOf(id, list[n]) THEN Append(chosen[n - 1], list[n])
            ELSE chosen[n - 1]
    IN  chosen[Len(list)]

(* The callback gets every trade of a call once and in the order they were
   made: nothing is lost, repeated or swapped between the loop and
   submitOrder's tail. *)
AnnouncedAsTraded ==
    \A id \in DOMAIN submitted :
        LET waiting == { t \in Threads : pc[t] # "idle" /\ order[t].id = id }
        IN  TradesOf(id, tape) =
                TradesOf(id, announced) \o
                (IF waiting = {} THEN << >>
                 ELSE trades[CHOOSE t \in waiting : TRUE])

(* When a thread in the loop can go on, said without ENABLED: what the proof of
   the liveness property takes from TLC. *)
CanLoop(t) ==
    \/ /\ pc[t] = "match"
       /\ LoopEnds(t) \/ \E c \in candidates[t] : IsNext(t, c)
    \/ /\ pc[t] = "trade"
       /\ InBounds(books[order[t].symbol], pointer[t])
       /\ \E c \in candidates[t] : IsNext(t, c)

GuardsEnabled == \A t \in Threads : CanLoop(t) => ENABLED <<Loop(t)>>_vars

(* The matching of every order comes to its end, whatever its quantity and
   whatever became of the copies in the snapshot: an iteration that trades
   nothing, or a negative quantity, must not keep matchBuyOrder or
   matchSellOrder going. *)
MatchingEnds ==
    \A t \in Threads : pc[t] \in {"match", "trade"} ~> pc[t] = "notify"

(* The engine implements Exchange: the books are the set of what is left of
   the orders in them, a thread in the loop holds the incoming order of its
   symbol. *)
LeftOf(o) ==
    [id |-> o.id, symbol |-> o.symbol, side |-> o.side, type |-> o.type,
     price |-> o.price, quantity |-> Remaining(o)]

Matching == { t \in Threads : pc[t] \in {"match", "trade"} }

RestingOrders ==
    UNION { UNION { { LeftOf(o) : o \in OrdersOn(books[s], side) } :
                    side \in Sides } : s \in Symbols }

IncomingOrders == { LeftOf(order[t]) : t \in Matching }

Executions ==
    [i \in DOMAIN tape |->
        [buy |-> tape[i].buyOrderId, sell |-> tape[i].sellOrderId,
         symbol |-> tape[i].symbol, price |-> tape[i].price,
         quantity |-> tape[i].quantity]]

Market == INSTANCE Exchange WITH
    arrived <- Len(submitted),
    resting <- RestingOrders,
    incoming <- IncomingOrders,
    tape <- Executions

ImplementsExchange == Market!Spec
=============================================================================
