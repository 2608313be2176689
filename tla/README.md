# A verification project for market_simu

market_simu is a C++17 server that matches orders for traders connected over TCP,
settles the trades in their accounts, logs orders and trades to PostgreSQL and shows
its books on a web page. This directory holds TLA+ modules that model its core, the
TLC configurations that check them and the TLAPS proofs about them. Paths below are
relative to the repository.

## 1. Inventory

### Components, their state and their operations

| component | state | operations | talks to |
|---|---|---|---|
| `OrderBook` (src/OrderBook.cpp) | two maps from price to a vector of orders in time order; `orderIndex_` from order id to price and position | addOrder, removeOrder (erases from the vector, reindexes the orders behind), getOrder (a pointer into a vector), getBuyOrders/getSellOrders (copies of all orders) | called by the engine and by the web server |
| `MatchingEngine` (src/MatchingEngine.cpp) | `tradeIdCounter_`; per call: the incoming order, the snapshot it runs over, the trades made | submitOrder, matchBuyOrder, matchSellOrder, createTrade, the trade callback | one object for all client threads; changes the book it is given |
| `Account`, `SettlementEngine` (src/Account.cpp, src/SettlementEngine.cpp) | balance and positions; per call: the trades and accounts passed | withdraw, deposit, updatePosition; settleTrade, settleTrades, the settlement callback | called by submitOrder after matching |
| connections of `MarketServer` | a thread per connection, `traderSockets_`, the process's descriptors | acceptConnections, handleClient, onTradeExecuted and onSettlementComplete, which send to the sockets of other threads' clients | the engines call back into it |
| registries of `MarketServer` | `traders_`, `accounts_`, `orderBooks_`, four mutexes | registration, processMessage, submitOrder, getOrderBook, getTrader | ties all of the above together |
| `OrderLogger` (src/OrderLogger.cpp) | the connection, `connMutex_`; two tables that outlive the process | initialize, logOrder, logTrade, close | called before matching and in the trade callback |
| sends of `MarketServer` | `socketsMutex_`, the sockets' buffers | replies without a lock, notifications under `socketsMutex_`, all of them blocking | read by the clients |
| text protocol of `MarketServer` | per connection: handleClient's buffer | recv, REGISTER and ORDER messages, parseOrderMessage | the clients |
| `WebServer` (src/WebServer.cpp) | its sockets and threads, `websocketClients_` | HTTP requests; reads books, accounts and counts, and makes a book that is asked for | reads MarketServer from its own threads |
| start and shutdown (src/main.cpp) | `running_`, `serverSocket_` and `acceptThread_` of both servers, detached threads | start, stop, destructors, the signal handler, exit | both servers |
| clients | tests/TestClient.cpp: one message under way | sendMessage, receiveMessage; web/index.html polls | speak the protocol |

An order takes this path, on the thread of its client's connection: parse; find the
trader; log the order; find or make the book; match it; per trade, notify buyer and
seller and log the trade; collect the parties' accounts; settle trade by trade and notify
again; answer the client.

### What is hard in it

* The engine, the books and the accounts have no locks, and every client thread uses
  them: the mutexes of MarketServer protect the maps, not the objects they lead to.
* The matching loop runs over copies of orders and fills the live ones through
  pointers into vectors that the same loop erases from.
* Positions in `orderIndex_` move whenever an order is erased in front of others.
* Descriptors are given out again while a map leads from names to descriptors, and
  other threads send through that map.
* A settlement is four updates after a check; it comes after the trade is announced
  and logged, and may be refused.
* The database outlives the process, the connection may be lost with a statement
  under way, every result is ignored.
* `getTrader` takes one mutex under another.
* Shutdown happens in a signal handler, beside accept threads that block and detached
  threads that nobody waits for; descriptors closed by stop may be given out again.
* One recv is taken for one message on both sides, with notifications among the replies.
* Notifications block on the slowest reader with a mutex held.
* The web server reads a book in four calls while it changes.

### What makes each component correct

* Book: the index and the levels agree; levels are in time order; no order is lost.
* Engine: price-time priority; no crossed book is left; limits are respected; fills
  in the book equal the trades on the tape; every trade is announced once, in order;
  the matching of an order comes to its end; trade ids are unique.
* Settlement: whole or not at all; nothing is created or lost; no overdraft.
* Connections: a recorded socket is its trader's; notifications go to nobody else;
  descriptors come back.
* Registries: one book per symbol and one account per trader, for good; every party
  of a trade has an account; no deadlock.
* Logger: what is stored is coherent, whatever is not.
* Sends: a client that reads is answered.
* Protocol: nothing is handled twice, out of order or with another message's text; a
  client that stays in step loses nothing.
* Web view: what is read undisturbed is one book, in its own prices and orders; what is
  read while orders are matched never shows two waiting orders crossed.
* Start and shutdown: a signal ends the process, by exit; nothing is accepted after
  stop; no descriptor is lost.

`PROJECT.json` lists the hazards one by one, at their lines, with the properties that
cover them.

## 2. Modules

    OrderBook          the container, as operators on a book value
      MatchingEngine   submitOrder, one loop iteration in two steps
        Exchange       (abstract) what price-time priority promises
    SettlementEngine   settleTrades, update by update
      Ledger           (abstract) a transfer is indivisible
    Sessions           connections, descriptors, notifications
    MarketServer       registries, mutexes, the path of an order
    OrderLogger        logging, the database, restarts
    Notifications      blocking sends, some of them under socketsMutex_
    Protocol           one client and its handleClient over a byte stream
    WebView            GET /api/orderbook beside MatchingEngine, which it extends
    ClockIds           MatchingEngine with the ids parseOrderMessage gives
    Lifecycle          main, start, stop, accept loops, signal, exit

`MCMatchingEngine`, `MCSettlementEngine`, `MCOrderLogger` and `MCWebView` only name sets
of numbers and symmetries for TLC, the modules `...Proofs` hold theorems.

**OrderBook, MatchingEngine.** A book is a value `[levels, index]`; the variable
`books` has one per symbol. Positions are from 1. `SubmitOrder` is the call up to the
snapshot, `ConsiderNext` an iteration up to the read of `tradeIdCounter_` (or a
`continue`), `ExecuteTrade` the rest of the iteration, `FinishMatching` the tail of
submitOrder, `NotifyTrade` a call of the callback. The C++ has the buy and the sell side
twice, as mirror images; the model has one definition with the side as parameter, and
`map` leads some definitions to one copy and some to the other. The snapshot is the
set of copies left, each with its place; `IsFirst` is the order the C++ vector has
them in. `submitted`, `traded`, `tape` and `announced` are history: no guard reads
them but the bound.

**SettlementEngine.** `balance_` and `positions_` are one map from assets to amounts.
`step` says which of the four updates a thread is in, `loaded` holds the value it has
read. `SettleTrade` finds the two accounts and makes the test of withdraw on one reading
of the balance; `Load` reads an amount to be changed, the balance of `balance_ -=` once
more included, and `Store` writes it back.

**Sessions.** One `Connections` value per connection ever opened. `pc` names the place
in handleClient. `open` is the kernel's table. `NotifyTrader` is any notification some
order causes. It is preceded by a step that takes `socketsMutex_` (`LockSockets`) and
holds it until its send is through, so recording a socket and taking it out wait
for that send (`SocketsFree`); nothing makes the steps of a message happen. The reply
to a registration is the first thing sent on its socket, whose buffer is empty, and does
not wait. The message loop's test of `running_` is left to Lifecycle.

**MarketServer.** Books and accounts are numbered objects, since what matters is which
object a name leads to; what the engine and settlement do to them is abstract here
(`Match`, `Settle`) and detailed in their own modules. The steps that wait for the two
mutexes modelled here and for nothing else are `Bookkeeping`; `CallsOut` are those that
call the logger or the callbacks, which wait for the database and for clients to read and
may never return. A section under a mutex is one
step; for the two mutexes that nest, taking one is a step of its own.

**OrderLogger.** A behaviour is a number of runs of the process on one database. The
database is external and nondeterministic: it stores a row, refuses it, or the connection
breaks with or without the row. Matching is abstract. `DatabaseAnswers` is the fairness
of a database that answers in the end; without it a thread may hold `connMutex_` for ever.

**Notifications.** A thread per client; `unread` counts what the buffers to a client
hold, and `Send` is enabled while there is room. Whom an order trades with is left open
(`Notified` has every case, settled or not). A notification takes `socketsMutex_`, sends
and gives it up; the reply to the order is sent without it.

**Protocol.** A message is a sequence of parts, cut where a cut makes a difference: in
the tag, before the fields, in the last value, before the newline. `Recv` takes any
prefix of the stream, `Fill` writes it over the old buffer with the terminator behind,
`Text` is what the C++ string of it is. Which number a text stands for is left to
MatchingEngine, whose `NewOrders` has the numbers stod returns, negative ones included,
and the order marked REJECTED, but not nan and inf. The client is sendMessage and
receiveMessage of tests/TestClient.cpp, with its one-second wait as `TimeOut`.
Not cut: within the fields between trader and price, where a cut gives an ERROR
reply like one before them.

**WebView.** `GetOrderBookJson` is one of the four reads; between any two of them
MatchingEngine takes its steps. A read is a step of its own: one that meets a write
inside a container is undefined behaviour. `disturbed` is history and says that an order
came in between.

**ClockIds.** `ClockSubmit` gives an order a new id or that of an order submitted
before, which is what two readings of the clock at one tick do.

**Lifecycle.** Both servers have the same shape (`Servers`): start, accept loop, stop,
destructor. `open` is the kernel's table, `acceptOn` the descriptor an accept thread has
read and the socket it then waits on, `stage`, `at` and `stopPc` the place of main in
the signal handler and in exit. One signal is modelled, and it is delivered to main: the
kernel prefers the main thread for a signal sent to the process. `Spec` lets it come at
any time after the servers exist, `CalmSpec` when both start functions are over. main's
own waiting loop ends only by the handler's exit, so what is behind it in main never
runs. A client thread is reduced to where it is: in recv, using a server, or in the
logger with `connMutex_`.

### Two specifications of the engines

`Spec` lets threads overlap as the server does, and `SerialSpec` restricts the start of
a call: no overlap on one symbol (matching), on one account (settlement). The code
needs this discipline and does not enforce it; the runs of `SerialSpec` show that the
engines are right when it is kept, and `overlap_priority` and SettleOverdraft.cfg show
that without it they are not. `overlap_ids` shows that one book at a time is not enough for
what all symbols share, the counter of trade ids. An access through a pointer whose slot is
gone is undefined behaviour. `Spec` of MatchingEngine does not model what follows it: it has the behaviours in
which it does not happen, so a violation found under it is real, and a property that
held under it would not be a promise about the racing program.

## 3. Runs

| run | size | states | shows |
|---|---|---|---|
| match_one | 1 thread, 1 symbol, 2 prices, quantities -1, 1 and 2, 4 orders | 406 579 | index, levels, trades, announcements agree; priority; no crossed book; Exchange is implemented |
| web_view | 1 thread, 1 symbol, 2 prices, quantities -1 to 2, 3 orders, the page | 643 823 | an undisturbed view is one book; a disturbed one shows no waiting orders crossed; fills in the book equal the trades |
| overlap_priority | 2 threads, 1 symbol, 4 orders | violation | a trade past a better order |
| overlap_ids | 2 threads, 2 symbols, 4 orders | violation | two trades with one id |
| settle_serial | 2 threads, 4 traders, prices -1 and 2, batches of 2, 2 calls | 85 697 | whole or not at all (Ledger), nothing lost, no overdraft |
| sessions | 3 connections, 2 descriptors, a name and the empty one | 405 445 | own sockets, own notifications, a sole connection recorded, descriptors released if calls return |
| logger | 2 threads, 4 orders, 2 runs, 1 trade per order | 601 612 | stored trades have stored orders |
| logger_restart | 1 thread, 4 orders, 2 runs | violation | trades lost to reused ids |
| server | 2 threads, 2 traders, 1 symbol, 3 orders | 27 516 | one book, one account for good, all parties' accounts, no deadlock; the registries' mutexes are granted; every message answered if calls return |
| notifications | 3 clients that read, room for 1 message each, 2 orders | 34 865 | every order answered |
| protocol | a registration and 2 orders, 1 notification, 2 time-outs, any cuts | 105 577 | handled as sent; a client in step is served and answered |
| lifecycle | 2 connections, 3 descriptors, both servers | 201 436 | a signal ends the process, by exit; nothing accepted after stop; no descriptor lost; connections are taken |

**Bounds.** `MaxOrders`, `MaxCalls`, `MaxBatch`, `MaxRuns`, `MaxTrades` and the set
`Connections` bound behaviours; all are conjuncts of the actions that start something.
Four orders are enough for a level of three orders whose first or middle one leaves, for an
order that trades with two levels, and for one that trades twice and rests; two prices for
better, equal and worse. Two threads are enough for every race of a load and a store. In
`match_one` a negative quantity stands for 0 as well, which goes the same ways; both are in
`web_view`, with one order less. In `settle_serial` a trader of balance 3 can pay
for one trade at 2 and not for a second one, and four traders let two settlements
overlap. Two descriptors for three connections force reuse, and three connections are enough for one that
waits for a mutex the others take in turn. Three orders of one symbol are enough in `server`
for two threads that want the accounts at once; two symbols are in GuardsServer.cfg.
Two runs with two orders each are enough for a trade id to come back after a restart; that
an order makes several trades is left to the theorem, which has no bound on them. Three clients with room for one message
each are enough for a wait of one client's thread on another's reading while a third
waits for the mutex. Two orders behind a registration give a message joined to the one
before, cut in itself, and read over the rest of a longer one. Three descriptors for two
listening sockets and two connections run out, and one that stop closes is given out
again. Since the bounds stop calls, a behaviour ends when they are used up, and
the configurations do not check TLC's deadlock; `NoDeadlock` states the absence of
deadlock for the module where threads wait for each other.

**Symmetry** is used in `settle_serial`, over threads and over traders, and in `logger`, over
threads and over orders: the modules do not tell them apart, and the properties checked are
safety properties (the refinement too: `Ledger` states no fairness).

**Fairness.** Of a step that may wait for other clients or for the database nothing is
assumed, but for Protocol, which has one client and an order path that returns, for
Lifecycle, whose client threads come back from an order and from the logger, and for the
clients of Notifications that do read.

MatchingEngine has weak fairness of each thread's `Loop`: the loop and the
tail behind it take no lock and call nobody, so the scheduler alone decides. `NotifyTrade` is
not part of it, for the callback sends on sockets under `socketsMutex_` and waits for the
logger: when submitOrder returns is left open.
`FairSpec` of Sessions has strong fairness of `Handle`, a connection's own steps outside
of messages; `FairSpec` of MarketServer has it for `Bookkeeping`, and `Spec` of
Notifications for each thread's `Continue`. It is strong for a mutex (or room in a
buffer) that is there again and again although others take it in between: every holder
that goes on gives it up, pthread mutexes wake a waiter at each unlock, and a thread is
not passed over for ever in practice, though POSIX does not promise it. What may never
return is a premise of the property that needs it (`CallsReturn` in Sessions and in
MarketServer): `SlowClient` and `LoggerBlocks` below show that it can fail.
Notifications adds that the clients in `Readers` read.
Protocol has weak fairness of handleClient and of the client that has a response to
read; nothing makes it send. Lifecycle has it for every thread that does not wait for
a client: main in the handler, the start functions, the accept loops, the client
threads at work. Nowhere do clients have to send, connect or leave, nor the signal to
come.

### Disagreements found

1. *Price-time priority is lost when orders of a symbol overlap* (`overlap_priority`;
   README.md lines 7 and 11 against src/MarketServer.cpp:310, no lock).
2. *Two trades get the same id when orders overlap, of different symbols too*
   (`overlap_ids`; MatchingEngine.h:37 "Generate unique trade ID" against
   src/MatchingEngine.cpp:177, a counter that is not atomic).
3. *Trades of a restarted server are not stored* (`logger_restart`; README.md line 10
   against src/MatchingEngine.cpp:6 and src/OrderLogger.cpp:304).

### Counterexamples beside the suite

The configurations below are not part of the suite that `PROJECT.json` lists. Each checks
one property that the code does not have, and TLC ends with its violation. They say
where the properties of the suite stop, and are run by hand
(`tlc -config X.cfg M`).

| configuration, module | property violated | the code and what is said of it |
|---|---|---|
| ClockIds, ClockIds | `NotCrossed` | ids are clock readings (MarketServer.cpp:248; DATABASE.md:56 "Unique order identifier") |
| SettleUnfunded, MCSettlementEngine | `TradesFunded` | funds are checked after the trade (SettlementEngine.cpp:18, comment at line 20) |
| SettleOverdraft, MCSettlementEngine | `NoOverdraft` | two settlements of one buyer pass the test on the same balance (the test of Account.cpp:27 against the second reading in line 28, with no lock at MarketServer.cpp:333; SettlementEngine.cpp:20 "safety check") |
| SessionsCount, Sessions | `ConnectedTradersCounted` | two connections of one trader (MarketServer.cpp:203; MarketServer.h:90) |
| WebSpread, MCWebView | `SpreadPositive` | bid and ask are read one after the other (WebServer.cpp:285; index.html:477) |
| SlowClient, Notifications | `ReadersAnswered` | one client does not read, and others are not answered (MarketServer.cpp:392; README.md:11) |
| LoggerBlocks, OrderLogger | `MatchedWithoutAnswer` | the order waits for the database (OrderLogger.cpp:250; DATABASE.md:143 "non-blocking") |
| OrdersLost, Protocol | `EveryOrderHandled` | two orders in one recv (MarketServer.cpp:189; TestClient.h:20) |
| StartFails, Lifecycle | `StartFailureReported` | a start that fails ends in std::terminate, before main prints the message (main.cpp:43-52; main.cpp:69, DEPLOYMENT.md:225) |
| EarlySignal, Lifecycle | `ShutdownEnds` | a signal during start: the descriptor stop closes is given to the other server (MarketServer.cpp:109; main.cpp:57) |
| StopServes, Lifecycle | `StoppedServerServesNobody` | a thread in recv serves its next message after stop (MarketServer.cpp:188; MarketServer.h:27) |
| DestroyedUsed, Lifecycle | `DestroyedServerUnused` | detached threads use destroyed servers (MarketServer.cpp:136, WebServer.cpp:111) |

Two configurations beside the suite pass: `MatchEnds` (MCMatchingEngine, the instance of
`match_one` with 3 orders, 21 883 states), where the matching of every order ends, and
`LoggerLive` (MCOrderLogger, 206 635 states), where every order returns from the logger as
long as the database answers. `TypeOK` of Protocol and of Notifications (both also proved)
and `ViewTypeOK` hold on the instances of the runs as well, when they are added to the
configurations.

`GuardsEnabled`, which the proofs of section 4 take from TLC, holds in every state of these
instances. Three are larger than those of the runs, and check the safety properties again,
`ImplementsExchange` among them: `GuardsMatching` (MCMatchingEngine, `SerialSpec`, 2 threads,
2 symbols, 3 orders; 329 401 states), `GuardsSessions` (Sessions, three names; 1 031 435) and
`GuardsServer` (MarketServer, 2 symbols; 426 436). The others are on the instances of the runs:
`GuardsProtocol` (Protocol, 105 577),
`GuardsLifecycle` (Lifecycle, 201 436) and `GuardsNotifications` (Notifications, 34 865).
They pass, and are run by hand as well.

Read but not run: DATABASE.md:142 says fills are updated in the database, and nothing
does.

## 4. Proofs

For every value of the constants:

* `MatchingEngineProofs`: `TypeCorrect` and `SerialTypeCorrect` (`TypeOK` under both
  specifications). `TypeOK` is inductive as it stands, having in it that a thread in the
  loop has an order and one about to trade has a pointer. The work is in the lemmas
  about OrderBook, with which the module begins: what addOrder, removeOrder with its
  reindexing, and a write through a pointer do to a book.
  `BooksStayConsistent` (`BookConsistent` under `SerialSpec`): its first half is about one
  book: `WellIndexed` (the index and the levels name the same
  places, no id is in two of them, levels are in order of id) is kept by a write through a
  pointer, by an erasure, which moves the orders behind one place forward in level
  and index alike, and by an addition of an id larger than the book's.
  The second half is the invariant `SerialInv`: an order being matched came after all of
  its book (so its remainder may go to the end of a level), no other thread has an order of
  its symbol, and a thread about to trade has a pointer to the order whose copy is next in
  its snapshot. `BookConsistent` alone is not inductive: it says nothing of the
  pointers and of the ids still on their way into the book.
  The second part of the module forgets levels and places: a book is the set of the orders
  on its sides, and each step of the engine changes it by one order.
  `MarketInv`, added to `SerialInv`, says that an order in a book or in the loop is the one
  submitted, with what it has traded as its filled quantity (`OrdersKnown`); that a limit order
  with something left is resting or in the loop (`NoOrderLost`); that no book is crossed,
  half-way through a call included (`Uncrossed`); that a thread's snapshot, as long as its
  order has something left, is what the other side of its book holds (`SnapshotInv`: the
  copies it has dealt with are those that are gone from the book); and that the tape is
  within the limits. From it follow, under
  `SerialSpec`, `TradesExplainBooks` (`BookMatchesTrades`), `BooksStayUncrossed`
  (`NotCrossed`), `TradesRespectLimits` (`LimitsRespected`) and `BestOrderTrades`
  (`PriceTimePriority`). The last one is where the snapshot matters: without `SnapshotInv`
  nothing says that the first copy of a list made before the first trade is
  still the best order there is.
  `EngineImplementsExchange` (`ImplementsExchange`) takes each step in turn: the call is
  the arrival of an order, `ExecuteTrade` a trade with the best resting order, the end of
  matching the order's rest or cancellation, everything else a stutter.
  `IdsUniqueUnlessOverlapping` (`TradeIdsUnique`, under `Spec`):
  `SerialSpec` does not give it, because threads on different symbols share
  tradeIdCounter_; what gives it is that no two threads are between the load and the
  store of the counter (`LoadsApart`); the run `overlap_ids` has the
  counterexample without it. `QuietViewsAgree` (`QuietViewAgrees` of WebView) says what
  each read has seen so far is what the book still has, unless an order came in.
  `ShownCrossingsAreOld` (`CrossedBidsFilled`) has no such condition: a bid once shown that
  an ask of a later read meets has left the book in between, and only a full fill takes
  an order out.
  `TradesAnnouncedInOrder` (`AnnouncedAsTraded`): the trades of a call are those announced and
  then those still in its list, and a call that is over has announced all of them
  (`AnnounceInv`). `TradesOf` chooses from the tape by a recursive function; that it
  distributes over an appended trade is proved by the least length at which it would not.
  `MatchingComesToAnEnd` (`MatchingEnds`): a call trades with each order once, so some time
  it trades for the last time; and an iteration trades or is the last, because what it
  considers is in the book (`SnapshotInv`), where its pointer leads. It says nothing of
  the announcements behind the loop, which may wait for ever.
* `SessionsProofs`: `SessionsTypeCorrect`, `SocketsOwn` (`RecordedSocketIsOwn`),
  `OwnersNotified` (`NotificationsReachOwner`). The invariant, `SessionsInv`, says that
  each recorded socket belongs to a connection between `Record` and the end of
  `Unregister`: such a connection has not closed its descriptor, so the descriptor
  is still its own. `RecordedSocketIsOwn` alone is not inductive, for it
  does not say that the owner's `Close` comes after the entry is gone.
  `SoleConnectionKept` (`SoleConnectionRecorded`) adds to it that an id is given to
  a connection only once: the other traders' steps then leave its entry alone.
  `DescriptorsReleased` (`DescriptorReleased`) goes through the places of handleClient,
  each of which is left once the client is gone: those of a message because its calls
  return, those that wait for `socketsMutex_` because it comes free again and again, both
  by the premise the property states (`CallsReturn`).
* `SettlementEngineProofs`: `SettlementTypesCorrect` (under `Spec`) and `BalancesStayFunded`
  (`NoOverdraft` under `SerialSpec`). `OverdraftInv` says that the trades under way of two
  threads have no party in common, so what a thread has loaded is still what the
  account holds when it stores; and that from withdraw's test on the cost is not
  negative, and covered by the balance until the first store, so that the balance read
  again for the subtraction is as good as the one tested. That is what fails in
  SettleOverdraft.cfg. `NoOverdraft` alone says
  nothing of values loaded. `NothingIsLost` (`NothingLost`) and `SettlementImplementsLedger`
  (`ImplementsLedger`), under `SerialSpec`, are about `Settled`, what an account holds
  with the updates of the trades under way that are still due: a store moves an amount
  from due to held and changes nothing (`SettledKept`), and a test that is
  passed adds the whole trade at once (`SettledBy`), to the buyer what it takes
  from the seller. Sums over threads and traders are those of `SumFunction`; that a
  change at one place changes the sum by as much is proved by a smallest
  counterexample among the subsets of a finite set.
* `LifecycleProofs`: `LifecycleTypesCorrect` and `DescriptorsClosed` (`NoDescriptorLost`)
  whenever the signal comes; `ShutdownByExit` (`EndsByExit`) and `NothingAcceptedAfterStop`
  (`NothingAcceptedOnceStopped`) for `CalmSpec`. `CalmInv` says that once start is over a
  thread object is joinable as long as its loop may run, and `running_` is true until stop of
  that server is under way, so stop never returns at its first test while
  there is something to join; and that the descriptor an accept thread has read is its own
  server's. The last part is what fails when the signal comes early.
  `ShutdownCompletes` (`ShutdownEnds`, under `CalmSpec`): stop waits only for a thread whose
  accept has been woken and whose `running_` is false, and exit for the logger only as long as
  a thread past its last message is in it. `BacklogTaken` (`ConnectionsTaken`): an accept loop
  comes back to accept and takes one of the connections that wait, each of them once.
* `OrderLoggerProofs`: `LoggerTypesCorrect`, `NoTradeOfLostOrders`
  (`TradesReferToLoggedOrders`). `LoggerInv` says that while the connection is up nothing in
  memory (books, threads, trades due) refers to an order that was lost; once it
  is down that fails, but then nothing is stored, and it comes up again only in a
  new process with empty books. It needs `connMutex_`: the connection cannot go
  down under a thread that waits for its answer.
* `MarketServerProofs`: `ServerTypesCorrect`, `BooksAreUnique`, `AccountsAreUnique`,
  `EveryPartyHasAccount`. `ServerInv` says that whoever has an order in a book or is party
  to a trade is in `traders_`: only orders of existing traders pass `Validate`, and no map
  loses a key; `AccountsAreUnique` (`OneAccountPerTrader`) adds, of every step, that what a
  name leads to never changes. `NobodyWaitsInCircle` is the argument behind `NoDeadlock`,
  which is about `ENABLED`: tradersMutex_ is held only by a thread that makes a trader and accountsMutex_
  only by one that collects accounts (`HeldInv`), so whoever holds the inner one of the two
  waits for nothing. `ThreadsNeverStuck` concludes `NoDeadlock` from it.
  `RegistryMutexesGranted` (`MutexesGranted`) and `MessagesAnswered`
  (`EveryMessageAnswered`): the inner mutex comes free since its holder waits for nothing,
  the outer one since its holder looks up each party once and gets the inner one each time.
  The first of the two assumes nothing of calls to the logger and the callbacks: no thread is
  in one with either mutex. The second one has as its premise that those of the thread
  itself return (`CallsReturn`); those of others may last.
* `ProtocolProofs`: `ProtocolTypesCorrect`, `OrdersHandledAsSent` (`HandledAsSent`),
  `InStepServed` (`OrderlyClientServed`). `InOrder` says that a text is a part of what a
  client sends: nothing missing inside it, nothing twice. It holds of the stream and of
  every prefix a recv takes, and the terminator `Fill` writes makes the text exactly
  what was received (`TextOfFill`), so four units that look like an order are of one message
  (`Parsed`). `HandledInv` adds that an order is behind all handled and before all in
  the stream. `InStep` lists the states a client in step can be in, with the reply to its
  last message as what tells them apart; `Orderly => InStep` is inductive because a
  client that is out of step never comes back into it. `InStepAnswered`
  (`OrderlyClientAnswered`) follows the message from the stream through submitOrder to the
  answer.
* `NotificationsProofs`: `NotificationsTypesCorrect` and `AllReadersAnswered`
  (`ReadersAnswered`, if all clients are in `Readers`). Room in a buffer comes again and
  again as its client reads, so every notification under way is sent, so the mutex comes
  free again and again, so every thread gets it for each of the notifications it has due,
  four at most. SlowClient.cfg has the counterexample with a client that does not read.

The assumptions are those the modules state on their constants (`...Assumption`): prices
and quantities are integers, bounds are naturals, `None` is none of the values it
stands beside; for sums the sets of threads and traders are finite.

Every property of a run that passes is a theorem. `NoDeadlock` and the liveness properties
have premises, since the provers treat `ENABLED` as an unknown predicate and do no
induction over temporal formulas:

* `[]GuardsEnabled`: each module with such a theorem says without `ENABLED` when a thread
  can go on (`CanLoop`, `CanHandle`, `CanKeepBooks`, ...) and in `GuardsEnabled` that its action is
  enabled then. Everything else about these guards is proved; that they do enable
  is what TLC checks (section 3).
* `[]Fairness` where the specification has `Fairness`: the same, for what happens again
  and again does so from any state on. The box is there for the provers.
* `FinitelyMany...`: if for each element of a set something is true from some time on,
  there is a time from which on it is true for all. That is so in any behaviour when the
  set is finite, as the sets here are in any run of the program (connections, traders,
  orders); its proof is an induction over the set.
  MarketServer has no assumption that `Traders` is finite, and Lifecycle none about
  `Connections`: there the premise is what has to be assumed of them.

Only model-checked: `GuardsEnabled` itself and `LoggerLive`. TLC checks the liveness
properties without any of these premises.

## 5. Not modelled, and why

* Wording: JSON, console output, the number a text stands for.
* Floating point: quantities and prices are integers, exact in both. stod also reads nan
  and inf, with which no comparison of the matching loop means what it says; they are not
  among the prices and quantities.
* Torn reads of containers under a data race, and what follows an access through a
  pointer whose order is gone: undefined behaviour.
* A signal handler that interrupts its thread inside malloc or with a mutex held, a
  signal delivered to another thread than main, a second signal.
* How many threads a process can have: `std::thread` that throws in an accept loop ends the
  process.
* Requests of the web server that only format what they read (accounts, statistics,
  files); the broadcast functions, which are empty or have no caller;
  `registerTrader`, `escapeString`, which have no caller.
* Fills in the database's rows: nothing writes them (see Disagreements).
* The scripts and the page, but for the page's polling.

## 6. Plan

What could still be added, in this order:

1. nan and inf among the numbers of an order: which comparisons of the loop then fail.
2. The tail of submitOrder in ClockIds: which of the properties of MatchingEngine are left
   when two orders have the same id, as theorems.
3. Sessions under Lifecycle's `running_`: that stop leaves no recorded socket behind.
4. The liveness of the logger (`LoggerLive`) as a theorem, from a database that answers.
