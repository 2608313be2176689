---------------------------- MODULE MarketServer ----------------------------
(***************************************************************************)
(* The registries of src/MarketServer.cpp and the path of an order through *)
(* it: processMessage, submitOrder, and the maps and mutexes they share    *)
(* with registration (handleClient) and with the web server's thread.      *)
(*                                                                         *)
(* Accounts and order books are heap objects that the maps point to, and   *)
(* are numbered in the order they are made: what matters is which object a *)
(* name leads to.  MatchingEngine is what happens inside a book,           *)
(* SettlementEngine what happens to the accounts, and Match and Settle     *)
(* stand for them here: an order trades with traders that have orders in   *)
(* the book it was given.                                                  *)
(*                                                                         *)
(* A section of code under a mutex is one step, except for the two that    *)
(* may wait for each other: getTrader takes tradersMutex_ while            *)
(* submitOrder holds accountsMutex_, and registration holds tradersMutex_. *)
(* There taking the mutex is a step of its own.  Nothing is locked inside  *)
(* socketsMutex_ (module Sessions), connMutex_ (module OrderLogger) and    *)
(* orderBooksMutex_, which need no variable.  registerTrader, which takes  *)
(* the two mutexes in the other order, has no caller and is left out.      *)
(***************************************************************************)
EXTENDS Naturals, FiniteSets

CONSTANTS
    Threads,      \* client threads
    Traders,      \* ids in REGISTER and ORDER messages
    Symbols,
    None,
    MaxOrders     \* bound: orders in a behaviour

ASSUME ServerAssumption ==
    /\ None \notin Threads \cup Traders \cup Symbols \cup Nat
    /\ MaxOrders \in Nat

VARIABLES
    traders,      \* traders_: trader -> the account of the Trader object
    accounts,     \* accounts_: account id (the trader's) -> account
    orderBooks,   \* orderBooks_: symbol -> book
    resting,      \* book -> the traders of the orders in it
    made,         \* objects made so far
    mutex,        \* tradersMutex_, accountsMutex_ -> the thread that holds it
    pc,           \* thread -> what it does next
    trader,       \* thread -> trader its message names
    symbol,       \* thread -> symbol of its order
    book,         \* thread -> submitOrder's orderBook
    parties,      \* thread -> the traders its trades are between
    passed,       \* thread -> submitOrder's local map accounts; None for a
                  \* party looked up and not found
    orders        \* orders so far

maps == <<traders, accounts, orderBooks>>
local == <<pc, trader, symbol, book, parties, passed>>
vars == <<maps, resting, made, mutex, local, orders>>

Mutexes == {"tradersMutex_", "accountsMutex_"}

Stages == {"idle", "register", "create", "validate", "book", "match", "settle",
           "gather", "settling"}

NoEntries == [k \in {} |-> 0]

IsMap(map, keys, values) ==
    DOMAIN map \subseteq keys /\ map \in [DOMAIN map -> values]

Objects == 1 .. made

With(map, key, value) ==
    [k \in DOMAIN map \cup {key} |-> IF k = key THEN value ELSE map[k]]

TypeOK ==
    /\ made \in Nat
    /\ IsMap(traders, Traders, Objects) /\ IsMap(accounts, Traders, Objects)
    /\ IsMap(orderBooks, Symbols, Objects)
    /\ IsMap(resting, Objects, SUBSET Traders)
    /\ mutex \in [Mutexes -> Threads \cup {None}]
    /\ pc \in [Threads -> Stages]
    /\ trader \in [Threads -> Traders \cup {None}]
    /\ symbol \in [Threads -> Symbols \cup {None}]
    /\ book \in [Threads -> (DOMAIN resting) \cup {None}]
    /\ parties \in [Threads -> SUBSET Traders]
    /\ DOMAIN passed = Threads
    /\ \A t \in Threads : IsMap(passed[t], Traders, Objects \cup {None})
    /\ orders \in 0 .. MaxOrders

Init ==
    /\ traders = NoEntries /\ accounts = NoEntries /\ orderBooks = NoEntries
    /\ resting = NoEntries /\ made = 0
    /\ mutex = [m \in Mutexes |-> None]
    /\ pc = [t \in Threads |-> "idle"]
    /\ trader = [t \in Threads |-> None] /\ symbol = [t \in Threads |-> None]
    /\ book = [t \in Threads |-> None]
    /\ parties = [t \in Threads |-> {}]
    /\ passed = [t \in Threads |-> NoEntries]
    /\ orders = 0

Goto(t, stage) == pc' = [pc EXCEPT ![t] = stage]

Lock(t, m) ==
    /\ mutex[m] = None
    /\ mutex' = [mutex EXCEPT ![m] = t]

Unlock(m) == mutex' = [mutex EXCEPT ![m] = None]

----------------------------------------------------------------------------
(* Registration, of handleClient. *)

(* A client connects and registers, under a name in use or a new one. *)
RegisterMessage(t, id) ==
    /\ pc[t] = "idle"
    /\ Goto(t, "register")
    /\ trader' = [trader EXCEPT ![t] = id]
    /\ UNCHANGED <<maps, resting, made, mutex, symbol, book, parties, passed, orders>>

(* tradersMutex_ is taken; accounts_ is written under it as well. *)
LockTraders(t) ==
    /\ pc[t] = "register"
    /\ Lock(t, "tradersMutex_")
    /\ Goto(t, "create")
    /\ UNCHANGED <<maps, resting, made, trader, symbol, book, parties, passed, orders>>

(* Mutant: the name is not looked up first. *)
AddTraderAlways(id) ==
    /\ made < 2 * MaxOrders
    /\ made' = made + 1
    /\ accounts' = With(accounts, id, made')
    /\ traders' = With(traders, id, made')

(* Mutant: accountsMutex_ is taken for the write of accounts_. *)
AddTraderLockingAccounts(id) ==
    /\ mutex["accountsMutex_"] = None
    /\ made' = IF id \in DOMAIN traders THEN made ELSE made + 1
    /\ accounts' = IF id \in DOMAIN traders THEN accounts ELSE With(accounts, id, made')
    /\ traders' = IF id \in DOMAIN traders THEN traders ELSE With(traders, id, made')

(* A trader that exists keeps its account. *)
AddTrader(id) ==
    IF id \in DOMAIN traders
    THEN UNCHANGED <<traders, accounts, made>>
    ELSE /\ made' = made + 1
         /\ accounts' = With(accounts, id, made')
         /\ traders' = With(traders, id, made')

CreateTrader(t) ==
    /\ pc[t] = "create"
    /\ AddTrader(trader[t])
    /\ Unlock("tradersMutex_")
    /\ Goto(t, "idle")
    /\ trader' = [trader EXCEPT ![t] = None]
    /\ UNCHANGED <<orderBooks, resting, symbol, book, parties, passed, orders>>

----------------------------------------------------------------------------
(* An order. *)

(* processMessage: the trader is the one the message names, whoever the
   connection registered as.  A message with fewer than six parts is answered
   ERROR and changes nothing. *)
ProcessMessage(t, id, s) ==
    /\ orders < MaxOrders
    /\ orders' = orders + 1
    /\ pc[t] = "idle"
    /\ Goto(t, "validate")
    /\ trader' = [trader EXCEPT ![t] = id]
    /\ symbol' = [symbol EXCEPT ![t] = s]
    /\ UNCHANGED <<maps, resting, made, mutex, book, parties, passed>>

(* submitOrder is over: ORDER_ACCEPTED or ORDER_REJECTED is sent. *)
Answer(t) ==
    /\ Goto(t, "idle")
    /\ trader' = [trader EXCEPT ![t] = None]
    /\ symbol' = [symbol EXCEPT ![t] = None]
    /\ book' = [book EXCEPT ![t] = None]
    /\ parties' = [parties EXCEPT ![t] = {}]
    /\ passed' = [passed EXCEPT ![t] = NoEntries]

(* Mutant: whoever the message names is taken for a trader. *)
ValidateNobody(t) ==
    /\ pc[t] = "validate"
    /\ Goto(t, "book")
    /\ UNCHANGED <<maps, resting, made, mutex, trader, symbol, book, parties, passed,
                   orders>>

(* The order of a trader that does not exist is rejected. *)
Validate(t) ==
    /\ pc[t] = "validate"
    /\ mutex["tradersMutex_"] = None
    /\ IF trader[t] \in DOMAIN traders
       THEN Goto(t, "book") /\ UNCHANGED <<trader, symbol, book, parties, passed>>
       ELSE Answer(t)
    /\ UNCHANGED <<maps, resting, made, mutex, orders>>

(* Mutant: orderBooks_[symbol] puts a null pointer where there is no book. *)
GetOrderBookNull(s) ==
    /\ orderBooks' = IF s \in DOMAIN orderBooks THEN orderBooks
                     ELSE With(orderBooks, s, 0)
    /\ UNCHANGED <<resting, made>>

(* Mutant: two threads that find no book both make one, and one is replaced. *)
GetOrderBookAnew(s) ==
    /\ made < 2 * MaxOrders
    /\ made' = made + 1
    /\ orderBooks' = With(orderBooks, s, made')
    /\ resting' = With(resting, made', {})

(* Under orderBooksMutex_: the book of a symbol, made if there is none. *)
GetOrderBook(s) ==
    IF s \in DOMAIN orderBooks
    THEN UNCHANGED <<orderBooks, resting, made>>
    ELSE /\ made' = made + 1
         /\ orderBooks' = With(orderBooks, s, made')
         /\ resting' = With(resting, made', {})

(* orderLogger_.logOrder, and the book. *)
FindBook(t) ==
    /\ pc[t] = "book"
    /\ GetOrderBook(symbol[t])
    /\ book' = [book EXCEPT ![t] = orderBooks'[symbol[t]]]
    /\ Goto(t, "match")
    /\ UNCHANGED <<traders, accounts, mutex, trader, symbol, parties, passed, orders>>

(* matchingEngine_.submitOrder on the book, callbacks included: the order
   trades with any of the traders it meets there, who stay or go, and rests
   or does not.  An order that makes no trade is answered. *)
Match(t) ==
    /\ pc[t] = "match"
    /\ \E met \in SUBSET resting[book[t]], rests \in SUBSET {trader[t]} :
         /\ \E gone \in SUBSET met :
               resting' = [resting EXCEPT ![book[t]] = (@ \ gone) \cup rests]
         /\ IF met = {}
            THEN Answer(t)
            ELSE /\ parties' = [parties EXCEPT ![t] = met \cup {trader[t]}]
                 /\ Goto(t, "settle")
                 /\ UNCHANGED <<trader, symbol, book, passed>>
    /\ UNCHANGED <<maps, made, mutex, orders>>

(* accountsMutex_ is held while the accounts of all parties are collected. *)
LockAccounts(t) ==
    /\ pc[t] = "settle"
    /\ Lock(t, "accountsMutex_")
    /\ Goto(t, "gather")
    /\ UNCHANGED <<maps, resting, made, trader, symbol, book, parties, passed, orders>>

(* getTrader takes tradersMutex_, for one party after the other. *)
GetTrader(t, id) ==
    /\ pc[t] = "gather"
    /\ id \in parties[t] \ DOMAIN passed[t]
    /\ mutex["tradersMutex_"] = None
    /\ passed' = [passed EXCEPT ![t] =
          With(@, id, IF id \in DOMAIN traders THEN traders[id] ELSE None)]
    /\ UNCHANGED <<maps, resting, made, mutex, pc, trader, symbol, book, parties, orders>>

(* Mutant: the lock's scope ends after settleTrades and not before it. *)
GatheredStillLocked(t) ==
    /\ pc[t] = "gather"
    /\ DOMAIN passed[t] = parties[t]
    /\ Goto(t, "settling")
    /\ UNCHANGED <<maps, resting, made, mutex, trader, symbol, book, parties, passed,
                   orders>>

(* Every party has been looked up. *)
Gathered(t) ==
    /\ pc[t] = "gather"
    /\ DOMAIN passed[t] = parties[t]
    /\ Unlock("accountsMutex_")
    /\ Goto(t, "settling")
    /\ UNCHANGED <<maps, resting, made, trader, symbol, book, parties, passed, orders>>

(* settlementEngine_.settleTrades, callbacks included. *)
Settle(t) ==
    /\ pc[t] = "settling"
    /\ Answer(t)
    /\ UNCHANGED <<maps, resting, made, mutex, orders>>

----------------------------------------------------------------------------
(* The web server's thread: GET /api/orderbook/<symbol> makes the book of a
   symbol nobody has traded. *)
WebGetOrderBook(s) ==
    /\ GetOrderBook(s)
    /\ UNCHANGED <<traders, accounts, mutex, local, orders>>

(* The steps that wait for the two mutexes here and for nothing else. *)
Bookkeeping(t) ==
    \/ LockTraders(t)
    \/ CreateTrader(t)
    \/ Validate(t)
    \/ LockAccounts(t)
    \/ \E id \in Traders : GetTrader(t, id)
    \/ Gathered(t)

(* The steps that call the logger, which waits for the database, and the
   callbacks, which wait for it too and for clients to read. *)
CallsOut(t) == FindBook(t) \/ Match(t) \/ Settle(t)

Continue(t) == Bookkeeping(t) \/ CallsOut(t)

Next ==
    \/ \E t \in Threads :
          \/ \E id \in Traders : RegisterMessage(t, id)
          \/ \E id \in Traders, s \in Symbols : ProcessMessage(t, id, s)
          \/ Continue(t)
    \/ \E s \in Symbols : WebGetOrderBook(s)

Spec == Init /\ [][Next]_vars

(* A client thread that can go on does, and one that waits for a mutex gets it
   sooner or later, however often others take it: they give it up each time,
   and the kernel runs everyone.  A thread that calls out may never come back:
   nothing is assumed of CallsOut, and nothing makes a client send. *)
Served(t) == SF_vars(Bookkeeping(t))

Fairness == \A t \in Threads : Served(t)

FairSpec == Spec /\ Fairness

----------------------------------------------------------------------------
(* Properties. *)

(* Whoever asks for a symbol's book gets the same one: no thread matches in a
   book that later orders of the symbol do not see. *)
OneBookPerSymbol ==
    \A t \in Threads :
        book[t] # None => symbol[t] \in DOMAIN orderBooks
                          /\ orderBooks[symbol[t]] = book[t]

(* A trader has one account for as long as the server runs: registering again
   under the name, as any client may at any time, keeps it, getAccount shows it
   (WebServer), and it is the one a trade is settled in, whenever it was looked
   up.  Money and shares would be lost with an account that is replaced. *)
OneAccountPerTrader ==
    [][\A id \in DOMAIN accounts :
         /\ id \in DOMAIN accounts' /\ accounts'[id] = accounts[id]
         /\ id \in DOMAIN traders' /\ traders'[id] = accounts[id]
         /\ \A t \in Threads :
               id \in DOMAIN passed'[t] => passed'[t][id] = accounts[id]]_vars

(* No trade is passed over by settleTrades for want of an account: whoever is
   party to a trade was a trader when its order came in, and still is. *)
AccountsComplete ==
    \A t \in Threads : pc[t] = "settling" =>
        \A id \in parties[t] : id \in DOMAIN passed[t] /\ passed[t][id] # None

(* When a thread can go on, said without ENABLED: what the proofs of NoDeadlock
   and of the liveness properties take from TLC. *)
CanKeepBooks(t) ==
    \/ pc[t] = "create"
    \/ pc[t] \in {"register", "validate"} /\ mutex["tradersMutex_"] = None
    \/ pc[t] = "settle" /\ mutex["accountsMutex_"] = None
    \/ pc[t] = "gather" /\ (parties[t] \subseteq DOMAIN passed[t]
                              \/ mutex["tradersMutex_"] = None)

CallStages == {"book", "match", "settling"}

CanContinue(t) == CanKeepBooks(t) \/ pc[t] \in CallStages

GuardsEnabled ==
    \A t \in Threads :
        /\ CanKeepBooks(t) => ENABLED <<Bookkeeping(t)>>_vars
        /\ CanContinue(t) => ENABLED <<Continue(t)>>_vars

(* The threads never all wait for each other's mutexes. *)
NoDeadlock ==
    (\E t \in Threads : pc[t] # "idle") =>
        \E t \in Threads : ENABLED <<Continue(t)>>_vars

(* Whoever wants tradersMutex_ or accountsMutex_ gets it, though any thread may
   never come back from the database or from a client that does not read: no
   thread is ever out there with one of the two.  So a blocked client keeps nobody
   from registering, from being rejected, or from collecting accounts. *)
MutexesGranted ==
    \A t \in Threads :
        /\ pc[t] \in {"register", "create"} ~> pc[t] = "idle"
        /\ pc[t] = "validate" ~> pc[t] \in {"book", "idle"}
        /\ pc[t] \in {"settle", "gather"} ~> pc[t] = "settling"

(* The logger and the callbacks return, every time: no thread stays out there. *)
CallsReturn == \A t \in Threads : []<>(pc[t] \notin CallStages)

(* If they do, every registration and every order comes to where its answer is
   sent, whatever the other threads do with the mutexes and the web server asks
   for. *)
EveryMessageAnswered ==
    CallsReturn => \A t \in Threads : pc[t] # "idle" ~> pc[t] = "idle"
=============================================================================
