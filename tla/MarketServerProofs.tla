------------------------- MODULE MarketServerProofs -------------------------
(***************************************************************************)
(* Names lead to one object for good, and no trade is left unsettled for   *)
(* want of an account, for any number of threads, traders, symbols and     *)
(* orders.  The argument for accounts: a thread is past Validate only for  *)
(* a trader that exists, so the books hold no one else's orders, so the    *)
(* parties of a trade exist, and no map ever loses a key.  The last        *)
(* section is about the two mutexes a thread takes one inside the other.   *)
(***************************************************************************)
EXTENDS MarketServer, TLAPS

NoBook == {"idle", "register", "create", "validate", "book"}

Validated == {"book", "match", "settle", "gather", "settling"}

ThreadInv(t) ==
    /\ pc[t] # "idle" => trader[t] # None
    /\ pc[t] = "validate" => symbol[t] # None
    /\ pc[t] \in Validated => trader[t] \in DOMAIN traders /\ symbol[t] # None
    /\ pc[t] \in NoBook <=> book[t] = None
    /\ book[t] # None => /\ symbol[t] \in DOMAIN orderBooks
                         /\ orderBooks[symbol[t]] = book[t]
    /\ parties[t] \subseteq DOMAIN traders
    /\ \A id \in DOMAIN passed[t] :
          id \in DOMAIN traders /\ passed[t][id] = traders[id]
    /\ pc[t] = "settling" => DOMAIN passed[t] = parties[t]

ServerInv ==
    /\ TypeOK
    /\ traders = accounts
    /\ \A s \in DOMAIN orderBooks : orderBooks[s] \in DOMAIN resting
    /\ \A b \in DOMAIN resting : resting[b] \subseteq DOMAIN traders
    /\ \A t \in Threads : ThreadInv(t)

USE ServerAssumption

----------------------------------------------------------------------------
(* Maps. *)

LEMMA WithIsMap ==
    ASSUME NEW K, NEW V, NEW map, IsMap(map, K, V), NEW k \in K, NEW v \in V
    PROVE  /\ IsMap(With(map, k, v), K, V)
           /\ DOMAIN With(map, k, v) = DOMAIN map \cup {k}
           /\ With(map, k, v)[k] = v
           /\ \A j \in DOMAIN map : j # k => With(map, k, v)[j] = map[j]
BY DEF IsMap, With

LEMMA IsMapOfMore ==
    ASSUME NEW K, NEW V, NEW W, V \subseteq W, NEW map, IsMap(map, K, V)
    PROVE  IsMap(map, K, W)
BY DEF IsMap

LEMMA NoEntriesIsMap ==
    ASSUME NEW K, NEW V
    PROVE  IsMap(NoEntries, K, V) /\ DOMAIN NoEntries = {}
BY DEF IsMap, NoEntries

(* The objects that exist still exist when another is made. *)
LEMMA OneMoreObject ==
    ASSUME TypeOK, made' = made + 1
    PROVE  /\ made' \in Nat /\ made' \in Objects' /\ made' \notin Objects
           /\ Objects \subseteq Objects'
BY DEF TypeOK, Objects

----------------------------------------------------------------------------
LEMMA ServerInitially == Init => ServerInv
<1> SUFFICES ASSUME Init PROVE ServerInv
  OBVIOUS
<1>1. TypeOK
  BY NoEntriesIsMap DEF Init, TypeOK, Mutexes, Stages
<1>2. QED
  BY <1>1, NoEntriesIsMap DEF Init, ServerInv, ThreadInv, Validated, NoBook

(* A message comes in. *)
LEMMA RegisterMessageStep ==
    ASSUME ServerInv, NEW t \in Threads, NEW id \in Traders, RegisterMessage(t, id)
    PROVE  ServerInv'
<1>1. TypeOK
  BY DEF ServerInv
<1>2. TypeOK'
  BY <1>1 DEF RegisterMessage, Goto, TypeOK, Stages, maps, Objects
<1>3. \A u \in Threads : ThreadInv(u)'
  BY DEF RegisterMessage, Goto, ServerInv, TypeOK, ThreadInv, Validated, NoBook, maps
<1>4. QED
  BY <1>2, <1>3 DEF RegisterMessage, ServerInv, maps

LEMMA ProcessMessageStep ==
    ASSUME ServerInv, NEW t \in Threads, NEW id \in Traders, NEW s \in Symbols,
           ProcessMessage(t, id, s)
    PROVE  ServerInv'
<1>1. TypeOK
  BY DEF ServerInv
<1>2. TypeOK'
  <2>1. orders' \in 0 .. MaxOrders
    BY <1>1 DEF ProcessMessage, TypeOK
  <2>2. /\ pc' \in [Threads -> Stages]
        /\ trader' \in [Threads -> Traders \cup {None}]
        /\ symbol' \in [Threads -> Symbols \cup {None}]
    BY <1>1 DEF ProcessMessage, Goto, TypeOK, Stages
  <2>3. UNCHANGED <<traders, accounts, orderBooks, resting, made, mutex, book, parties,
                    passed>>
    BY DEF ProcessMessage, maps
  <2>4. QED
    BY <1>1, <2>1, <2>2, <2>3 DEF TypeOK, Objects
<1>3. \A u \in Threads : ThreadInv(u)'
  BY DEF ProcessMessage, Goto, ServerInv, TypeOK, ThreadInv, Validated, NoBook, maps
<1>4. QED
  BY <1>2, <1>3 DEF ProcessMessage, ServerInv, maps

LEMMA LockTradersStep ==
    ASSUME ServerInv, NEW t \in Threads, LockTraders(t)
    PROVE  ServerInv'
<1>1. TypeOK
  BY DEF ServerInv
<1>2. TypeOK'
  BY <1>1 DEF LockTraders, Lock, Goto, TypeOK, Stages, Mutexes, maps, Objects
<1>3. \A u \in Threads : ThreadInv(u)'
  BY DEF LockTraders, Goto, ServerInv, TypeOK, ThreadInv, Validated, NoBook, maps
<1>4. QED
  BY <1>2, <1>3 DEF LockTraders, ServerInv, maps

(* The maps of traders and accounts get the same new entry, if any. *)
LEMMA CreateTraderStep ==
    ASSUME ServerInv, NEW t \in Threads, CreateTrader(t)
    PROVE  ServerInv'
<1>1. trader[t] \in Traders /\ IsMap(traders, Traders, Objects) /\ traders = accounts
  BY DEF CreateTrader, ServerInv, TypeOK, ThreadInv
<1>2. /\ made' \in Nat /\ Objects \subseteq Objects'
      /\ IsMap(traders', Traders, Objects') /\ accounts' = traders'
      /\ DOMAIN traders \subseteq DOMAIN traders'
      /\ \A id \in DOMAIN traders : traders'[id] = traders[id]
  <2>1. CASE trader[t] \in DOMAIN traders
    BY <1>1, <2>1 DEF CreateTrader, AddTrader, ServerInv, TypeOK, Objects
  <2>2. CASE trader[t] \notin DOMAIN traders
    <3>1. /\ made' = made + 1
          /\ traders' = With(traders, trader[t], made')
          /\ accounts' = With(accounts, trader[t], made')
      BY <2>2 DEF CreateTrader, AddTrader
    <3>2. made' \in Nat /\ made' \in Objects' /\ Objects \subseteq Objects'
      BY <3>1, OneMoreObject DEF ServerInv
    <3>3. IsMap(traders, Traders, Objects')
      BY <1>1, <3>2, IsMapOfMore
    <3>4. /\ IsMap(With(traders, trader[t], made'), Traders, Objects')
          /\ DOMAIN With(traders, trader[t], made') = DOMAIN traders \cup {trader[t]}
          /\ \A id \in DOMAIN traders :
                id # trader[t] => With(traders, trader[t], made')[id] = traders[id]
      BY <1>1, <3>2, <3>3 DEF IsMap, With
    <3>5. QED
      BY <1>1, <2>2, <3>1, <3>2, <3>4
  <2>3. QED
    BY <2>1, <2>2
<1>3. /\ UNCHANGED <<orderBooks, resting, symbol, book, parties, passed, orders>>
      /\ pc' = [pc EXCEPT ![t] = "idle"] /\ trader' = [trader EXCEPT ![t] = None]
      /\ mutex' = [mutex EXCEPT !["tradersMutex_"] = None] /\ pc[t] = "create"
  BY DEF CreateTrader, Goto, Unlock
<1>4. TypeOK'
  <2>1. TypeOK
    BY DEF ServerInv
  <2>2. /\ IsMap(orderBooks', Symbols, Objects')
        /\ IsMap(resting', Objects', SUBSET Traders)
        /\ \A u \in Threads : IsMap(passed'[u], Traders, Objects' \cup {None})
    <3>1. IsMap(orderBooks, Symbols, Objects')
      BY <1>2, <2>1, IsMapOfMore DEF TypeOK
    <3>2. IsMap(resting, Objects', SUBSET Traders)
      BY <1>2, <2>1 DEF TypeOK, IsMap
    <3>3. \A u \in Threads : IsMap(passed[u], Traders, Objects' \cup {None})
      <4>1. Objects \cup {None} \subseteq Objects' \cup {None}
        BY <1>2
      <4>2. QED
        BY <2>1, <4>1, IsMapOfMore DEF TypeOK
    <3>4. QED
      BY <1>3, <3>1, <3>2, <3>3
  <2>3. QED
    BY <1>2, <1>3, <2>1, <2>2 DEF TypeOK, Stages, Mutexes
<1>5. \A u \in Threads : ThreadInv(u)'
  BY <1>2, <1>3 DEF ServerInv, TypeOK, ThreadInv, Validated, NoBook
<1>6. QED
  BY <1>2, <1>3, <1>4, <1>5 DEF ServerInv

(* The thread is done with its order. *)
LEMMA AnswerType ==
    ASSUME TypeOK, NEW t \in Threads, Answer(t),
           UNCHANGED <<maps, made, mutex, orders>>,
           IsMap(resting', Objects, SUBSET Traders), DOMAIN resting' = DOMAIN resting
    PROVE  TypeOK'
<1>1. \A u \in Threads : IsMap(passed'[u], Traders, Objects' \cup {None})
  <2>1. IsMap(NoEntries, Traders, Objects \cup {None}) /\ Objects' = Objects
    BY NoEntriesIsMap DEF Objects
  <2>2. passed' = [passed EXCEPT ![t] = NoEntries]
    BY DEF Answer
  <2>3. passed'[t] = NoEntries /\ \A u \in Threads : u # t => passed'[u] = passed[u]
    BY <2>2 DEF TypeOK
  <2>4. QED
    BY <2>1, <2>3 DEF TypeOK
<1>2. /\ made' \in Nat
      /\ IsMap(traders', Traders, Objects') /\ IsMap(accounts', Traders, Objects')
      /\ IsMap(orderBooks', Symbols, Objects')
      /\ IsMap(resting', Objects', SUBSET Traders)
      /\ mutex' \in [Mutexes -> Threads \cup {None}]
      /\ orders' \in 0 .. MaxOrders
  BY DEF TypeOK, maps, Objects
<1>3. /\ pc' \in [Threads -> Stages]
      /\ trader' \in [Threads -> Traders \cup {None}]
      /\ symbol' \in [Threads -> Symbols \cup {None}]
      /\ book' \in [Threads -> (DOMAIN resting') \cup {None}]
      /\ parties' \in [Threads -> SUBSET Traders]
      /\ DOMAIN passed' = Threads
  BY DEF Answer, Goto, TypeOK, Stages
<1>4. QED
  BY <1>1, <1>2, <1>3 DEF TypeOK

LEMMA AnsweredThread ==
    ASSUME TypeOK, NEW t \in Threads, Answer(t)
    PROVE  ThreadInv(t)'
<1>1. /\ pc'[t] = "idle" /\ book'[t] = None /\ parties'[t] = {}
      /\ passed'[t] = NoEntries
  BY DEF Answer, Goto, TypeOK
<1>2. DOMAIN NoEntries = {}
  BY NoEntriesIsMap
<1>3. QED
  BY <1>1, <1>2 DEF ThreadInv, Validated, NoBook

(* The threads that did not step, where no map lost an entry. *)
LEMMA OtherThreads ==
    ASSUME ServerInv, NEW t \in Threads, NEW u \in Threads, u # t,
           pc'[u] = pc[u], trader'[u] = trader[u], symbol'[u] = symbol[u],
           book'[u] = book[u], parties'[u] = parties[u], passed'[u] = passed[u],
           UNCHANGED traders, DOMAIN orderBooks \subseteq DOMAIN orderBooks',
           \A s \in DOMAIN orderBooks : orderBooks'[s] = orderBooks[s]
    PROVE  ThreadInv(u)'
BY DEF ServerInv, ThreadInv

LEMMA OthersAfterAnswer ==
    ASSUME ServerInv, NEW t \in Threads, Answer(t), UNCHANGED <<traders, orderBooks>>,
           NEW u \in Threads, u # t
    PROVE  ThreadInv(u)'
<1>1. /\ pc'[u] = pc[u] /\ trader'[u] = trader[u] /\ symbol'[u] = symbol[u]
      /\ book'[u] = book[u] /\ parties'[u] = parties[u] /\ passed'[u] = passed[u]
  BY DEF Answer, Goto, ServerInv, TypeOK
<1>2. QED
  BY <1>1, OtherThreads

LEMMA ValidateStep ==
    ASSUME ServerInv, NEW t \in Threads, Validate(t)
    PROVE  ServerInv'
<1>1. CASE trader[t] \in DOMAIN traders
  <2>1. /\ pc[t] = "validate" /\ pc' = [pc EXCEPT ![t] = "book"]
        /\ UNCHANGED <<trader, symbol, book, parties, passed>>
        /\ UNCHANGED <<maps, resting, made, mutex, orders>>
    BY <1>1 DEF Validate, Goto
  <2>2. TypeOK
    BY DEF ServerInv
  <2>3. TypeOK'
    BY <2>1, <2>2 DEF TypeOK, Stages, maps, Objects
  <2>4. \A u \in Threads : ThreadInv(u)'
    BY <1>1, <2>1 DEF ServerInv, TypeOK, ThreadInv, Validated, NoBook, maps
  <2>5. QED
    BY <2>1, <2>3, <2>4 DEF ServerInv, maps
<1>2. CASE trader[t] \notin DOMAIN traders
  <2>1. Answer(t) /\ UNCHANGED <<maps, resting, made, mutex, orders>>
    BY <1>2 DEF Validate
  <2>2. TypeOK'
    BY <2>1, AnswerType DEF ServerInv, TypeOK
  <2>3. ThreadInv(t)'
    BY <2>1, AnsweredThread DEF ServerInv
  <2>4. \A u \in Threads : u # t => ThreadInv(u)'
    BY <2>1, OthersAfterAnswer DEF maps
  <2>5. QED
    BY <2>1, <2>2, <2>3, <2>4 DEF ServerInv, maps
<1>3. QED
  BY <1>1, <1>2

(* A book is found or made, and no other is replaced. *)
LEMMA GetOrderBookMaps ==
    ASSUME ServerInv, NEW s \in Symbols, GetOrderBook(s), UNCHANGED traders
    PROVE  /\ made' \in Nat /\ Objects \subseteq Objects'
           /\ IsMap(orderBooks', Symbols, Objects')
           /\ IsMap(resting', Objects', SUBSET Traders)
           /\ DOMAIN orderBooks' = DOMAIN orderBooks \cup {s}
           /\ DOMAIN resting \subseteq DOMAIN resting'
           /\ \A r \in DOMAIN orderBooks : orderBooks'[r] = orderBooks[r]
           /\ \A r \in DOMAIN orderBooks' : orderBooks'[r] \in DOMAIN resting'
           /\ \A b \in DOMAIN resting' : resting'[b] \subseteq DOMAIN traders'
<1>1. CASE s \in DOMAIN orderBooks
  <2>1. UNCHANGED <<orderBooks, resting, made>>
    BY <1>1 DEF GetOrderBook
  <2>2. Objects' = Objects
    BY <2>1 DEF Objects
  <2>3. /\ made \in Nat /\ IsMap(orderBooks, Symbols, Objects)
        /\ IsMap(resting, Objects, SUBSET Traders)
    BY DEF ServerInv, TypeOK
  <2>4. /\ \A r \in DOMAIN orderBooks : orderBooks[r] \in DOMAIN resting
        /\ \A b \in DOMAIN resting : resting[b] \subseteq DOMAIN traders
    BY DEF ServerInv
  <2>5. DOMAIN orderBooks = DOMAIN orderBooks \cup {s}
    BY <1>1
  <2>6. QED
    BY <2>1, <2>2, <2>3, <2>4, <2>5
<1>2. CASE s \notin DOMAIN orderBooks
  <2>1. /\ made' = made + 1
        /\ orderBooks' = With(orderBooks, s, made')
        /\ resting' = With(resting, made', {})
    BY <1>2 DEF GetOrderBook
  <2>2. /\ made' \in Nat /\ made' \in Objects' /\ made' \notin Objects
        /\ Objects \subseteq Objects'
    BY <2>1, OneMoreObject DEF ServerInv
  <2>3. /\ IsMap(orderBooks, Symbols, Objects')
        /\ IsMap(resting, Objects', SUBSET Traders)
        /\ DOMAIN resting \subseteq Objects
    BY <2>2 DEF ServerInv, TypeOK, IsMap
  <2>4. /\ IsMap(orderBooks', Symbols, Objects')
        /\ DOMAIN orderBooks' = DOMAIN orderBooks \cup {s}
        /\ orderBooks'[s] = made'
        /\ \A r \in DOMAIN orderBooks : r # s => orderBooks'[r] = orderBooks[r]
    <3>1. /\ IsMap(With(orderBooks, s, made'), Symbols, Objects')
          /\ DOMAIN With(orderBooks, s, made') = DOMAIN orderBooks \cup {s}
          /\ With(orderBooks, s, made')[s] = made'
          /\ \A r \in DOMAIN orderBooks :
                r # s => With(orderBooks, s, made')[r] = orderBooks[r]
      BY <2>2, <2>3 DEF IsMap, With
    <3>2. QED
      BY <2>1, <3>1
  <2>5. {} \in SUBSET Traders
    OBVIOUS
  <2>6. /\ IsMap(resting', Objects', SUBSET Traders)
        /\ DOMAIN resting' = DOMAIN resting \cup {made'}
        /\ resting'[made'] = {}
        /\ \A b \in DOMAIN resting : b # made' => resting'[b] = resting[b]
    <3>1. /\ IsMap(With(resting, made', {}), Objects', SUBSET Traders)
          /\ DOMAIN With(resting, made', {}) = DOMAIN resting \cup {made'}
          /\ With(resting, made', {})[made'] = {}
          /\ \A b \in DOMAIN resting :
                b # made' => With(resting, made', {})[b] = resting[b]
      BY <2>2, <2>3, <2>5 DEF IsMap, With
    <3>2. QED
      BY <2>1, <3>1
  <2>7. QED
    BY <1>2, <2>2, <2>3, <2>4, <2>6 DEF ServerInv
<1>3. QED
  BY <1>1, <1>2

LEMMA FindBookStep ==
    ASSUME ServerInv, NEW t \in Threads, FindBook(t)
    PROVE  ServerInv'
<1>1. symbol[t] \in Symbols /\ trader[t] \in DOMAIN traders
  BY DEF FindBook, ServerInv, TypeOK, ThreadInv, Validated
<1>2. UNCHANGED <<traders, accounts, mutex, trader, symbol, parties, passed, orders>>
  BY DEF FindBook
<1>3. /\ made' \in Nat /\ Objects \subseteq Objects'
      /\ IsMap(orderBooks', Symbols, Objects')
      /\ IsMap(resting', Objects', SUBSET Traders)
      /\ DOMAIN orderBooks' = DOMAIN orderBooks \cup {symbol[t]}
      /\ DOMAIN resting \subseteq DOMAIN resting'
      /\ \A r \in DOMAIN orderBooks : orderBooks'[r] = orderBooks[r]
      /\ \A r \in DOMAIN orderBooks' : orderBooks'[r] \in DOMAIN resting'
      /\ \A b \in DOMAIN resting' : resting'[b] \subseteq DOMAIN traders'
  BY <1>1, <1>2, GetOrderBookMaps DEF FindBook
<1>4. /\ book' = [book EXCEPT ![t] = orderBooks'[symbol[t]]]
      /\ orderBooks'[symbol[t]] \in DOMAIN resting'
      /\ orderBooks'[symbol[t]] \in Objects' /\ orderBooks'[symbol[t]] # None
  BY <1>1, <1>3 DEF FindBook, IsMap, Objects
<1>5. /\ pc' = [pc EXCEPT ![t] = "match"] /\ pc[t] = "book"
  BY DEF FindBook, Goto
<1>6. TypeOK'
  <2>1. /\ IsMap(traders', Traders, Objects') /\ IsMap(accounts', Traders, Objects')
        /\ \A u \in Threads : IsMap(passed'[u], Traders, Objects' \cup {None})
    BY <1>2, <1>3 DEF ServerInv, TypeOK, IsMap
  <2>2. book' \in [Threads -> (DOMAIN resting') \cup {None}]
    BY <1>3, <1>4 DEF ServerInv, TypeOK
  <2>3. QED
    BY <1>2, <1>3, <1>5, <2>1, <2>2 DEF ServerInv, TypeOK, Stages
<1>7. \A u \in Threads : u # t => ThreadInv(u)'
  BY <1>2, <1>3, <1>4, <1>5, OtherThreads DEF ServerInv, TypeOK
<1>8. ThreadInv(t)'
  BY <1>1, <1>2, <1>3, <1>4, <1>5 DEF ServerInv, TypeOK, ThreadInv, Validated, NoBook
<1>9. QED
  BY <1>2, <1>3, <1>6, <1>7, <1>8 DEF ServerInv

(* Whoever trades has been validated or has an order of a validated trader. *)
LEMMA MatchStep ==
    ASSUME ServerInv, NEW t \in Threads, Match(t)
    PROVE  ServerInv'
<1>1. /\ pc[t] = "match" /\ book[t] \in DOMAIN resting
      /\ trader[t] \in DOMAIN traders /\ DOMAIN traders \subseteq Traders
      /\ UNCHANGED <<maps, made, mutex, orders>>
  BY DEF Match, ServerInv, TypeOK, ThreadInv, Validated, NoBook, IsMap
<1>2. PICK met \in SUBSET resting[book[t]], rests \in SUBSET {trader[t]} :
        /\ \E gone \in SUBSET met :
              resting' = [resting EXCEPT ![book[t]] = (@ \ gone) \cup rests]
        /\ IF met = {}
           THEN Answer(t)
           ELSE /\ parties' = [parties EXCEPT ![t] = met \cup {trader[t]}]
                /\ Goto(t, "settle")
                /\ UNCHANGED <<trader, symbol, book, passed>>
  BY DEF Match
<1>3. PICK gone \in SUBSET met :
        resting' = [resting EXCEPT ![book[t]] = (@ \ gone) \cup rests]
  BY <1>2
<1>4. /\ IsMap(resting', Objects, SUBSET Traders) /\ DOMAIN resting' = DOMAIN resting
      /\ \A b \in DOMAIN resting' : resting'[b] \subseteq DOMAIN traders
      /\ met \cup {trader[t]} \subseteq DOMAIN traders
  BY <1>1, <1>3 DEF ServerInv, TypeOK, IsMap
<1>5. CASE met = {}
  <2>1. Answer(t)
    BY <1>2, <1>5
  <2>2. TypeOK'
    BY <1>1, <1>4, <2>1, AnswerType DEF ServerInv
  <2>3. ThreadInv(t)'
    BY <2>1, AnsweredThread DEF ServerInv
  <2>4. \A u \in Threads : u # t => ThreadInv(u)'
    BY <1>1, <2>1, OthersAfterAnswer DEF maps
  <2>5. QED
    BY <1>1, <1>4, <2>2, <2>3, <2>4 DEF ServerInv, maps
<1>6. CASE met # {}
  <2>1. /\ parties' = [parties EXCEPT ![t] = met \cup {trader[t]}]
        /\ pc' = [pc EXCEPT ![t] = "settle"]
        /\ UNCHANGED <<trader, symbol, book, passed>>
    BY <1>2, <1>6 DEF Goto
  <2>2. TypeOK'
    BY <1>1, <1>4, <2>1 DEF ServerInv, TypeOK, Stages, maps, Objects
  <2>3. \A u \in Threads : u # t => ThreadInv(u)'
    BY <1>1, <2>1, OtherThreads DEF ServerInv, TypeOK, maps
  <2>4. ThreadInv(t)'
    BY <1>1, <1>4, <2>1 DEF ServerInv, TypeOK, ThreadInv, Validated, NoBook, maps
  <2>5. QED
    BY <1>1, <1>4, <2>2, <2>3, <2>4 DEF ServerInv, maps
<1>7. QED
  BY <1>5, <1>6

LEMMA LockAccountsStep ==
    ASSUME ServerInv, NEW t \in Threads, LockAccounts(t)
    PROVE  ServerInv'
<1>1. TypeOK
  BY DEF ServerInv
<1>2. TypeOK'
  BY <1>1 DEF LockAccounts, Lock, Goto, TypeOK, Stages, Mutexes, maps, Objects
<1>3. \A u \in Threads : ThreadInv(u)'
  BY DEF LockAccounts, Goto, ServerInv, TypeOK, ThreadInv, Validated, NoBook, maps
<1>4. QED
  BY <1>2, <1>3 DEF LockAccounts, ServerInv, maps

(* A party is looked up, and is found. *)
LEMMA GetTraderStep ==
    ASSUME ServerInv, NEW t \in Threads, NEW id \in Traders, GetTrader(t, id)
    PROVE  ServerInv'
<1>1. id \in DOMAIN traders /\ traders[id] \in Objects /\ pc[t] = "gather"
  BY DEF GetTrader, ServerInv, TypeOK, ThreadInv, IsMap
<1>2. /\ passed' = [passed EXCEPT ![t] = With(@, id, traders[id])]
      /\ UNCHANGED <<maps, resting, made, mutex, pc, trader, symbol, book, parties, orders>>
  BY <1>1 DEF GetTrader
<1>3. passed[t] = passed[t] /\ IsMap(passed[t], Traders, Objects \cup {None})
  BY DEF ServerInv, TypeOK
<1>4. /\ IsMap(With(passed[t], id, traders[id]), Traders, Objects \cup {None})
      /\ DOMAIN With(passed[t], id, traders[id]) = DOMAIN passed[t] \cup {id}
      /\ With(passed[t], id, traders[id])[id] = traders[id]
      /\ \A j \in DOMAIN passed[t] : j # id =>
            With(passed[t], id, traders[id])[j] = passed[t][j]
  BY <1>1, <1>3, WithIsMap
<1>5. /\ passed'[t] = With(passed[t], id, traders[id])
      /\ \A u \in Threads : u # t => passed'[u] = passed[u]
  BY <1>2 DEF ServerInv, TypeOK
<1>6. TypeOK'
  BY <1>2, <1>4, <1>5 DEF ServerInv, TypeOK, maps, Objects
<1>7. \A u \in Threads : u # t => ThreadInv(u)'
  BY <1>2, <1>5, OtherThreads DEF maps
<1>8. ThreadInv(t)'
  BY <1>1, <1>2, <1>4, <1>5 DEF ServerInv, ThreadInv, Validated, NoBook, maps
<1>9. QED
  BY <1>2, <1>6, <1>7, <1>8 DEF ServerInv, maps

LEMMA GatheredStep ==
    ASSUME ServerInv, NEW t \in Threads, Gathered(t)
    PROVE  ServerInv'
<1>1. TypeOK
  BY DEF ServerInv
<1>2. TypeOK'
  BY <1>1 DEF Gathered, Unlock, Goto, TypeOK, Stages, Mutexes, maps, Objects
<1>3. \A u \in Threads : ThreadInv(u)'
  BY DEF Gathered, Goto, ServerInv, TypeOK, ThreadInv, Validated, NoBook, maps
<1>4. QED
  BY <1>2, <1>3 DEF Gathered, ServerInv, maps

LEMMA SettleStep ==
    ASSUME ServerInv, NEW t \in Threads, Settle(t)
    PROVE  ServerInv'
<1>1. Answer(t) /\ UNCHANGED <<maps, resting, made, mutex, orders>>
  BY DEF Settle
<1>2. TypeOK'
  BY <1>1, AnswerType DEF ServerInv, TypeOK
<1>3. ThreadInv(t)'
  BY <1>1, AnsweredThread DEF ServerInv
<1>4. \A u \in Threads : u # t => ThreadInv(u)'
  BY <1>1, OthersAfterAnswer DEF maps
<1>5. QED
  BY <1>1, <1>2, <1>3, <1>4 DEF ServerInv, maps

LEMMA WebGetOrderBookStep ==
    ASSUME ServerInv, NEW s \in Symbols, WebGetOrderBook(s)
    PROVE  ServerInv'
<1>1. UNCHANGED <<traders, accounts, mutex, local, orders>>
  BY DEF WebGetOrderBook
<1>2. /\ made' \in Nat /\ Objects \subseteq Objects'
      /\ IsMap(orderBooks', Symbols, Objects')
      /\ IsMap(resting', Objects', SUBSET Traders)
      /\ DOMAIN orderBooks \subseteq DOMAIN orderBooks'
      /\ DOMAIN resting \subseteq DOMAIN resting'
      /\ \A r \in DOMAIN orderBooks : orderBooks'[r] = orderBooks[r]
      /\ \A r \in DOMAIN orderBooks' : orderBooks'[r] \in DOMAIN resting'
      /\ \A b \in DOMAIN resting' : resting'[b] \subseteq DOMAIN traders'
  BY <1>1, GetOrderBookMaps DEF WebGetOrderBook
<1>3. TypeOK'
  <2>1. /\ IsMap(traders', Traders, Objects') /\ IsMap(accounts', Traders, Objects')
        /\ \A u \in Threads : IsMap(passed'[u], Traders, Objects' \cup {None})
    BY <1>1, <1>2 DEF local, ServerInv, TypeOK, IsMap
  <2>2. TypeOK /\ UNCHANGED <<pc, trader, symbol, book, parties, passed, mutex, orders>>
    BY <1>1 DEF local, ServerInv
  <2>3. QED
    BY <1>2, <2>1, <2>2 DEF TypeOK
<1>4. \A u \in Threads : ThreadInv(u)'
  BY <1>1, <1>2 DEF local, ServerInv, ThreadInv
<1>5. QED
  BY <1>1, <1>2, <1>3, <1>4 DEF ServerInv

LEMMA ServerStep == ServerInv /\ [Next]_vars => ServerInv'
<1>1. ASSUME ServerInv, UNCHANGED vars PROVE ServerInv'
  <2>1. /\ UNCHANGED <<traders, accounts, orderBooks, resting, made, mutex>>
        /\ UNCHANGED <<pc, trader, symbol, book, parties, passed, orders>>
    BY <1>1 DEF vars, maps, local
  <2>2. TypeOK'
    BY <1>1, <2>1 DEF ServerInv, TypeOK, Objects
  <2>3. \A u \in Threads : ThreadInv(u)'
    BY <1>1, <2>1 DEF ServerInv, ThreadInv
  <2>4. QED
    BY <1>1, <2>1, <2>2, <2>3 DEF ServerInv
<1>2. ASSUME ServerInv, NEW t \in Threads, Continue(t) PROVE ServerInv'
  BY <1>2, LockTradersStep, CreateTraderStep, ValidateStep, FindBookStep, MatchStep,
     LockAccountsStep, GetTraderStep, GatheredStep, SettleStep DEF Continue, Bookkeeping, CallsOut
<1>3. QED
  BY <1>1, <1>2, RegisterMessageStep, ProcessMessageStep, WebGetOrderBookStep DEF Next

LEMMA ServerAlways == Spec => []ServerInv
BY ServerInitially, ServerStep, PTL DEF Spec

(* The variables of the server have their types throughout. *)
THEOREM ServerTypesCorrect == Spec => []TypeOK
<1>1. ServerInv => TypeOK
  BY DEF ServerInv
<1>2. QED
  BY <1>1, ServerAlways, PTL

(* submitOrder and getOrderBook hand out one book for a symbol. *)
THEOREM BooksAreUnique == Spec => []OneBookPerSymbol
<1>1. ServerInv => OneBookPerSymbol
  BY DEF ServerInv, ThreadInv, OneBookPerSymbol
<1>2. QED
  BY <1>1, ServerAlways, PTL

(* Whoever registers again, or looks an account up while others register, finds
   the account that was made first, and no other ever takes its place. *)
THEOREM AccountsAreUnique == Spec => OneAccountPerTrader
<1> DEFINE Kept == \A id \in DOMAIN accounts :
                      id \in DOMAIN accounts' /\ accounts'[id] = accounts[id]
<1>1. ASSUME ServerInv, [Next]_vars
      PROVE  Kept
  <2>1. ASSUME NEW t \in Threads, CreateTrader(t)
        PROVE  Kept
    <3>1. CASE trader[t] \in DOMAIN traders
      BY <2>1, <3>1 DEF CreateTrader, AddTrader
    <3>2. CASE trader[t] \notin DOMAIN traders
      <4>1. accounts' = With(accounts, trader[t], made')
        BY <2>1, <3>2 DEF CreateTrader, AddTrader
      <4>2. trader[t] \notin DOMAIN accounts
        BY <1>1, <3>2 DEF ServerInv
      <4>3. QED
        BY <4>1, <4>2 DEF With
    <3>3. QED
      BY <3>1, <3>2
  <2>2. (\A t \in Threads : ~ CreateTrader(t)) => accounts' = accounts
    BY <1>1, Zenon DEF Next, Continue, Bookkeeping, CallsOut, RegisterMessage, ProcessMessage,
       LockTraders, Validate, FindBook, Match, LockAccounts, GetTrader, Gathered,
       Settle, WebGetOrderBook, GetOrderBook, maps, vars
  <2>3. QED
    BY <2>1, <2>2
<1>2. ServerInv /\ ServerInv' /\ [Next]_vars =>
         \A id \in DOMAIN accounts :
            /\ id \in DOMAIN accounts' /\ accounts'[id] = accounts[id]
            /\ id \in DOMAIN traders' /\ traders'[id] = accounts[id]
            /\ \A t \in Threads :
                  id \in DOMAIN passed'[t] => passed'[t][id] = accounts[id]
  <2>1. SUFFICES ASSUME ServerInv, ServerInv', Kept
                 PROVE  \A id \in DOMAIN accounts :
                           /\ id \in DOMAIN traders' /\ traders'[id] = accounts[id]
                           /\ \A t \in Threads :
                                 id \in DOMAIN passed'[t] => passed'[t][id] = accounts[id]
    BY <1>1
  <2>2. traders' = accounts'
    BY <2>1 DEF ServerInv
  <2>3. \A t \in Threads : \A id \in DOMAIN passed'[t] : passed'[t][id] = traders'[id]
    BY <2>1 DEF ServerInv, ThreadInv
  <2>4. QED
    BY <2>1, <2>2, <2>3
<1> HIDE DEF Kept
<1>3. QED
  BY <1>2, ServerAlways, PTL DEF Spec, OneAccountPerTrader

(* settleTrades is passed the accounts of all parties of its trades. *)
THEOREM EveryPartyHasAccount == Spec => []AccountsComplete
<1>1. ServerInv => AccountsComplete
  BY DEF ServerInv, TypeOK, IsMap, Objects, ThreadInv, AccountsComplete
<1>2. QED
  BY <1>1, ServerAlways, PTL

----------------------------------------------------------------------------
(* The mutexes. *)

(* tradersMutex_ is held while a trader is made, accountsMutex_ while the
   accounts of an order are collected, each by the thread that does so. *)
HeldInv ==
    /\ \A t \in Threads : mutex["tradersMutex_"] = t <=> pc[t] = "create"
    /\ \A t \in Threads : mutex["accountsMutex_"] = t <=> pc[t] = "gather"

SomeoneGoesOn ==
    (\E t \in Threads : pc[t] # "idle") => \E t \in Threads : CanContinue(t)

LEMMA HeldInitially == Init => HeldInv
BY ServerAssumption DEF Init, HeldInv, Mutexes

(* A thread that goes on to a stage, and what it does to the mutexes. *)
LEMMA HeldStep ==
    ASSUME TypeOK, HeldInv, NEW t \in Threads, NEW stage \in Stages, Goto(t, stage),
           \/ /\ UNCHANGED mutex
              /\ pc[t] \notin {"create", "gather"} /\ stage \notin {"create", "gather"}
           \/ Lock(t, "tradersMutex_") /\ stage = "create" /\ pc[t] # "gather"
           \/ Lock(t, "accountsMutex_") /\ stage = "gather" /\ pc[t] # "create"
           \/ Unlock("tradersMutex_") /\ pc[t] = "create" /\ stage \notin {"create", "gather"}
           \/ Unlock("accountsMutex_") /\ pc[t] = "gather" /\ stage \notin {"create", "gather"}
    PROVE  HeldInv'
<1>1. /\ mutex \in [Mutexes -> Threads \cup {None}] /\ pc \in [Threads -> Stages]
      /\ None \notin Threads
  BY ServerAssumption DEF TypeOK
<1>2. /\ pc'[t] = stage
      /\ \A u \in Threads : u # t => pc'[u] = pc[u]
  BY <1>1 DEF Goto
<1>3. CASE /\ UNCHANGED mutex
           /\ pc[t] \notin {"create", "gather"} /\ stage \notin {"create", "gather"}
  BY <1>2, <1>3 DEF HeldInv
<1>4. CASE Lock(t, "tradersMutex_") /\ stage = "create" /\ pc[t] # "gather"
  <2>1. /\ mutex["tradersMutex_"] = None /\ mutex'["tradersMutex_"] = t
        /\ mutex'["accountsMutex_"] = mutex["accountsMutex_"]
    BY <1>1, <1>4 DEF Lock, Mutexes
  <2>2. QED
    BY <1>1, <1>2, <1>4, <2>1 DEF HeldInv
<1>5. CASE Lock(t, "accountsMutex_") /\ stage = "gather" /\ pc[t] # "create"
  <2>1. /\ mutex["accountsMutex_"] = None /\ mutex'["accountsMutex_"] = t
        /\ mutex'["tradersMutex_"] = mutex["tradersMutex_"]
    BY <1>1, <1>5 DEF Lock, Mutexes
  <2>2. QED
    BY <1>1, <1>2, <1>5, <2>1 DEF HeldInv
<1>6. CASE Unlock("tradersMutex_") /\ pc[t] = "create" /\ stage \notin {"create", "gather"}
  <2>1. /\ mutex["tradersMutex_"] = t /\ mutex'["tradersMutex_"] = None
        /\ mutex'["accountsMutex_"] = mutex["accountsMutex_"]
    BY <1>1, <1>6 DEF Unlock, Mutexes, HeldInv
  <2>2. QED
    BY <1>1, <1>2, <1>6, <2>1 DEF HeldInv
<1>7. CASE Unlock("accountsMutex_") /\ pc[t] = "gather" /\ stage \notin {"create", "gather"}
  <2>1. /\ mutex["accountsMutex_"] = t /\ mutex'["accountsMutex_"] = None
        /\ mutex'["tradersMutex_"] = mutex["tradersMutex_"]
    BY <1>1, <1>7 DEF Unlock, Mutexes, HeldInv
  <2>2. QED
    BY <1>1, <1>2, <1>7, <2>1 DEF HeldInv
<1>8. QED
  BY <1>3, <1>4, <1>5, <1>6, <1>7

LEMMA HeldNext == TypeOK /\ HeldInv /\ [Next]_vars => HeldInv'
<1>1. SUFFICES ASSUME TypeOK, HeldInv, [Next]_vars
               PROVE  HeldInv'
  OBVIOUS
<1>2. ASSUME NEW t \in Threads, NEW id \in Traders, RegisterMessage(t, id)
      PROVE  HeldInv'
  BY <1>1, <1>2, HeldStep DEF RegisterMessage, Stages
<1>3. ASSUME NEW t \in Threads, NEW id \in Traders, NEW s \in Symbols,
             ProcessMessage(t, id, s)
      PROVE  HeldInv'
  BY <1>1, <1>3, HeldStep DEF ProcessMessage, Stages
<1>4. ASSUME NEW t \in Threads, LockTraders(t)
      PROVE  HeldInv'
  BY <1>1, <1>4, HeldStep DEF LockTraders, Stages
<1>5. ASSUME NEW t \in Threads, CreateTrader(t)
      PROVE  HeldInv'
  BY <1>1, <1>5, HeldStep DEF CreateTrader, Stages
<1>6. ASSUME NEW t \in Threads, Validate(t)
      PROVE  HeldInv'
  <2>1. UNCHANGED mutex /\ pc[t] = "validate" /\ (Goto(t, "book") \/ Goto(t, "idle"))
    BY <1>6 DEF Validate, Answer
  <2>2. QED
    BY <1>1, <2>1, HeldStep DEF Stages
<1>7. ASSUME NEW t \in Threads, FindBook(t)
      PROVE  HeldInv'
  BY <1>1, <1>7, HeldStep DEF FindBook, Stages
<1>8. ASSUME NEW t \in Threads, Match(t)
      PROVE  HeldInv'
  <2>1. UNCHANGED mutex /\ pc[t] = "match" /\ (Goto(t, "settle") \/ Goto(t, "idle"))
    BY <1>8 DEF Match, Answer
  <2>2. QED
    BY <1>1, <2>1, HeldStep DEF Stages
<1>9. ASSUME NEW t \in Threads, LockAccounts(t)
      PROVE  HeldInv'
  BY <1>1, <1>9, HeldStep DEF LockAccounts, Stages
<1>10. ASSUME NEW t \in Threads, NEW id \in Traders, GetTrader(t, id)
       PROVE  HeldInv'
  <2>1. UNCHANGED <<mutex, pc>>
    BY <1>10 DEF GetTrader
  <2>2. QED
    BY <1>1, <2>1 DEF HeldInv
<1>11. ASSUME NEW t \in Threads, Gathered(t)
       PROVE  HeldInv'
  BY <1>1, <1>11, HeldStep DEF Gathered, Stages
<1>12. ASSUME NEW t \in Threads, Settle(t)
       PROVE  HeldInv'
  BY <1>1, <1>12, HeldStep DEF Settle, Answer, Stages
<1>13. ASSUME NEW s \in Symbols, WebGetOrderBook(s)
       PROVE  HeldInv'
  BY <1>1, <1>13 DEF WebGetOrderBook, local, HeldInv
<1>14. CASE UNCHANGED vars
  BY <1>1, <1>14 DEF vars, local, HeldInv
<1>15. QED
  BY <1>1, <1>2, <1>3, <1>4, <1>5, <1>6, <1>7, <1>8, <1>9, <1>10, <1>11, <1>12, <1>13,
     <1>14 DEF Next, Continue, Bookkeeping, CallsOut

LEMMA HeldAlways == Spec => [](TypeOK /\ HeldInv)
<1>1. ServerInv => TypeOK
  BY DEF ServerInv
<1>2. QED
  BY <1>1, HeldInitially, HeldNext, ServerAlways, PTL DEF Spec

(* What a step does to a thread that handles a message. *)
LEMMA ThreadStep ==
    ASSUME TypeOK, [Next]_vars, NEW t \in Threads, pc[t] # "idle"
    PROVE  \/ Continue(t)
           \/ /\ pc'[t] = pc[t] /\ parties'[t] = parties[t]
              /\ passed'[t] = passed[t]
<1> DEFINE Stays == /\ pc'[t] = pc[t] /\ parties'[t] = parties[t]
                    /\ passed'[t] = passed[t]
<1>1. /\ pc \in [Threads -> Stages] /\ parties \in [Threads -> SUBSET Traders]
      /\ DOMAIN passed = Threads
  BY DEF TypeOK
<1>2. ASSUME NEW u \in Threads, u # t, Continue(u)
      PROVE  Stays
  <2>1. /\ \E stage \in Stages : pc' = [pc EXCEPT ![u] = stage] \/ pc' = pc
        /\ \E new : parties' = [parties EXCEPT ![u] = new] \/ parties' = parties
        /\ \E new : passed' = [passed EXCEPT ![u] = new] \/ passed' = passed
    BY <1>2, Zenon DEF Continue, Bookkeeping, CallsOut, LockTraders, CreateTrader, Validate, FindBook, Match, LockAccounts,
       GetTrader, Gathered, Settle, Answer, Goto, Stages
  <2>2. QED
    BY <1>1, <1>2, <2>1
<1>3. ASSUME NEW u \in Threads, NEW id \in Traders, RegisterMessage(u, id)
      PROVE  Stays
  BY <1>1, <1>3 DEF RegisterMessage, Goto
<1>4. ASSUME NEW u \in Threads, NEW id \in Traders, NEW s \in Symbols,
             ProcessMessage(u, id, s)
      PROVE  Stays
  BY <1>1, <1>4 DEF ProcessMessage, Goto
<1>5. CASE UNCHANGED vars \/ \E s \in Symbols : WebGetOrderBook(s)
  BY <1>5 DEF vars, local, WebGetOrderBook
<1>6. QED
  BY <1>2, <1>3, <1>4, <1>5 DEF Next

(* The stages a message goes through. *)
Onward == {<<"register", "create">>, <<"create", "idle">>, <<"validate", "book">>,
           <<"validate", "idle">>, <<"book", "match">>, <<"match", "settle">>,
           <<"match", "idle">>, <<"settle", "gather">>, <<"gather", "settling">>,
           <<"settling", "idle">>}

LEMMA ContinueMoves ==
    ASSUME TypeOK, NEW t \in Threads, Continue(t)
    PROVE  \/ <<pc[t], pc'[t]>> \in Onward
           \/ /\ pc[t] = "gather" /\ pc'[t] = pc[t] /\ parties'[t] = parties[t]
              /\ \E id \in parties[t] \ DOMAIN passed[t] :
                    DOMAIN passed'[t] = DOMAIN passed[t] \cup {id}
<1>1. /\ pc \in [Threads -> Stages] /\ DOMAIN passed = Threads
  BY DEF TypeOK
<1>2. ASSUME NEW id \in Traders, GetTrader(t, id)
      PROVE  /\ pc[t] = "gather" /\ pc'[t] = pc[t] /\ parties'[t] = parties[t]
             /\ \E x \in parties[t] \ DOMAIN passed[t] :
                    DOMAIN passed'[t] = DOMAIN passed[t] \cup {x}
  BY <1>1, <1>2 DEF GetTrader, With
<1>3. CASE \/ LockTraders(t) \/ CreateTrader(t) \/ Validate(t) \/ FindBook(t) \/ Match(t)
           \/ LockAccounts(t) \/ Gathered(t) \/ Settle(t)
  <2>1. \E stage : pc' = [pc EXCEPT ![t] = stage] /\ <<pc[t], stage>> \in Onward
    BY <1>3 DEF LockTraders, CreateTrader, Validate, FindBook, Match, LockAccounts,
       Gathered, Settle, Answer, Goto, Onward
  <2>2. QED
    BY <1>1, <2>1
<1>4. QED
  BY <1>2, <1>3 DEF Continue, Bookkeeping, CallsOut

(* submitOrder takes tradersMutex_ inside accountsMutex_, and nothing takes
   them the other way round: as long as any message is being handled, there is
   a thread whose next step waits for no mutex. *)
THEOREM NobodyWaitsInCircle == Spec => []SomeoneGoesOn
<1>1. TypeOK /\ HeldInv => SomeoneGoesOn
  <2>1. SUFFICES ASSUME TypeOK, HeldInv, NEW t \in Threads, pc[t] # "idle"
                 PROVE  \E u \in Threads : CanContinue(u)
    BY DEF SomeoneGoesOn
  <2>2. \A m \in Mutexes : mutex[m] \in Threads \cup {None}
    BY <2>1 DEF TypeOK
  <2>3. CASE mutex["tradersMutex_"] # None
    <3>1. PICK u \in Threads : mutex["tradersMutex_"] = u
      BY <2>2, <2>3 DEF Mutexes
    <3>2. pc[u] = "create"
      BY <2>1, <3>1 DEF HeldInv
    <3>3. QED
      BY <3>2 DEF CanContinue, CanKeepBooks, CallStages
  <2>4. CASE mutex["tradersMutex_"] = None /\ mutex["accountsMutex_"] # None
    <3>1. PICK u \in Threads : mutex["accountsMutex_"] = u
      BY <2>2, <2>4 DEF Mutexes
    <3>2. pc[u] = "gather"
      BY <2>1, <3>1 DEF HeldInv
    <3>3. QED
      BY <2>4, <3>2 DEF CanContinue, CanKeepBooks, CallStages
  <2>5. CASE mutex["tradersMutex_"] = None /\ mutex["accountsMutex_"] = None
    BY <2>1, <2>5 DEF CanContinue, CanKeepBooks, CallStages, TypeOK, Stages
  <2>6. QED
    BY <2>3, <2>4, <2>5
<1>2. QED
  BY <1>1, HeldAlways, PTL

(* The same of the actions themselves, for guards that are what TLC finds
   them to be: the threads never all wait for each other's mutexes. *)
THEOREM ThreadsNeverStuck == Spec /\ []GuardsEnabled => []NoDeadlock
<1>1. SomeoneGoesOn /\ GuardsEnabled => NoDeadlock
  BY DEF SomeoneGoesOn, GuardsEnabled, NoDeadlock
<1>2. QED
  BY <1>1, NobodyWaitsInCircle, PTL

----------------------------------------------------------------------------
(* Liveness: the mutex of the traders comes free again and again, and so every
   registration and the rejection or acceptance of every trader comes through. *)

MutexInv == TypeOK /\ HeldInv

Free == mutex["tradersMutex_"] = None

Holds(t) == mutex["tradersMutex_"] = t

(* What a step may do to the mutexes. *)
MutexStep ==
    \/ UNCHANGED mutex \/ Unlock("tradersMutex_") \/ Unlock("accountsMutex_")
    \/ \E u \in Threads : Lock(u, "tradersMutex_") \/ Lock(u, "accountsMutex_")

LEMMA MutexSteps == [Next]_vars => MutexStep
BY DEF MutexStep, Next, Continue, Bookkeeping, CallsOut, RegisterMessage, ProcessMessage, LockTraders, CreateTrader,
   Validate, FindBook, Match, LockAccounts, GetTrader, Gathered, Settle, WebGetOrderBook,
   vars

LEMMA HolderGivesUp ==
    ASSUME NEW t \in Threads
    PROVE  [][Next]_vars /\ []MutexInv /\ []GuardsEnabled /\ Served(t)
              => (Holds(t) ~> Free)
<1>1. MutexInv /\ Holds(t) /\ [Next]_vars => (Holds(t) \/ Free)'
  <2>1. SUFFICES ASSUME MutexInv, Holds(t), [Next]_vars
                 PROVE  mutex'["tradersMutex_"] \in {t, None}
    BY DEF Holds, Free
  <2>2. mutex \in [Mutexes -> Threads \cup {None}] /\ mutex["tradersMutex_"] # None
    BY <2>1 DEF MutexInv, TypeOK, Holds
  <2>3. MutexStep
    BY <2>1, MutexSteps
  <2>4. QED
    BY <2>1, <2>2, <2>3 DEF MutexStep, Lock, Unlock, Mutexes, Holds
<1>2. MutexInv /\ Holds(t) => CanKeepBooks(t)
  BY DEF MutexInv, HeldInv, Holds, CanKeepBooks
<1>3. MutexInv /\ Holds(t) /\ <<Bookkeeping(t)>>_vars => Free'
  <2>1. SUFFICES ASSUME MutexInv, Holds(t), Bookkeeping(t)
                 PROVE  mutex'["tradersMutex_"] = None
    BY DEF Free
  <2>2. pc[t] = "create"
    BY <2>1 DEF MutexInv, HeldInv, Holds
  <2>3. Unlock("tradersMutex_")
    BY <2>1, <2>2 DEF Bookkeeping, LockTraders, CreateTrader, Validate,
       LockAccounts, GetTrader, Gathered
  <2>4. QED
    BY <2>1, <2>3 DEF Unlock, MutexInv, TypeOK, Mutexes
<1>4. GuardsEnabled /\ CanKeepBooks(t) => ENABLED <<Bookkeeping(t)>>_vars
  BY DEF GuardsEnabled
<1>5. QED
  BY <1>1, <1>2, <1>3, <1>4, PTL DEF Served

(* Whoever holds it: again and again nobody does. *)
LEMMA ComesFree ==
    [][Next]_vars /\ []MutexInv /\ []GuardsEnabled /\ []Fairness => []<>Free
<1>1. SUFFICES ASSUME [][Next]_vars, []MutexInv, []GuardsEnabled, []Fairness
               PROVE  []<>Free
  OBVIOUS
<1>2. \A t \in Threads : Served(t)
  <2>1. Fairness
    BY <1>1, PTL
  <2>2. QED
    BY <2>1 DEF Fairness
<1>3. ASSUME NEW t \in Threads, Holds(t)
      PROVE  <>Free
  <2>1. Served(t)
    BY <1>2
  <2>2. [][Next]_vars /\ []MutexInv /\ []GuardsEnabled
    BY <1>1
  <2>3. QED
    BY <1>3, <2>1, <2>2, HolderGivesUp, PTL
<1>4. (\E t \in Threads : Holds(t)) => <>Free
  BY <1>3
<1>5. MutexInv => Free \/ \E t \in Threads : Holds(t)
  BY DEF MutexInv, TypeOK, Mutexes, Free, Holds
<1>6. QED
  BY <1>1, <1>4, <1>5, PTL

At(t, stage) == pc[t] = stage

Past(t, stage) == <<stage, pc[t]>> \in Onward

(* The stages with one step, which waits for a mutex or for nothing. *)
Waiting == {"register", "create", "validate", "settle"}

(* The mutex that a thread at a stage waits for, if any, is nobody's. *)
Clear(stage) ==
    mutex[IF stage = "settle" THEN "accountsMutex_" ELSE "tradersMutex_"] = None

(* A thread leaves its stage for the next one, if the mutex it may have to
   wait for comes free again and again. *)
LEMMA StageLeft ==
    ASSUME NEW t \in Threads, NEW stage \in Waiting
    PROVE  [][Next]_vars /\ []MutexInv /\ []GuardsEnabled /\ Served(t) /\ []<>Clear(stage)
              => (At(t, stage) ~> Past(t, stage))
<1>1. MutexInv /\ At(t, stage) /\ [Next]_vars => (At(t, stage) \/ Past(t, stage))'
  BY ThreadStep, ContinueMoves DEF MutexInv, At, Past, Waiting
<1>2. MutexInv /\ At(t, stage) /\ <<Bookkeeping(t)>>_vars => Past(t, stage)'
  BY ContinueMoves DEF MutexInv, At, Past, Continue, Waiting
<1>3. At(t, stage) /\ Clear(stage) => CanKeepBooks(t)
  BY DEF At, Clear, CanKeepBooks, Waiting
<1>4. GuardsEnabled /\ CanKeepBooks(t) => ENABLED <<Bookkeeping(t)>>_vars
  BY DEF GuardsEnabled
<1>5. QED
  BY <1>1, <1>2, <1>3, <1>4, PTL DEF Served

LEMMA MutexAlways == Spec => []MutexInv
BY HeldAlways, PTL DEF MutexInv

(* Named for the provers, which then see that a thread leaves every stage. *)
Leaves(t, stage) == At(t, stage) ~> Past(t, stage)

Cleared(stage) == []<>Clear(stage)

LEMMA StageLeaves ==
    ASSUME NEW t \in Threads, NEW stage \in Waiting
    PROVE  [][Next]_vars /\ []MutexInv /\ []GuardsEnabled /\ Served(t) /\ Cleared(stage)
              => Leaves(t, stage)
BY StageLeft, PTL DEF Leaves, Cleared

LEMMA StagesLeft ==
    ASSUME NEW t \in Threads, NEW stage \in Waiting \ {"settle"}
    PROVE  Spec /\ []Fairness /\ []GuardsEnabled => Leaves(t, stage)
<1>1. Free => Clear(stage)
  BY DEF Free, Clear
<1>2. stage \in Waiting
  OBVIOUS
<1>3. Fairness => Served(t)
  BY DEF Fairness
<1>4. [][Next]_vars /\ []MutexInv /\ []GuardsEnabled /\ Served(t) /\ Cleared(stage)
         => Leaves(t, stage)
  BY <1>2, StageLeaves
<1>5. QED
  BY <1>1, <1>3, <1>4, ComesFree, MutexAlways, PTL DEF Spec, Cleared

(* No more lookups of one party, and of any. *)
Rests(t, id) == <>[][~ GetTrader(t, id)]_vars

AllRest(t) == <>[][\A id \in Traders : ~ GetTrader(t, id)]_vars

(* What comes to an end for each trader comes to an end for all of them.  This
   is so of any behaviour if there are finitely many traders, by an induction
   over them that takes temporal formulas, which the provers do not have. *)
FinitelyManyTraders ==
    \A t \in Threads : (\A id \in Traders : Rests(t, id)) => AllRest(t)

Gathers(t) == At(t, "gather") ~> At(t, "settling")

StaysGathering(t) == <>[]At(t, "gather")

LookupsEnd == \A t \in Threads : Gathers(t)

(* A thread looks up a party once. *)
LEMMA LookedUpOnce ==
    ASSUME NEW t \in Threads, NEW id \in Traders
    PROVE  [][Next]_vars /\ []MutexInv /\ StaysGathering(t) => Rests(t, id)
<1> DEFINE Known == id \in DOMAIN passed[t]
<1>1. GetTrader(t, id) => ~ Known
  BY DEF GetTrader
<1>2. MutexInv /\ GetTrader(t, id) => Known'
  BY DEF MutexInv, TypeOK, GetTrader, With
<1>3. MutexInv /\ At(t, "gather") /\ Known /\ [Next]_vars => (Known \/ ~ At(t, "gather"))'
  <2>1. SUFFICES ASSUME MutexInv, At(t, "gather"), Known, [Next]_vars, pc'[t] = "gather"
                 PROVE  Known'
    BY DEF At
  <2>2. CASE Continue(t)
    BY <2>1, <2>2, ContinueMoves DEF MutexInv, At, Onward
  <2>3. CASE passed'[t] = passed[t]
    BY <2>1, <2>3
  <2>4. QED
    BY <2>1, <2>2, <2>3, ThreadStep DEF MutexInv, At
<1> HIDE DEF Known
<1>4. QED
  BY <1>1, <1>2, <1>3, PTL DEF Rests, StaysGathering

(* So with finitely many parties the lookups end. *)
LEMMA GatheringEnds ==
    ASSUME NEW t \in Threads
    PROVE  [][Next]_vars /\ []MutexInv /\ []GuardsEnabled /\ Served(t) /\ []<>Free
           /\ FinitelyManyTraders
              => Gathers(t)
<1>1. MutexInv /\ At(t, "gather") /\ [Next]_vars => (At(t, "gather") \/ At(t, "settling"))'
  BY ThreadStep, ContinueMoves DEF MutexInv, At, Onward
<1>2. MutexInv /\ At(t, "gather") /\ <<Bookkeeping(t)>>_vars
         => At(t, "settling")' \/ ~ (\A id \in Traders : ~ GetTrader(t, id))
  BY DEF At, Bookkeeping, LockTraders, CreateTrader, Validate, LockAccounts,
     Gathered, Goto, MutexInv, TypeOK
<1>3. At(t, "gather") /\ Free => CanKeepBooks(t)
  BY DEF At, Free, CanKeepBooks
<1>4. GuardsEnabled /\ CanKeepBooks(t) => ENABLED <<Bookkeeping(t)>>_vars
  BY DEF GuardsEnabled
<1>5. [][Next]_vars /\ []MutexInv /\ StaysGathering(t)
         => \A id \in Traders : Rests(t, id)
  BY LookedUpOnce
<1>6. FinitelyManyTraders => ((\A id \in Traders : Rests(t, id)) => AllRest(t))
  BY DEF FinitelyManyTraders
<1>7. [][Next]_vars /\ []MutexInv /\ StaysGathering(t) /\ FinitelyManyTraders => AllRest(t)
  BY <1>5, <1>6
<1>8. At(t, "settling") => ~ At(t, "gather")
  BY DEF At
<1>9. QED
  BY <1>1, <1>2, <1>3, <1>4, <1>7, <1>8, PTL DEF Served, Gathers, StaysGathering, AllRest

AccountsFree == mutex["accountsMutex_"] = None

HoldsAccounts(t) == mutex["accountsMutex_"] = t

LEMMA EveryGatheringEnds ==
    [][Next]_vars /\ []MutexInv /\ []GuardsEnabled /\ []Fairness /\ []FinitelyManyTraders
        => LookupsEnd
<1>1. [][Next]_vars /\ []MutexInv /\ []GuardsEnabled /\ Fairness /\ []<>Free
      /\ FinitelyManyTraders
         => LookupsEnd
  BY GatheringEnds DEF Fairness, LookupsEnd
<1>2. QED
  BY <1>1, ComesFree, PTL

LEMMA AccountsGivenUp ==
    ASSUME NEW t \in Threads
    PROVE  [][Next]_vars /\ []MutexInv /\ Gathers(t) => (HoldsAccounts(t) ~> AccountsFree)
<1>1. MutexInv /\ HoldsAccounts(t) /\ [Next]_vars => (HoldsAccounts(t) \/ AccountsFree)'
  <2>1. SUFFICES ASSUME MutexInv, HoldsAccounts(t), [Next]_vars
                 PROVE  mutex'["accountsMutex_"] \in {t, None}
    BY DEF HoldsAccounts, AccountsFree
  <2>2. mutex \in [Mutexes -> Threads \cup {None}] /\ mutex["accountsMutex_"] # None
    BY <2>1 DEF MutexInv, TypeOK, HoldsAccounts
  <2>3. MutexStep
    BY <2>1, MutexSteps
  <2>4. QED
    BY <2>1, <2>2, <2>3 DEF MutexStep, Lock, Unlock, Mutexes, HoldsAccounts
<1>2. MutexInv /\ HoldsAccounts(t) => At(t, "gather")
  BY DEF MutexInv, HeldInv, HoldsAccounts, At
<1>3. At(t, "settling") => ~ At(t, "gather")
  BY DEF At
<1>4. QED
  BY <1>1, <1>2, <1>3, PTL DEF Gathers

(* accountsMutex_ as well comes free again and again. *)
LEMMA AccountsComeFree ==
    [][Next]_vars /\ []MutexInv /\ []GuardsEnabled /\ []Fairness /\ []FinitelyManyTraders
        => []<>AccountsFree
<1>1. SUFFICES ASSUME [][Next]_vars, []MutexInv, []GuardsEnabled, []Fairness, []FinitelyManyTraders
               PROVE  []<>AccountsFree
  OBVIOUS
<1>2. \A t \in Threads : Gathers(t)
  <2>1. LookupsEnd
    BY <1>1, EveryGatheringEnds, PTL
  <2>2. QED
    BY <2>1 DEF LookupsEnd
<1>3. ASSUME NEW t \in Threads, HoldsAccounts(t)
      PROVE  <>AccountsFree
  <2>1. Gathers(t)
    BY <1>2
  <2>2. [][Next]_vars /\ []MutexInv
    BY <1>1
  <2>3. QED
    BY <1>3, <2>1, <2>2, AccountsGivenUp, PTL
<1>4. (\E t \in Threads : HoldsAccounts(t)) => <>AccountsFree
  BY <1>3
<1>5. MutexInv => AccountsFree \/ \E t \in Threads : HoldsAccounts(t)
  BY DEF MutexInv, TypeOK, Mutexes, AccountsFree, HoldsAccounts
<1>6. QED
  BY <1>1, <1>4, <1>5, PTL

(* Every stage but those that call out is left. *)
LEMMA RegistriesServe ==
    ASSUME NEW t \in Threads
    PROVE  Spec /\ []Fairness /\ []GuardsEnabled /\ []FinitelyManyTraders
              => /\ Leaves(t, "register") /\ Leaves(t, "create") /\ Leaves(t, "validate")
                 /\ Leaves(t, "settle") /\ Gathers(t)
<1>1. [][Next]_vars /\ []MutexInv /\ []GuardsEnabled /\ Served(t) /\ Cleared("settle")
         => Leaves(t, "settle")
  BY StageLeaves DEF Waiting
<1>2. Clear("settle") <=> AccountsFree
  BY DEF Clear, AccountsFree
<1>3. Fairness => Served(t)
  BY DEF Fairness
<1>4. LookupsEnd => Gathers(t)
  BY DEF LookupsEnd
<1>5. Spec /\ []Fairness /\ []GuardsEnabled
         => Leaves(t, "register") /\ Leaves(t, "create") /\ Leaves(t, "validate")
  BY StagesLeft DEF Waiting
<1>6. QED
  BY <1>1, <1>2, <1>3, <1>4, <1>5, EveryGatheringEnds, AccountsComeFree, MutexAlways, PTL
     DEF Cleared, Spec

(* The two mutexes of the registries are granted to whoever wants them, though any
   of the calls of the logger and of the callbacks may never return.  []Fairness is
   what Fairness is, for fairness is about the end of a behaviour; without the box
   the provers cannot use it later than at the start. *)
THEOREM RegistryMutexesGranted ==
    Spec /\ []Fairness /\ []GuardsEnabled /\ []FinitelyManyTraders => MutexesGranted
<1>1. ASSUME NEW t \in Threads
      PROVE  Spec /\ []Fairness /\ []GuardsEnabled /\ []FinitelyManyTraders
                => /\ pc[t] \in {"register", "create"} ~> pc[t] = "idle"
                   /\ pc[t] = "validate" ~> pc[t] \in {"book", "idle"}
                   /\ pc[t] \in {"settle", "gather"} ~> pc[t] = "settling"
  <2>1. /\ Past(t, "register") => At(t, "create")
        /\ Past(t, "create") => pc[t] = "idle"
        /\ Past(t, "validate") => pc[t] \in {"book", "idle"}
        /\ Past(t, "settle") => At(t, "gather")
    BY DEF Past, At, Onward
  <2>2. /\ pc[t] \in {"register", "create"} <=> At(t, "register") \/ At(t, "create")
        /\ pc[t] = "validate" <=> At(t, "validate")
        /\ pc[t] \in {"settle", "gather"} <=> At(t, "settle") \/ At(t, "gather")
        /\ pc[t] = "settling" <=> At(t, "settling")
    BY DEF At
  <2>3. QED
    BY <2>1, <2>2, RegistriesServe, PTL DEF Leaves, Gathers
<1>2. QED
  BY <1>1 DEF MutexesGranted

CallsNow(t) == pc[t] \in CallStages

Matches(t) == pc[t] \in {"book", "match"}

(* The calls of submitOrder are left for the settlement or the answer, and the
   settlement for the answer, if the calls return. *)
LEMMA CallsLeft ==
    ASSUME NEW t \in Threads
    PROVE  [][Next]_vars /\ []MutexInv /\ []<>(~ CallsNow(t))
              => /\ Matches(t) ~> At(t, "settle") \/ At(t, "idle")
                 /\ At(t, "settling") ~> At(t, "idle")
<1>1. MutexInv /\ Matches(t) /\ [Next]_vars
         => (Matches(t) \/ At(t, "settle") \/ At(t, "idle"))'
  BY ThreadStep, ContinueMoves DEF MutexInv, At, Onward, Matches
<1>2. MutexInv /\ At(t, "settling") /\ [Next]_vars => (At(t, "settling") \/ At(t, "idle"))'
  BY ThreadStep, ContinueMoves DEF MutexInv, At, Onward
<1>3. Matches(t) \/ At(t, "settling") => CallsNow(t)
  BY DEF Matches, At, CallsNow, CallStages
<1>4. QED
  BY <1>1, <1>2, <1>3, PTL

(* Every message is answered, if the logger and the callbacks return: each stage of
   handleClient and submitOrder is left, those before a mutex because it comes free,
   and the lookups of accounts because there are finitely many parties. *)
THEOREM MessagesAnswered ==
    Spec /\ []Fairness /\ []GuardsEnabled /\ []FinitelyManyTraders => EveryMessageAnswered
<1>1. ASSUME NEW t \in Threads
      PROVE  Spec /\ []Fairness /\ []GuardsEnabled /\ []FinitelyManyTraders
                /\ []<>(pc[t] \notin CallStages)
                => (pc[t] # "idle" ~> pc[t] = "idle")
  <2>1. /\ Past(t, "register") => At(t, "create")
        /\ Past(t, "create") => At(t, "idle")
        /\ Past(t, "validate") => Matches(t) \/ At(t, "idle")
        /\ Past(t, "settle") => At(t, "gather")
    BY DEF Past, At, Onward, Matches
  <2>2. MutexInv =>
           \/ At(t, "register") \/ At(t, "create") \/ At(t, "validate")
           \/ At(t, "settle") \/ At(t, "gather") \/ At(t, "settling")
           \/ Matches(t) \/ At(t, "idle")
    BY DEF MutexInv, TypeOK, Stages, At, Matches
  <2>3. /\ At(t, "idle") <=> pc[t] = "idle"
        /\ pc[t] # "idle" <=> ~ At(t, "idle")
        /\ pc[t] \notin CallStages <=> ~ CallsNow(t)
    BY DEF At, CallsNow
  <2>4. [][Next]_vars /\ []MutexInv /\ []<>(~ CallsNow(t))
           => /\ Matches(t) ~> At(t, "settle") \/ At(t, "idle")
              /\ At(t, "settling") ~> At(t, "idle")
    BY CallsLeft
  <2>5. Spec /\ []Fairness /\ []GuardsEnabled /\ []FinitelyManyTraders
           => /\ Leaves(t, "register") /\ Leaves(t, "create") /\ Leaves(t, "validate")
              /\ Leaves(t, "settle") /\ Gathers(t)
    BY RegistriesServe
  <2>6. QED
    BY <2>1, <2>2, <2>3, <2>4, <2>5, MutexAlways, PTL DEF Leaves, Gathers, Spec
<1>2. QED
  BY <1>1 DEF EveryMessageAnswered, CallsReturn
=============================================================================
