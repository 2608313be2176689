-------------------------- MODULE SettlementEngine --------------------------
(***************************************************************************)
(* src/SettlementEngine.cpp on the accounts of src/Account.cpp.  After     *)
(* matching an order, its client thread settles the trades of the order    *)
(* one by one.  A settlement is a test of the buyer's balance and then     *)
(* four updates: the buyer's balance, the buyer's position, the seller's   *)
(* balance and the seller's position.                                      *)
(*                                                                         *)
(* Accounts are shared by all client threads and nothing in Account is     *)
(* synchronised: an update is a load and a store that another thread's     *)
(* steps may come between, and the test reads the balance before the load  *)
(* of the update does.  Spec lets calls overlap freely, as the server      *)
(* does.  SerialSpec lets them overlap only when they have no account in   *)
(* common.                                                                 *)
(*                                                                         *)
(* balance_ and positions_ are one map from assets to amounts here; a      *)
(* symbol absent from positions_ (updatePosition erases at zero) has       *)
(* amount 0, which is what getPosition returns for it.                     *)
(***************************************************************************)
EXTENDS Integers, Sequences, FiniteSets, Functions

CONSTANTS
    Threads,
    Traders,          \* a trader's id is its account's id
    Symbols,
    Cash,             \* the asset that balance_ counts
    Prices,           \* prices trades are made at, negative ones included
    Quantities,
    InitialBalance,   \* 10000.0 in handleClient
    None,             \* no value loaded
    MaxBatch,         \* bound: trades one order makes
    MaxCalls          \* bound: calls of settleTrades in a behaviour

ASSUME SettlementAssumption ==
    /\ IsFiniteSet(Threads) /\ IsFiniteSet(Traders)
    /\ Cash \notin Symbols /\ None \notin Int
    /\ Prices \subseteq Int
    /\ Quantities \subseteq Nat
    /\ InitialBalance \in Nat
    /\ MaxCalls \in Nat /\ MaxBatch \in Nat

VARIABLES
    holding,      \* trader -> asset -> amount
    batch,        \* thread -> trades settleTrades still has to go through
    accounts,     \* thread -> accounts it was passed
    step,         \* thread -> 0 before withdraw has passed its test of the
                  \* next trade, 1 .. 4 the update it is in, 5 when the
                  \* callback is due
    loaded,       \* thread -> value loaded for the update it is in
    running,      \* threads inside settleTrades
    terminated,   \* an exception has left a client thread: std::terminate
    calls         \* calls so far

vars == <<holding, batch, accounts, step, loaded, running, terminated, calls>>

Assets == Symbols \cup {Cash}

TradeValues ==
    [buyer : Traders, seller : Traders, symbol : Symbols,
     price : Prices, quantity : Quantities]

Trade(t) == Head(batch[t])

(* settleTrade has two accounts, which settleTrades has found. *)
TypeOK ==
    /\ holding \in [Traders -> [Assets -> Int]]
    /\ batch \in [Threads -> Seq(TradeValues)]
    /\ accounts \in [Threads -> SUBSET Traders]
    /\ step \in [Threads -> 0 .. 5]
    /\ \A t \in Threads : step[t] # 0 =>
          batch[t] # << >> /\ {Trade(t).buyer, Trade(t).seller} \subseteq accounts[t]
    /\ loaded \in [Threads -> Int \cup {None}]
    /\ running \subseteq Threads
    /\ terminated \in BOOLEAN
    /\ calls \in 0 .. MaxCalls

----------------------------------------------------------------------------
Cost(trade) == trade.price * trade.quantity

(* Mutant: the seller's shares are credited. *)
UpdatesBothCredited(trade) ==
    << [account |-> trade.buyer, asset |-> Cash, by |-> - Cost(trade)],
       [account |-> trade.buyer, asset |-> trade.symbol, by |-> trade.quantity],
       [account |-> trade.seller, asset |-> Cash, by |-> Cost(trade)],
       [account |-> trade.seller, asset |-> trade.symbol, by |-> trade.quantity] >>

(* Mutant: the positions of the buyer and the seller are swapped. *)
UpdatesSwapped(trade) ==
    << [account |-> trade.buyer, asset |-> Cash, by |-> - Cost(trade)],
       [account |-> trade.seller, asset |-> trade.symbol, by |-> trade.quantity],
       [account |-> trade.seller, asset |-> Cash, by |-> Cost(trade)],
       [account |-> trade.buyer, asset |-> trade.symbol, by |-> - trade.quantity] >>

(* settleTrade, update by update. *)
Updates(trade) ==
    << [account |-> trade.buyer, asset |-> Cash, by |-> - Cost(trade)],
       [account |-> trade.buyer, asset |-> trade.symbol, by |-> trade.quantity],
       [account |-> trade.seller, asset |-> Cash, by |-> Cost(trade)],
       [account |-> trade.seller, asset |-> trade.symbol, by |-> - trade.quantity] >>

Update(t) == Updates(Trade(t))[step[t]]

Parties(list) == UNION { {list[i].buyer, list[i].seller} : i \in DOMAIN list }

(* The trades of one order: its trader buys or sells in all of them, in one
   symbol. *)
Batches ==
    { list \in UNION { [1 .. n -> TradeValues] : n \in 1 .. MaxBatch } :
        \A i \in DOMAIN list :
            /\ list[i].symbol = list[1].symbol
            /\ list[i].buyer = list[1].buyer \/ list[i].seller = list[1].seller }

(* The accounts passed along: those of the parties, but perhaps for one. *)
Passed(list) ==
    { Parties(list) \ missing : missing \in
        { m \in SUBSET Parties(list) : Cardinality(m) <= 1 } }

----------------------------------------------------------------------------
Init ==
    /\ holding = [t \in Traders |-> [a \in Assets |->
                     IF a = Cash THEN InitialBalance ELSE 0]]
    /\ batch = [t \in Threads |-> << >>]
    /\ accounts = [t \in Threads |-> {}]
    /\ step = [t \in Threads |-> 0]
    /\ loaded = [t \in Threads |-> None]
    /\ running = {}
    /\ terminated = FALSE
    /\ calls = 0

SettleTrades(t, list, passed) ==
    /\ running' = running \cup {t}
    /\ batch' = [batch EXCEPT ![t] = list]
    /\ accounts' = [accounts EXCEPT ![t] = passed]
    /\ UNCHANGED <<holding, step, loaded, terminated>>

(* The loop goes on to its next trade. *)
NextTrade(t) ==
    /\ batch' = [batch EXCEPT ![t] = Tail(@)]
    /\ step' = [step EXCEPT ![t] = 0]

(* Mutant: a trade is skipped only if both accounts are missing. *)
EitherAccountFound(trade, passed) ==
    {trade.buyer, trade.seller} \cap passed # {}

AccountsFound(trade, passed) == {trade.buyer, trade.seller} \subseteq passed

(* Mutant: the test lets a cost pass that is one more than the balance. *)
RefusedOffByOne(trade, balance) == Cost(trade) > balance + 1

Refused(trade, balance) == Cost(trade) > balance

(* The test of withdraw reads the balance.  It throws on a negative amount,
   and no one catches; it refuses an amount above the balance, and the trade
   is left unsettled; otherwise the updates follow. *)
Withdraw(t) ==
    LET balance == holding[Trade(t).buyer][Cash]
        cost == Cost(Trade(t)) IN
    \/ cost < 0 /\ terminated' = TRUE /\ UNCHANGED <<batch, step>>
    \/ /\ cost >= 0 /\ Refused(Trade(t), balance)
       /\ NextTrade(t) /\ UNCHANGED terminated
    \/ /\ cost >= 0 /\ ~ Refused(Trade(t), balance)
       /\ step' = [step EXCEPT ![t] = 1] /\ UNCHANGED <<batch, terminated>>

(* The loop at a trade: an account is missing, continue; otherwise settleTrade
   is called and starts with withdraw. *)
SettleTrade(t) ==
    /\ step[t] = 0
    /\ batch[t] # << >>
    /\ \/ /\ ~ AccountsFound(Trade(t), accounts[t])
          /\ NextTrade(t) /\ UNCHANGED terminated
       \/ AccountsFound(Trade(t), accounts[t]) /\ Withdraw(t)
    /\ UNCHANGED <<holding, accounts, loaded, running, calls>>

(* The load of any of the four updates, that of balance_ -= amount included:
   the balance is read again there. *)
Load(t) ==
    /\ step[t] \in 1 .. 4
    /\ loaded[t] = None
    /\ loaded' = [loaded EXCEPT ![t] = holding[Update(t).account][Update(t).asset]]
    /\ UNCHANGED <<holding, batch, accounts, step, running, terminated, calls>>

(* The store of any of the four updates. *)
Store(t) ==
    /\ loaded[t] # None
    /\ holding' = [holding EXCEPT ![Update(t).account][Update(t).asset] =
                      loaded[t] + Update(t).by]
    /\ loaded' = [loaded EXCEPT ![t] = None]
    /\ step' = [step EXCEPT ![t] = @ + 1]
    /\ UNCHANGED <<batch, accounts, running, terminated, calls>>

(* settlementCallback_ for the buyer and the seller: MarketServer's
   onSettlementComplete, which touches no account. *)
NotifySettlement(t) ==
    /\ step[t] = 5
    /\ NextTrade(t)
    /\ UNCHANGED <<holding, accounts, loaded, running, terminated, calls>>

Return(t) ==
    /\ t \in running
    /\ batch[t] = << >>
    /\ running' = running \ {t}
    /\ accounts' = [accounts EXCEPT ![t] = {}]
    /\ UNCHANGED <<holding, batch, step, loaded, terminated, calls>>

----------------------------------------------------------------------------
(* Bound: MaxCalls calls. *)
Call(t, lists) ==
    /\ t \notin running
    /\ calls < MaxCalls
    /\ calls' = calls + 1
    /\ \E list \in lists : \E passed \in Passed(list) : SettleTrades(t, list, passed)

(* No thread is settling a trade of one of these accounts. *)
AccountsFree(parties) ==
    \A t \in Threads : Parties(batch[t]) \cap parties = {}

Continue(t) ==
    \/ SettleTrade(t)
    \/ Load(t)
    \/ Store(t)
    \/ NotifySettlement(t)
    \/ Return(t)

Next ==
    /\ ~ terminated
    /\ \E t \in Threads :
          \/ Call(t, Batches)
          \/ Continue(t)

SerialNext ==
    /\ ~ terminated
    /\ \E t \in Threads :
          \/ Call(t, { list \in Batches : AccountsFree(Parties(list)) })
          \/ Continue(t)

Spec == Init /\ [][Next]_vars

SerialSpec == Init /\ [][SerialNext]_vars

----------------------------------------------------------------------------
(* Properties. *)

(* The updates of the settlements under way that are still to be stored: the
   buyer could pay, so all four will be made. *)
Due(t, trader, asset) ==
    LET by(i) == IF /\ step[t] \in 1 .. i
                    /\ Updates(Trade(t))[i].account = trader
                    /\ Updates(Trade(t))[i].asset = asset
                 THEN Updates(Trade(t))[i].by ELSE 0
    IN  by(1) + by(2) + by(3) + by(4)

Pending(trader, asset) == SumFunction([t \in Threads |-> Due(t, trader, asset)])

(* What a trader has once every settlement under way is through. *)
Settled(trader, asset) == holding[trader][asset] + Pending(trader, asset)

SettledHoldings ==
    [trader \in Traders |-> [asset \in Assets |-> Settled(trader, asset)]]

(* Every settlement, run in four unsynchronised updates, has the effect of
   the one indivisible transfer of Ledger, or none. *)
Transfers == INSTANCE Ledger WITH holding <- SettledHoldings

ImplementsLedger == Transfers!Spec

(* What the accounts hold and what is under way is what was there at the
   start: no money and no share appears or disappears. *)
NothingLost ==
    \A asset \in Assets :
        SumFunction([trader \in Traders |-> Settled(trader, asset)])
            = IF asset = Cash THEN InitialBalance * Cardinality(Traders) ELSE 0

(* No balance ever goes below zero, half-way through a settlement included.
   withdraw tests the balance and then subtracts from a second reading of it:
   the property needs that no other thread comes in between with the same
   buyer.  SerialSpec sees to that, the server does not. *)
NoOverdraft == \A trader \in Traders : holding[trader][Cash] >= 0

(* "The trade should not have been executed if funds were insufficient"
   (SettlementEngine.cpp): every trade that is about to be settled and whose
   accounts are known can be paid for. *)
TradesFunded ==
    \A t \in Threads :
        step[t] = 0 /\ batch[t] # << >> /\ AccountsFound(Trade(t), accounts[t]) =>
            holding[Trade(t).buyer][Cash] >= Cost(Trade(t))
=============================================================================
