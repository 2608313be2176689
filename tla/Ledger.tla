------------------------------- MODULE Ledger -------------------------------
(***************************************************************************)
(* What settlement promises (README.md: "Automatic account updates and     *)
(* position management"): a trade moves its cost from the buyer to the     *)
(* seller and its quantity from the seller to the buyer, all at once, and  *)
(* only if the buyer can pay.  A seller may go short.                      *)
(***************************************************************************)
EXTENDS Integers

CONSTANTS Traders, Symbols, Prices, Quantities, Cash, InitialBalance

VARIABLE holding    \* trader -> asset -> amount

Init ==
    holding = [t \in Traders |-> [a \in Symbols \cup {Cash} |->
                  IF a = Cash THEN InitialBalance ELSE 0]]

Move(from, to, asset, amount, h) ==
    LET taken == [h EXCEPT ![from][asset] = @ - amount]
    IN  [taken EXCEPT ![to][asset] = @ + amount]

Settle(buyer, seller, symbol, price, quantity) ==
    /\ price * quantity \in 0 .. holding[buyer][Cash]
    /\ holding' = Move(buyer, seller, Cash, price * quantity,
                       Move(seller, buyer, symbol, quantity, holding))

(* A trader that trades with itself leaves everything as it is. *)
Next ==
    /\ holding' # holding
    /\ \E buyer, seller \in Traders, symbol \in Symbols,
          price \in Prices, quantity \in Quantities :
            Settle(buyer, seller, symbol, price, quantity)

Spec == Init /\ [][Next]_holding
=============================================================================
