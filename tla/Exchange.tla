------------------------------ MODULE Exchange ------------------------------
(***************************************************************************)
(* What price-time priority matching promises (README.md: "Price-time      *)
(* priority matching engine"), without books, indexes, snapshots or        *)
(* pointers: the resting orders are a flat set, the order being matched    *)
(* trades with the best order of the other side for as long as it can, and *)
(* what is left of it rests if it has a limit and is dropped if it has     *)
(* not.  An order is [id, symbol, side, type, price, quantity], quantity   *)
(* being what is left of it, and ids grow in the order of arrival.         *)
(***************************************************************************)
EXTENDS Integers, Sequences

CONSTANTS Symbols, Prices, Quantities

VARIABLES
    arrived,    \* number of orders so far
    resting,    \* the orders in the market
    incoming,   \* the orders being matched, at most one of a symbol
    tape        \* the trades, in order

vars == <<arrived, resting, incoming, tape>>

Init ==
    /\ arrived = 0
    /\ resting = {}
    /\ incoming = {}
    /\ tape = << >>

Against(o) == { r \in resting : r.symbol = o.symbol /\ r.side # o.side }

(* a is served before b. *)
Before(a, b) ==
    \/ a.side = "BUY" /\ a.price > b.price
    \/ a.side = "SELL" /\ a.price < b.price
    \/ a.price = b.price /\ a.id < b.id

IsBest(r, o) == \A other \in Against(o) \ {r} : Before(r, other)

CanTrade(o, r) ==
    \/ o.type = "MARKET"
    \/ o.side = "BUY" /\ o.price >= r.price
    \/ o.side = "SELL" /\ o.price <= r.price

(* A limit order trades at the lower of the two limits. *)
Price(o, r) ==
    IF o.type = "LIMIT" /\ o.price < r.price THEN o.price ELSE r.price

Reduced(o, quantity) == [o EXCEPT !.quantity = @ - quantity]

Left(orders) == { o \in orders : o.quantity > 0 }

Arrive(o) ==
    /\ arrived' = arrived + 1
    /\ \A other \in incoming : other.symbol # o.symbol
    /\ incoming' = incoming \cup {o}
    /\ UNCHANGED <<resting, tape>>

Trade(o, r) ==
    LET quantity == IF o.quantity <= r.quantity THEN o.quantity ELSE r.quantity
    IN  /\ UNCHANGED arrived
        /\ o.quantity > 0
        /\ IsBest(r, o)
        /\ CanTrade(o, r)
        /\ incoming' = (incoming \ {o}) \cup {Reduced(o, quantity)}
        /\ resting' = (resting \ {r}) \cup Left({Reduced(r, quantity)})
        /\ tape' = Append(tape, [buy |-> IF o.side = "BUY" THEN o.id ELSE r.id,
                                 sell |-> IF o.side = "BUY" THEN r.id ELSE o.id,
                                 symbol |-> o.symbol,
                                 price |-> Price(o, r),
                                 quantity |-> quantity])

Finish(o) ==
    /\ UNCHANGED <<arrived, tape>>
    /\ o.quantity <= 0 \/ \A r \in Against(o) : ~ CanTrade(o, r)
    /\ incoming' = incoming \ {o}
    /\ resting' = resting \cup { r \in Left({o}) : r.type = "LIMIT" }

NewOrder ==
    [id : {arrived + 1}, symbol : Symbols, side : {"BUY", "SELL"},
     type : {"LIMIT", "MARKET"}, price : Prices \cup {0},
     quantity : Quantities]

Match == \E o \in incoming : Finish(o) \/ \E r \in Against(o) : Trade(o, r)

Next == Match \/ \E o \in NewOrder : Arrive(o)

Spec == Init /\ [][Next]_vars
=============================================================================
