----------------------------- MODULE OrderBook -----------------------------
(***************************************************************************)
(* The price-level container of src/OrderBook.cpp.  One OrderBook object   *)
(* holds, for a symbol, two maps from price to a vector of orders (the     *)
(* vector is in time order) and an index from order id to <price,          *)
(* position>.  Nothing in the class is synchronised: callers are.          *)
(*                                                                         *)
(* A book is a value, so the modules that use it keep one per symbol in a  *)
(* variable of theirs.  An absent map key is absent from the function's    *)
(* DOMAIN.  The two maps buyOrders_ and sellOrders_ are levels["BUY"] and  *)
(* levels["SELL"]; positions count from 1.                                 *)
(***************************************************************************)
EXTENDS Integers, Sequences, FiniteSets, SequencesExt

Sides == {"BUY", "SELL"}

Opposite(side) == IF side = "BUY" THEN "SELL" ELSE "BUY"

Types == {"LIMIT", "MARKET"}

Statuses == {"PENDING", "PARTIALLY_FILLED", "FILLED", "CANCELLED", "REJECTED"}

(* The empty std::map. *)
EmptyMap == [k \in {} |-> 0]

EmptyBook ==
    [levels |-> [s \in Sides |-> EmptyMap], index |-> EmptyMap]

(* operator[] of a map, assigned to. *)
Put(map, key, value) ==
    [k \in DOMAIN map \cup {key} |-> IF k = key THEN value ELSE map[k]]

Drop(map, key) == Restrict(map, DOMAIN map \ {key})

(* The vector at a price level, empty where the map has no such key. *)
Level(book, side, price) ==
    IF price \in DOMAIN book.levels[side]
    THEN book.levels[side][price]
    ELSE << >>

----------------------------------------------------------------------------
(* Where an order is: its side, its price level and its place in it. *)

(* position < vector.size() at a level that exists: memory a pointer
   obtained from getOrder may still be read through. *)
InBounds(book, at) ==
    /\ at.price \in DOMAIN book.levels[at.side]
    /\ at.pos \in 1 .. Len(book.levels[at.side][at.price])

OrderAt(book, at) == book.levels[at.side][at.price][at.pos]

(* The address the index gives for an id, read on one of the two maps. *)
Indexed(book, id, side) ==
    [side |-> side, price |-> book.index[id][1], pos |-> book.index[id][2]]

(* The maps on which the indexed slot really holds the order. *)
FoundOn(book, id) ==
    { s \in Sides : /\ id \in DOMAIN book.index
                    /\ InBounds(book, Indexed(book, id, s))
                    /\ OrderAt(book, Indexed(book, id, s)).id = id }

(* getOrder returns a pointer unless the id is in neither map ... *)
HasOrder(book, id) == FoundOn(book, id) # {}

(* ... and looks at the buy orders first. *)
GetOrder(book, id) ==
    Indexed(book, id, IF "BUY" \in FoundOn(book, id) THEN "BUY" ELSE "SELL")

----------------------------------------------------------------------------
(* The operations that change a book. *)

AddOrder(book, order) ==
    LET level == Append(Level(book, order.side, order.price), order)
    IN  [levels |-> [book.levels EXCEPT
                        ![order.side] = Put(@, order.price, level)],
         index  |-> Put(book.index, order.id, <<order.price, Len(level)>>)]

(* Mutants: the orders behind the erased one are indexed one place too far
   forward, or are left where they were. *)
ReindexTooFar(index, price, pos, rest) ==
    [id \in DOMAIN index |->
        IF \E i \in pos .. Len(rest) : rest[i].id = id
        THEN <<price, (CHOOSE i \in pos .. Len(rest) : rest[i].id = id) - 1>>
        ELSE index[id]]

ReindexForgotten(index, price, pos, rest) == index

(* The index after slot `pos` of a level is erased: the orders behind it,
   in the shortened level `rest`, move one place forward. *)
Reindex(index, price, pos, rest) ==
    LET moved == { rest[i].id : i \in pos .. Len(rest) }
    IN  [id \in DOMAIN index \cup moved |->
            IF id \in moved
            THEN <<price, CHOOSE i \in pos .. Len(rest) : rest[i].id = id>>
            ELSE index[id]]

(* Mutant: a level stays when its last order has left. *)
EraseKeepingLevel(book, id, at) ==
    LET rest == RemoveAt(book.levels[at.side][at.price], at.pos)
    IN  [levels |-> [book.levels EXCEPT ![at.side] = Put(@, at.price, rest)],
         index  |-> Drop(Reindex(book.index, at.price, at.pos, rest), id)]

Erase(book, id, at) ==
    LET rest   == RemoveAt(book.levels[at.side][at.price], at.pos)
        levels == IF rest = << >>
                  THEN Drop(book.levels[at.side], at.price)
                  ELSE Put(book.levels[at.side], at.price, rest)
    IN  [levels |-> [book.levels EXCEPT ![at.side] = levels],
         index  |-> Drop(Reindex(book.index, at.price, at.pos, rest), id)]

(* removeOrder returns false, and changes nothing, for an unknown order. *)
RemoveOrder(book, id) ==
    IF HasOrder(book, id) THEN Erase(book, id, GetOrder(book, id)) ELSE book

(* A write through the pointer getOrder returned. *)
WriteThrough(book, at, order) ==
    [book EXCEPT !.levels[at.side][at.price][at.pos] = order]

----------------------------------------------------------------------------
(* The snapshots: getBuyOrders and getSellOrders copy every order of one   *)
(* map into a vector, level by level and each level in time order.  The    *)
(* vector is the set of its copies, each with the place it was copied      *)
(* from; IsFirst says which of them comes first.                           *)

GetOrders(book, side) ==
    UNION { { [pos |-> i, order |-> book.levels[side][p][i]] :
                i \in 1 .. Len(book.levels[side][p]) } :
            p \in DOMAIN book.levels[side] }

(* std::greater<double> keys buyOrders_, std::less<double> sellOrders_. *)
BetterPrice(side, p, q) == IF side = "BUY" THEN p > q ELSE p < q

(* Mutant: the newest order of a price level comes first. *)
IsLastOfLevel(copies, side, c) ==
    \A d \in copies \ {c} :
        \/ BetterPrice(side, c.order.price, d.order.price)
        \/ c.order.price = d.order.price /\ c.pos > d.pos

IsFirst(copies, side, c) ==
    \A d \in copies \ {c} :
        \/ BetterPrice(side, c.order.price, d.order.price)
        \/ c.order.price = d.order.price /\ c.pos < d.pos

(* getBestBid and getBestAsk: the first key of the map, 0 if it is empty. *)
GetBestPrice(book, side) ==
    LET prices == DOMAIN book.levels[side]
    IN  IF prices = {} THEN 0
        ELSE CHOOSE p \in prices : \A q \in prices \ {p} : BetterPrice(side, p, q)

----------------------------------------------------------------------------
(* What a book is. *)

(* A map with keys in K and values in V. *)
IsMap(map, K, V) == DOMAIN map \subseteq K /\ map \in [DOMAIN map -> V]

IsBook(book, prices, ids, orders) ==
    /\ book = [levels |-> book.levels, index |-> book.index]
    /\ book.levels = [side \in Sides |-> book.levels[side]]
    /\ \A side \in Sides : IsMap(book.levels[side], prices, Seq(orders))
    /\ IsMap(book.index, ids, prices \X (Nat \ {0}))

(* An order the book of a symbol may hold at a place: it is filed under its
   own side, price and symbol, and is a limit order with something left. *)
RestsAt(o, symbol, side, price) ==
    /\ o.side = side /\ o.price = price /\ o.symbol = symbol
    /\ o.type = "LIMIT"
    /\ o.filledQuantity \in 0 .. o.quantity - 1

Consistent(book, symbol) ==
    /\ \A side \in Sides : \A p \in DOMAIN book.levels[side] :
         LET level == book.levels[side][p] IN
         /\ level # << >>
         /\ \A i \in DOMAIN level :
              /\ RestsAt(level[i], symbol, side, p)
              /\ level[i].id \in DOMAIN book.index
              /\ book.index[level[i].id] = <<p, i>>
         /\ \A i, j \in DOMAIN level : i < j => level[i].id < level[j].id
    /\ \A id \in DOMAIN book.index : HasOrder(book, id)

(* The orders on one side of a book. *)
OrdersOn(book, side) == { c.order : c \in GetOrders(book, side) }
=============================================================================
