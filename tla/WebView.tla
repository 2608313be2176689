------------------------------ MODULE WebView -------------------------------
(***************************************************************************)
(* What the web page is told of a book while orders are matched in it:     *)
(* getOrderBookJson of src/WebServer.cpp, beside MatchingEngine.           *)
(*                                                                         *)
(* The web server's thread gets a reference to the book and calls          *)
(* getBestBid, getBestAsk, getBuyOrders and getSellOrders one after the    *)
(* other.  No lock is held, by it or by the engine.  Each of the four reads*)
(* sees the book between two steps of MatchingEngine; a read that meets a  *)
(* write in the middle of it is undefined, and is not followed.            *)
(***************************************************************************)
EXTENDS MatchingEngine

VARIABLES
    reader,      \* what is read next
    shown,       \* symbol asked for, and what has been read of its book
    disturbed    \* history: the book was written to, or an order of its was
                 \* being matched, since the first read

view == <<reader, shown, disturbed>>

(* Mutant: the asks are read before the bids. *)
AsksFirst == <<"bestBid", "bestAsk", "sellOrders", "buyOrders">>

Reads == <<"bestBid", "bestAsk", "buyOrders", "sellOrders">>

ViewTypeOK ==
    /\ TypeOK
    /\ reader \in 1 .. Len(Reads) + 1
    /\ shown.symbol \in Symbols
    /\ shown.bestBid \in Prices \cup {0} /\ shown.bestAsk \in Prices \cup {0}
    /\ shown.buyOrders \subseteq Copies /\ shown.sellOrders \subseteq Copies
    /\ disturbed \in BOOLEAN

Nothing(s) ==
    [symbol |-> s, bestBid |-> 0, bestAsk |-> 0, buyOrders |-> {}, sellOrders |-> {}]

ViewInit ==
    /\ Init
    /\ reader = 1
    /\ \E s \in Symbols : shown = Nothing(s)
    /\ disturbed = FALSE

----------------------------------------------------------------------------
(* The result of a read. *)
Seen(what, book) ==
    CASE what = "bestBid" -> GetBestPrice(book, "BUY")
      [] what = "bestAsk" -> GetBestPrice(book, "SELL")
      [] what = "buyOrders" -> GetOrders(book, "BUY")
      [] what = "sellOrders" -> GetOrders(book, "SELL")

GetOrderBookJson ==
    /\ reader \in DOMAIN Reads
    /\ shown' = [shown EXCEPT ![Reads[reader]] = Seen(Reads[reader], books[shown.symbol])]
    /\ reader' = reader + 1
    /\ disturbed' = (disturbed \/ ~ BookFree(shown.symbol))
    /\ UNCHANGED vars

(* The response is out; the page asks again, for any symbol. *)
NextRequest ==
    /\ reader = Len(Reads) + 1
    /\ reader' = 1
    /\ \E s \in Symbols : shown' = Nothing(s)
    /\ disturbed' = FALSE
    /\ UNCHANGED vars

Match ==
    /\ SerialNext
    /\ disturbed' = (disturbed \/ (reader # 1 /\ books[shown.symbol] # books'[shown.symbol]))
    /\ UNCHANGED <<reader, shown>>

ViewNext == Match \/ GetOrderBookJson \/ NextRequest

ViewSpec == ViewInit /\ [][ViewNext]_<<vars, view>>
----------------------------------------------------------------------------
(* Properties. *)

(* What is shown is complete. *)
Complete == reader = Len(Reads) + 1

(* The orders shown on a side, and the price shown for it. *)
ShownOn(side) == IF side = "BUY" THEN shown.buyOrders ELSE shown.sellOrders

ShownPrice(side) == IF side = "BUY" THEN shown.bestBid ELSE shown.bestAsk

(* A view nothing came in between of is of one book: the best price of a side
   is that of its first order and 0 where there is none, no bid meets an ask,
   and every order has a status the page can name and the count of traders
   with active orders takes (PENDING or PARTIALLY_FILLED), and has something
   left. *)
QuietViewAgrees ==
    Complete /\ ~ disturbed =>
        /\ \A side \in Sides :
              /\ ShownOn(side) = {} => ShownPrice(side) = 0
              /\ \A c \in ShownOn(side) :
                    /\ IsFirst(ShownOn(side), side, c) =>
                           ShownPrice(side) = c.order.price
                    /\ c.order.status \in {"PENDING", "PARTIALLY_FILLED"}
                    /\ Remaining(c.order) > 0
        /\ \A bid \in shown.buyOrders, ask \in shown.sellOrders :
              bid.order.price < ask.order.price

(* Whatever was matched between the reads, a bid shown at or above an ask shown
   is only out of date: the ask came after it, and by now the bid has traded all
   that was asked of it.  No order that still waits is shown crossed. *)
CrossedBidsFilled ==
    Complete =>
        \A bid \in shown.buyOrders, ask \in shown.sellOrders :
            bid.order.price >= ask.order.price =>
                /\ bid.order.id < ask.order.id
                /\ traded[bid.order.id] >= submitted[bid.order.id].quantity

(* The page subtracts the two prices and calls the difference "Spread": a
   book is never crossed between two orders, and so is what is shown of it. *)
SpreadPositive ==
    Complete /\ shown.bestBid > 0 /\ shown.bestAsk > 0 =>
        shown.bestBid < shown.bestAsk
=============================================================================
