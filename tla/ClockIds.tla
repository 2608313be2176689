------------------------------ MODULE ClockIds ------------------------------
(***************************************************************************)
(* MatchingEngine with the order ids the server really gives.              *)
(*                                                                         *)
(* parseOrderMessage makes an id of the reading of the clock, and two      *)
(* client threads that parse within a tick make the same.  connMutex_,     *)
(* held while an order is logged, may still put their calls of submitOrder *)
(* one after the other: the orders do not overlap.                         *)
(***************************************************************************)
EXTENDS MatchingEngine

(* An order of the tick of the one before it, or of a later one. *)
ClockSubmit(t) ==
    /\ Len(submitted) < MaxOrders
    /\ \E id \in {Len(submitted), Len(submitted) + 1} \cap OrderIds :
          \E o \in NewOrders(id) : BookFree(o.symbol) /\ SubmitOrder(t, o)

ClockNext == \E t \in Threads : ClockSubmit(t) \/ Continue(t)

ClockSpec == Init /\ [][ClockNext]_vars
=============================================================================
