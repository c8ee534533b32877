--------------------------- MODULE LimitOrderBook ---------------------------
(***************************************************************************)
(* What a price-priority limit order book promises, without ladders, pools *)
(* or maps: the quantity resting at each price on each side, the orders    *)
(* that rest, and the order being processed.  An incoming order trades     *)
(* against the best opposite price within its limit for as long as there   *)
(* is one, and only then rests with what is left.  A trade takes the same  *)
(* quantity from both parties.  A cancel takes an order out of the book    *)
(* with what it still has there; quantity moves in no other way.           *)
(***************************************************************************)
EXTENDS Integers

CONSTANT Prices

VARIABLES bid,     \* quantity resting to buy, per price
          ask,     \* quantity resting to sell, per price
          resting, \* the orders that rest, as they came to rest
          taker    \* the order being processed: id, side, limit and quantity left

lvars == <<bid, ask, resting, taker>>

NoTaker == [id |-> 0, side |-> "none", price |-> 0, left |-> 0]

LInit ==
    /\ bid = [p \in Prices |-> 0]
    /\ ask = [p \in Prices |-> 0]
    /\ resting = {}
    /\ taker = NoTaker

\* An order arrives under an id that no resting order has.
Arrive ==
    /\ taker = NoTaker
    /\ taker'.id \in Nat
    /\ \A o \in resting : o.id # taker'.id
    /\ taker'.side \in {"Buy", "Sell"}
    /\ taker'.price \in Prices
    /\ taker'.left \in Nat
    /\ UNCHANGED <<bid, ask, resting>>

\* p is the lowest price on offer and within the limit of the buying taker.
BestAsk(p) ==
    /\ taker.side = "Buy"
    /\ ask[p] > 0
    /\ p <= taker.price
    /\ \A q \in Prices : ask[q] > 0 => p <= q

\* p is the highest price bid and within the limit of the selling taker.
BestBid(p) ==
    /\ taker.side = "Sell"
    /\ bid[p] > 0
    /\ p >= taker.price
    /\ \A q \in Prices : bid[q] > 0 => p >= q

TradeAtAsk(p) ==
    /\ BestAsk(p)
    /\ \E n \in 1 .. taker.left :
          /\ n <= ask[p]
          /\ ask' = [ask EXCEPT ![p] = @ - n]
          /\ taker' = [taker EXCEPT !.left = @ - n]
    /\ UNCHANGED <<bid, resting>>

TradeAtBid(p) ==
    /\ BestBid(p)
    /\ \E n \in 1 .. taker.left :
          /\ n <= bid[p]
          /\ bid' = [bid EXCEPT ![p] = @ - n]
          /\ taker' = [taker EXCEPT !.left = @ - n]
    /\ UNCHANGED <<ask, resting>>

\* Nothing is left, or nothing is left to trade with.
Depart ==
    /\ taker # NoTaker
    /\ taker.left > 0 => \A p \in Prices : ~BestAsk(p) /\ ~BestBid(p)
    /\ bid' = IF taker.side = "Buy" THEN [bid EXCEPT ![taker.price] = @ + taker.left] ELSE bid
    /\ ask' = IF taker.side = "Sell" THEN [ask EXCEPT ![taker.price] = @ + taker.left] ELSE ask
    /\ resting' = IF taker.left > 0 THEN resting \cup {taker} ELSE resting
    /\ taker' = NoTaker

\* A resting order is cancelled.  Fills are not attributed to the orders of a
\* level: n is what this one has left there, all there is if it is alone.
Cancel(o) ==
    /\ taker = NoTaker
    /\ resting' = resting \ {o}
    /\ \E n \in 0 .. o.left :
          /\ n <= IF o.side = "Buy" THEN bid[o.price] ELSE ask[o.price]
          /\ bid' = IF o.side = "Buy" THEN [bid EXCEPT ![o.price] = @ - n] ELSE bid
          /\ ask' = IF o.side = "Sell" THEN [ask EXCEPT ![o.price] = @ - n] ELSE ask
    /\ \/ \E x \in resting' : x.side = o.side /\ x.price = o.price
       \/ o.side = "Buy" /\ bid'[o.price] = 0
       \/ o.side = "Sell" /\ ask'[o.price] = 0
    /\ UNCHANGED taker

\* A step in the life of the taker after its arrival.
Match ==
    \/ \E p \in Prices : TradeAtAsk(p) \/ TradeAtBid(p)
    \/ Depart

LNext ==
    \/ Arrive
    \/ Match
    \/ \E o \in resting : Cancel(o)

LSpec == LInit /\ [][LNext]_lvars
=============================================================================
