----------------------------- MODULE OrderBook -----------------------------
(***************************************************************************)
(* hft::OrderBook (1_orderbook/include/order_book.hpp, src/order_book.cpp):*)
(* two price ladders, a pool of order records, the free list of its slots  *)
(* and the map from order ids to slots.  The book is used by one thread;   *)
(* add_order is split at each on_match_ callback, the only place where     *)
(* code outside the book runs during a call.                               *)
(*                                                                         *)
(* Widths: quantities of orders and fills are uint32_t (U32 values), level *)
(* totals uint64_t (U64 values).  Limit and Market orders take the same    *)
(* path.  The engine reads back only the id, the price and the side of an  *)
(* order record; its other fields are written and left out.                *)
(***************************************************************************)
EXTENDS FlatPriceLadder

CONSTANTS U32,         \* number of values of uint32_t
          MAX_ORDERS,  \* slots of the pool, a power of two
          Prices,      \* prices clients use
          Quantities,  \* quantities clients use
          MaxCalls     \* bound: calls of add_order explored

ASSUME WidthAssumption == U32 \in Nat \ {0} /\ U32 <= U64
ASSUME PoolAssumption == MAX_ORDERS \in Nat \ {0}
ASSUME ClientAssumption ==
    /\ Prices \subseteq Int
    /\ Quantities \subseteq 0 .. U32 - 1
    /\ MaxCalls \in Nat

VARIABLES
    bids_, asks_,      \* the two ladders
    order_pool_,       \* slot -> order record
    free_list_,        \* slots in the SPSC queue, oldest first
    order_id_to_slot_, \* low bits of an order id -> slot
    next_order_id_,
    call,              \* locals of the add_order in progress
    live,              \* history: the orders that rested and were not cancelled,
                       \* as they came to rest
    dropped,           \* history: slots whose push to free_list_ was refused
    late               \* history: some cancel_order found an order that no longer
                       \* rested, having been filled on arrival or cancelled before

book == <<bids_, asks_>>
pool == <<order_pool_, free_list_, order_id_to_slot_, next_order_id_>>
vars == <<book, pool, call, live, dropped, late>>

Slot == 0 .. MAX_ORDERS - 1

\* 0xFFFFFFFF in order_id_to_slot_: any value that is no slot.
NoSlot == MAX_ORDERS

\* Faulty variant: the mask is one bit short.
MapIndexShort(order_id) == order_id % (MAX_ORDERS \div 2)

\* order_id & (MAX_ORDERS - 1)
MapIndex(order_id) == order_id % MAX_ORDERS

NoCall == [side |-> "none", price_ticks |-> 0, remaining |-> 0,
           slot |-> NoSlot, order_id |-> 0]

\* Faulty variant: the free list is taken to be one place shorter.
HasRoomForOneLess(list) == Len(list) < MAX_ORDERS - 2

\* SpscQueue used by one thread: a FIFO of at most MAX_ORDERS - 1 items.
HasRoom(list) == Len(list) < MAX_ORDERS - 1
FreeListPush(slot) ==
    /\ free_list_' = IF HasRoom(free_list_) THEN Append(free_list_, slot) ELSE free_list_
    /\ dropped' = IF HasRoom(free_list_) THEN dropped ELSE dropped \cup {slot}

\* The constructor pushes every slot; the queue is full before the last one, and
\* that push is refused.
Init ==
    /\ bids_ = <<>>
    /\ asks_ = <<>>
    /\ order_pool_ = [s \in Slot |-> [order_id |-> 0, price_ticks |-> 0, side |-> "Buy"]]
    /\ free_list_ = [i \in 1 .. MAX_ORDERS - 1 |-> i - 1]
    /\ order_id_to_slot_ = [i \in Slot |-> NoSlot]
    /\ next_order_id_ = 1
    /\ call = NoCall
    /\ live = {}
    /\ dropped = {MAX_ORDERS - 1}
    /\ late = FALSE

-----------------------------------------------------------------------------
(* best_bid(), best_ask(), spread_ticks()                                  *)

HasBid == bids_ # <<>>
HasAsk == asks_ # <<>>
BestBid == bids_[BestIndex(bids_)]
BestAsk == asks_[WorstIndex(asks_)]

\* spread_ticks() when both sides are present (INT64_MAX otherwise).
SpreadTicks == BestAsk.price_ticks - BestBid.price_ticks

-----------------------------------------------------------------------------
(* cancel_order(order_id)                                                  *)

\* The slot the id maps to still holds the order with that id.
Found(order_id) ==
    LET slot == order_id_to_slot_[MapIndex(order_id)] IN
    slot # NoSlot /\ order_pool_[slot].order_id = order_id

\* Faulty variant: the slot is not given back.
CancelFoundKeepsSlot(order_id) ==
    LET order == order_pool_[order_id_to_slot_[MapIndex(order_id)]]
    IN  /\ Found(order_id)
        /\ bids_' = IF order.side = "Buy" THEN RemoveIfEmpty(bids_, order.price_ticks) ELSE bids_
        /\ asks_' = IF order.side = "Buy" THEN asks_ ELSE RemoveIfEmpty(asks_, order.price_ticks)
        /\ live' = {o \in live : o.order_id # order_id}
        /\ late' = (late \/ live' = live)
        /\ UNCHANGED <<free_list_, dropped>>

\* The order is looked up, the level it rests in is removed if it is empty,
\* and the slot goes back to the free list.
CancelFound(order_id) ==
    LET slot  == order_id_to_slot_[MapIndex(order_id)]
        order == order_pool_[slot]
    IN  /\ Found(order_id)
        /\ bids_' = IF order.side = "Buy" THEN RemoveIfEmpty(bids_, order.price_ticks) ELSE bids_
        /\ asks_' = IF order.side = "Buy" THEN asks_ ELSE RemoveIfEmpty(asks_, order.price_ticks)
        /\ FreeListPush(slot)
        /\ live' = {o \in live : o.order_id # order_id}
        /\ late' = (late \/ live' = live)

\* Returns false.
CancelNotFound(order_id) ==
    /\ ~Found(order_id)
    /\ UNCHANGED <<book, free_list_, live, dropped, late>>

CancelOrder(order_id) ==
    /\ call = NoCall
    /\ CancelFound(order_id) \/ CancelNotFound(order_id)
    /\ UNCHANGED <<order_pool_, order_id_to_slot_, next_order_id_, call>>

-----------------------------------------------------------------------------
(* add_order(side, price_ticks, quantity, type)                            *)

TakeOrderId ==
    /\ call = NoCall
    /\ next_order_id_ <= MaxCalls
    /\ next_order_id_' = next_order_id_ + 1

\* type == Cancel: price_ticks is the id of the order to cancel.
AddOrderCancel(price_ticks) ==
    /\ TakeOrderId
    /\ CancelFound(price_ticks) \/ CancelNotFound(price_ticks)
    /\ UNCHANGED <<order_pool_, order_id_to_slot_, call>>

\* Pool exhausted: the call returns 0, its id is spent.
AddOrderExhausted ==
    /\ TakeOrderId
    /\ free_list_ = <<>>
    /\ UNCHANGED <<book, order_pool_, free_list_, order_id_to_slot_, call, live, dropped, late>>

\* A slot is taken from the pool and filled in, and the id map updated.
AddOrderAllocate(side, price_ticks, quantity) ==
    /\ TakeOrderId
    /\ free_list_ # <<>>
    /\ LET slot == Head(free_list_) IN
       /\ free_list_' = Tail(free_list_)
       /\ order_pool_' = [order_pool_ EXCEPT ![slot] =
             [order_id |-> next_order_id_, price_ticks |-> price_ticks, side |-> side]]
       /\ order_id_to_slot_' = [order_id_to_slot_ EXCEPT ![MapIndex(next_order_id_)] = slot]
       /\ call' = [side |-> side, price_ticks |-> price_ticks, remaining |-> quantity,
                   slot |-> slot, order_id |-> next_order_id_]
    /\ UNCHANGED <<book, live, dropped, late>>

\* Faulty variant: a buy does not match an ask at its own price.
BuyMatchesBelow ==
    call.remaining > 0 /\ HasAsk /\ BestAsk.price_ticks < call.price_ticks

\* The loop condition and the break of match_aggressive_buy, _sell.
BuyMatches ==
    call.remaining > 0 /\ HasAsk /\ BestAsk.price_ticks <= call.price_ticks
SellMatches ==
    call.remaining > 0 /\ HasBid /\ BestBid.price_ticks >= call.price_ticks

\* Faulty variant: the fill is not limited by what the taker wants.
FillQtyUnlimited(quantity, total_quantity) == total_quantity % U32

\* std::min(quantity, static_cast<uint32_t>(total_quantity))
FillQty(quantity, total_quantity) ==
    LET low == total_quantity % U32 IN IF quantity < low THEN quantity ELSE low

\* A level after a fill, and the ladder after the remove_if_empty that follows.
TakeFrom(levels_, i, fill_qty) ==
    RemoveIfEmpty([levels_ EXCEPT ![i].total_quantity = @ - fill_qty], levels_[i].price_ticks)

\* One turn of the loop of match_aggressive_buy: one fill at the best ask.
MatchAggressiveBuy ==
    /\ call.side = "Buy"
    /\ BuyMatches
    /\ LET fill_qty == FillQty(call.remaining, BestAsk.total_quantity) IN
       /\ call' = [call EXCEPT !.remaining = @ - fill_qty]
       /\ asks_' = TakeFrom(asks_, WorstIndex(asks_), fill_qty)
    /\ UNCHANGED <<bids_, pool, live, dropped, late>>

\* Faulty variant: a sell trades at worst(), as a buy does, instead of best().
MatchAggressiveSellWorst ==
    /\ call.side = "Sell"
    /\ call.remaining > 0 /\ HasBid
    /\ bids_[WorstIndex(bids_)].price_ticks >= call.price_ticks
    /\ LET fill_qty == FillQty(call.remaining, bids_[WorstIndex(bids_)].total_quantity) IN
       /\ call' = [call EXCEPT !.remaining = @ - fill_qty]
       /\ bids_' = TakeFrom(bids_, WorstIndex(bids_), fill_qty)
    /\ UNCHANGED <<asks_, pool, live, dropped, late>>

\* One turn of the loop of match_aggressive_sell: one fill at the best bid.
MatchAggressiveSell ==
    /\ call.side = "Sell"
    /\ SellMatches
    /\ LET fill_qty == FillQty(call.remaining, BestBid.total_quantity) IN
       /\ call' = [call EXCEPT !.remaining = @ - fill_qty]
       /\ bids_' = TakeFrom(bids_, BestIndex(bids_), fill_qty)
    /\ UNCHANGED <<asks_, pool, live, dropped, late>>

\* Faulty variant: the slot of an order that was filled at once is not given back.
AddOrderFilledKeepsSlot ==
    /\ call # NoCall
    /\ call.remaining = 0
    /\ call' = NoCall
    /\ UNCHANGED <<book, pool, live, dropped, late>>

\* Fully filled: the slot goes back to the pool.
AddOrderFilled ==
    /\ call # NoCall
    /\ call.remaining = 0
    /\ FreeListPush(call.slot)
    /\ call' = NoCall
    /\ UNCHANGED <<book, order_pool_, order_id_to_slot_, next_order_id_, live, late>>

\* The rest of the order joins its side of the book.
AddOrderRest ==
    /\ call # NoCall
    /\ call.remaining > 0
    /\ \/ /\ call.side = "Buy" /\ ~BuyMatches
          /\ bids_' = Upsert(bids_, call.price_ticks, call.remaining)
          /\ UNCHANGED asks_
       \/ /\ call.side = "Sell" /\ ~SellMatches
          /\ asks_' = Upsert(asks_, call.price_ticks, call.remaining)
          /\ UNCHANGED bids_
    /\ live' = live \cup {call}
    /\ call' = NoCall
    /\ UNCHANGED <<pool, dropped, late>>

-----------------------------------------------------------------------------

AddOrder ==
    \/ \E side \in {"Buy", "Sell"}, price_ticks \in Prices, quantity \in Quantities :
          AddOrderAllocate(side, price_ticks, quantity)
    \/ AddOrderExhausted

InsideAddOrder ==
    \/ MatchAggressiveBuy
    \/ MatchAggressiveSell
    \/ AddOrderFilled
    \/ AddOrderRest

\* Clients may cancel any id, issued or not, as often as they like.
Next ==
    \/ AddOrder
    \/ InsideAddOrder
    \/ \E order_id \in 0 .. MaxCalls : CancelOrder(order_id) \/ AddOrderCancel(order_id)

Spec == Init /\ [][Next]_vars

-----------------------------------------------------------------------------
(* Properties.                                                             *)

Order == [order_id : Nat, price_ticks : Int, side : {"Buy", "Sell"}]

Call == [side : {"Buy", "Sell"}, price_ticks : Int, remaining : 0 .. U32 - 1,
         slot : Slot, order_id : Nat]

\* Every variable keeps its type: quantities never leave their unsigned
\* ranges and every slot number in use is a slot of the pool.
TypeOK ==
    /\ bids_ \in Ladder
    /\ asks_ \in Ladder
    /\ order_pool_ \in [Slot -> Order]
    /\ free_list_ \in Seq(Slot)
    /\ order_id_to_slot_ \in [Slot -> Slot \cup {NoSlot}]
    /\ next_order_id_ \in Nat \ {0}
    /\ call \in Call \cup {NoCall}
    /\ live \in SUBSET Call
    /\ dropped \in SUBSET Slot
    /\ late \in BOOLEAN

\* The ladders stay sorted without duplicate prices through inserts, fills
\* and removals: what std::lower_bound, best() and worst() rely on.
LaddersSorted == StrictlySorted(bids_) /\ StrictlySorted(asks_)

\* No level with nothing to trade stays in a ladder, where the matching loop
\* would turn on it for ever.
NoEmptyLevels ==
    /\ \A i \in 1 .. Len(bids_) : bids_[i].total_quantity > 0
    /\ \A i \in 1 .. Len(asks_) : asks_[i].total_quantity > 0

\* The book is never crossed or locked, not even between two fills of one
\* call: spread_ticks() is positive whenever both sides are present.
Uncrossed == HasBid /\ HasAsk => SpreadTicks > 0

\* The orders and the quantities of the book, without slots and ladders.
OrderOf(c) == [id |-> c.order_id, side |-> c.side, price |-> c.price_ticks, left |-> c.remaining]

Book == INSTANCE LimitOrderBook WITH
    bid <- [p \in Prices |-> QuantityAt(bids_, p)],
    ask <- [p \in Prices |-> QuantityAt(asks_, p)],
    resting <- {OrderOf(o) : o \in live},
    taker <- OrderOf(call)

\* The engine is a price-priority limit order book: ids are fresh, every fill is at
\* the best opposite price and within the limit and takes the same quantity from
\* both parties, an order rests only when nothing it could trade with is left, and
\* nothing else moves quantity.  cancel_order does not keep its part of this
\* (CancelEmptiesBook), so it is a property of clients that cancel no resting order.
ImplementsBook == Book!LSpec

\* No order that rests is cancelled.
KeepsOrders == [][live \subseteq live']_vars

\* Price priority for every client, whatever it cancelled before: once an order has
\* arrived, each step of add_order is a trade at the best opposite price within the
\* limit, or the end of an order that is filled or has nothing left to trade with.
MatchesByPriority == [][call # NoCall => Book!Match]_vars

\* add_order returns, from every book in which no level holds a multiple of 2^32
\* (the value the cast of total_quantity cannot tell from 0) when the matching
\* loop comes to it.  From such a level the loop fills 0 for ever.
NarrowLevelsReturn ==
    LET Cut(levels) == \E i \in DOMAIN levels : /\ levels[i].total_quantity > 0
                                               /\ levels[i].total_quantity % U32 = 0
    IN  call # NoCall ~> (call = NoCall \/ Cut(bids_) \/ Cut(asks_))

\* free_list_ holds "indices of free slots": none twice, and none that a
\* resting order or the order being added occupies; no two orders share a slot.
FreeSlotsUnused ==
    LET taken == live \cup ({call} \ {NoCall})
    IN  /\ \A i, j \in DOMAIN free_list_ : free_list_[i] = free_list_[j] => i = j
        /\ \A o \in taken, i \in DOMAIN free_list_ : free_list_[i] # o.slot
        /\ \A o1, o2 \in taken : o1.slot = o2.slot => o1.order_id = o2.order_id

\* No slot leaks: each one is free, or was refused by the free list, or belongs to
\* the order being added, or to an order that rested and was not cancelled.  An
\* order that rested and was filled later is one of these: nothing but its
\* cancel gives its slot back.
SlotsAccounted ==
    \A slot \in Slot :
        \/ \E i \in DOMAIN free_list_ : free_list_[i] = slot
        \/ slot \in dropped
        \/ call # NoCall /\ call.slot = slot
        \/ \E o \in live : o.slot = slot

\* "queue has space during order lifecycle": no push to free_list_ made by
\* add_order or cancel_order is refused.  The constructor's push of the last slot is.
NothingDropped == dropped = {MAX_ORDERS - 1}

\* "Cancel an existing order by order_id": once every order that rested is
\* cancelled, nothing is left in the book to trade with.
CancelEmptiesBook == call = NoCall /\ live = {} => bids_ = <<>> /\ asks_ = <<>>

\* "Order ID map for cancellations": a resting order can be found by its id as long
\* as fewer than MAX_ORDERS ids have been issued after its own, though slots are
\* reused and ids share entries of the map.
RecentLiveAreFound ==
    \A o \in live : next_order_id_ - o.order_id <= MAX_ORDERS => Found(o.order_id)

\* Until some cancel_order finds an order that no longer rests, the pool is what
\* its comments say: free slots are unused, none is lost or refused, and recent
\* orders are found.  Cancels of resting orders, of ids never issued and of ids
\* whose slot has another order by now do no harm.
PoolKept ==
    ~late => FreeSlotsUnused /\ SlotsAccounted /\ NothingDropped /\ RecentLiveAreFound
=============================================================================
