-------------------------- MODULE FlatPriceLadder --------------------------
(***************************************************************************)
(* hft::FlatPriceLadder (1_orderbook/include/price_level.hpp): a vector of *)
(* price levels kept in ascending order of price, searched with            *)
(* std::lower_bound.  A ladder is a sequence of levels; every operation    *)
(* is an operator from ladders to ladders.  order_count is written and     *)
(* never read by the engine, so a level is its price and its quantity.     *)
(***************************************************************************)
EXTENDS Integers, Sequences

CONSTANT U64   \* number of values of uint64_t, the type of total_quantity

ASSUME U64Assumption == U64 \in Nat \ {0}

\* struct PriceLevel
PriceLevel == [price_ticks : Int, total_quantity : 0 .. U64 - 1]

Ladder == Seq(PriceLevel)

\* std::lower_bound: the first position whose price is not below the key, or
\* one past the end.
LowerBound(levels_, price_ticks) ==
    CHOOSE i \in 1 .. Len(levels_) + 1 :
        /\ i <= Len(levels_) => levels_[i].price_ticks >= price_ticks
        /\ \A j \in 1 .. i - 1 : levels_[j].price_ticks < price_ticks

\* it != levels_.end() && it->price_ticks == price_ticks
Hit(levels_, it, price_ticks) ==
    it <= Len(levels_) /\ levels_[it].price_ticks = price_ticks

\* find(): the quantity at a price, 0 where find returns nullptr.
QuantityAt(levels_, price_ticks) ==
    LET it == LowerBound(levels_, price_ticks) IN
    IF Hit(levels_, it, price_ticks) THEN levels_[it].total_quantity ELSE 0

\* levels_.insert(it, level) and levels_.erase(it)
Insert(levels_, it, level) ==
    SubSeq(levels_, 1, it - 1) \o <<level>> \o SubSeq(levels_, it, Len(levels_))
Erase(levels_, it) == SubSeq(levels_, 1, it - 1) \o SubSeq(levels_, it + 1, Len(levels_))

\* Faulty variant: a new level is appended instead of inserted in order.
UpsertAtEnd(levels_, price_ticks, qty_delta) ==
    LET it == LowerBound(levels_, price_ticks) IN
    IF Hit(levels_, it, price_ticks)
    THEN [levels_ EXCEPT ![it].total_quantity = (@ + qty_delta) % U64]
    ELSE Append(levels_, [price_ticks |-> price_ticks, total_quantity |-> qty_delta])

Upsert(levels_, price_ticks, qty_delta) ==
    LET it == LowerBound(levels_, price_ticks) IN
    IF Hit(levels_, it, price_ticks)
    THEN [levels_ EXCEPT ![it].total_quantity = (@ + qty_delta) % U64]
    ELSE Insert(levels_, it, [price_ticks |-> price_ticks, total_quantity |-> qty_delta])

\* Faulty variant: empty levels stay in the ladder.
RemoveNothing(levels_, price_ticks) == levels_

RemoveIfEmpty(levels_, price_ticks) ==
    LET it == LowerBound(levels_, price_ticks) IN
    IF Hit(levels_, it, price_ticks) /\ levels_[it].total_quantity = 0
    THEN Erase(levels_, it)
    ELSE levels_

\* best() and worst() point at the last and the first level; the callers test
\* for the empty ladder before they look.
BestIndex(levels_) == Len(levels_)
WorstIndex(levels_) == 1

\* Prices strictly ascend, so each price has at most one level.
StrictlySorted(levels_) ==
    \A i, j \in 1 .. Len(levels_) :
        i < j => levels_[i].price_ticks < levels_[j].price_ticks
=============================================================================
