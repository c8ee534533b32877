---------------------------- MODULE MCOrderBook ----------------------------
(* Model checking of OrderBook on small books.                             *)
EXTENDS OrderBook

Bit == INSTANCE Bitwise

\* MAX_ORDERS is a power of two, so masking an id is taking a remainder.
ASSUME MaskIsRemainder ==
    \A id \in 0 .. 2 * MAX_ORDERS : Bit!&(id, MAX_ORDERS - 1) = MapIndex(id)

\* The value of U64 is the square of the value of U32.
ASSUME Widths == U64 = U32 * U32
=============================================================================
