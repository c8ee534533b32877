---------------------------- MODULE MCSpscQueue ----------------------------
(* Model checking of SpscQueue on small rings.                             *)
EXTENDS SpscQueue

B == INSTANCE Bitwise

\* The template's constraint on Capacity, and what it buys: masking with
\* Capacity - 1 is the remainder.
ASSUME PowerOfTwo ==
    /\ Capacity > 0
    /\ B!&(Capacity, Capacity - 1) = 0
    /\ \A i \in 0 .. 3 * Capacity : B!&(i, Capacity - 1) = Mask(i)
=============================================================================
