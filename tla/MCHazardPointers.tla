-------------------------- MODULE MCHazardPointers --------------------------
(* HazardPointers for TLC: two readers, with ids of their own or hashed to  *)
(* the same id.                                                             *)
EXTENDS HazardPointers

CONSTANTS r1, r2

TwoReaders == {r1, r2}
DistinctIds == [r \in TwoReaders |-> IF r = r1 THEN 0 ELSE 1]
SameId == [r \in TwoReaders |-> 0]
=============================================================================
