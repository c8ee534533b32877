-------------------------- MODULE SpscQueueProofs --------------------------
(***************************************************************************)
(* Proofs about SpscQueue for every capacity, item set and number of       *)
(* pushes: the indices stay in the ring, push and pop never race on a      *)
(* cell, the ring never holds more than Capacity - 1 items, pop hands the  *)
(* items out in order, and the ring implements BoundedFifo.                *)
(*                                                                         *)
(* The argument numbers the successful operations.  The k-th store to an   *)
(* index is Mask(k - 1) and releases k - 1 accesses, so what a thread has  *)
(* read of the other's index is a count of the other's operations.  All    *)
(* positions in play lie within one turn of the ring (Views), hence equal  *)
(* indices mean equal positions (MaskInjective).                           *)
(***************************************************************************)
EXTENDS SpscQueue, TLAPS

Pushed == Len(sent)
Popped == Len(received)

\* Writes and reads of cells so far, the one of a call in progress included.
Written == IF ppc = "publish" THEN Pushed + 1 ELSE Pushed
Read == IF cpc = "release" THEN Popped + 1 ELSE Popped

\* The k-th store to an index: its value, and the accesses it releases.
HeadStores ==
    /\ Len(head_) = Pushed + 1
    /\ \A k \in 1 .. Len(head_) : head_[k].val = Mask(k - 1) /\ head_[k].rel = k - 1
TailStores ==
    /\ Len(tail_) = Popped + 1
    /\ \A k \in 1 .. Len(tail_) : tail_[k].val = Mask(k - 1) /\ tail_[k].rel = k - 1

\* What each thread knows of the other: a count of its operations, which is
\* also what it is ordered after, and which keeps it within one turn.
Views ==
    /\ psync = pview - 1
    /\ csync = cview - 1
    /\ Pushed - (pview - 1) <= Capacity - 1
    /\ ppc \in {"write", "publish"} => Pushed - (pview - 1) <= Capacity - 2
    /\ Popped <= cview - 1
    /\ cpc \in {"read", "release"} => Popped + 1 <= cview - 1

\* The locals of a call in progress are its position in the ring.
Locals ==
    /\ ppc # "idle" => phead = Mask(Pushed) /\ pnext = Mask(Pushed + 1)
    /\ cpc # "idle" => ctail = Mask(Popped)

\* The cells between tail and head hold the items not yet popped.
Contents ==
    /\ \A k \in 0 .. Pushed : Popped <= k /\ k < Pushed => data_[Mask(k)] = sent[k + 1]
    /\ ppc = "publish" => data_[Mask(Pushed)] = pitem
    /\ cpc = "release" => citem = sent[Popped + 1]

\* The n-th access of a kind goes to cell Mask(n - 1).
AccessOrder ==
    \A i \in Index :
        /\ lastWrite[i] > 0 => lastWrite[i] <= Written /\ Mask(lastWrite[i] - 1) = i
        /\ lastRead[i] > 0 => lastRead[i] <= Read /\ Mask(lastRead[i] - 1) = i

IInv ==
    /\ TypeOK
    /\ HeadStores
    /\ TailStores
    /\ Views
    /\ Locals
    /\ Contents
    /\ AccessOrder
    /\ FifoOrder

\* Append puts its element last and keeps the others.
LEMMA AppendFacts ==
    ASSUME NEW S, NEW s \in Seq(S), NEW x \in S
    PROVE  /\ Append(s, x) \in Seq(S) /\ Append(s, x) # <<>>
           /\ Len(Append(s, x)) = Len(s) + 1
           /\ \A i \in 1 .. Len(s) : Append(s, x)[i] = s[i]
           /\ Append(s, x)[Len(s) + 1] = x
OBVIOUS

-----------------------------------------------------------------------------
(* Arithmetic of the mask.                                                 *)

\* Masking any integer gives a ring index: the code's & never leaves the ring.
LEMMA MaskType == ASSUME NEW n \in Int PROVE Mask(n) \in Index
BY CapacityAssumption DEF Mask, Index

\* A position is whole turns of the ring plus its index.
LEMMA MaskDivision ==
    ASSUME NEW n \in Nat
    PROVE  n \div Capacity \in Nat /\ n = Capacity * (n \div Capacity) + Mask(n)
BY CapacityAssumption DEF Mask

\* Turns and index of a position are unique.
LEMMA DivisionUnique ==
    ASSUME NEW q \in Int, NEW r \in Index, NEW p \in Int, NEW s \in Index,
           Capacity * q + r = Capacity * p + s
    PROVE  q = p /\ r = s
<1> USE CapacityAssumption DEF Index
<1>1. CASE q = p
  BY <1>1
<1>2. CASE q >= p + 1
  <2>1. Capacity * q >= Capacity * (p + 1)
    BY <1>2
  <2>2. Capacity * (p + 1) = Capacity * p + Capacity
    OBVIOUS
  <2> QED BY <2>1, <2>2
<1>3. CASE p >= q + 1
  <2>1. Capacity * p >= Capacity * (q + 1)
    BY <1>3
  <2>2. Capacity * (q + 1) = Capacity * q + Capacity
    OBVIOUS
  <2> QED BY <2>1, <2>2
<1> QED BY <1>1, <1>2, <1>3

\* The first index is 0.
LEMMA MaskZero == Mask(0) = 0
BY CapacityAssumption DEF Mask

\* An index is its own mask.
LEMMA MaskIdentity == ASSUME NEW i \in Index PROVE Mask(i) = i
BY CapacityAssumption DEF Mask, Index

\* One whole turn leads back to the same index.
LEMMA MaskTurn == ASSUME NEW n \in Nat PROVE Mask(n + Capacity) = Mask(n)
<1> DEFINE q == n \div Capacity
           p == (n + Capacity) \div Capacity
<1>1. n + Capacity \in Nat
  BY CapacityAssumption
<1>2. q \in Nat /\ n = Capacity * q + Mask(n)
  BY MaskDivision
<1>3. p \in Nat /\ n + Capacity = Capacity * p + Mask(n + Capacity)
  BY <1>1, MaskDivision
<1>4. Mask(n) \in Index /\ Mask(n + Capacity) \in Index
  BY <1>1, MaskType
<1> HIDE DEF q, p
<1>5. Capacity * (q + 1) = Capacity * q + Capacity /\ Capacity * q \in Int
  BY <1>2, CapacityAssumption
<1>6. Capacity * (q + 1) + Mask(n) = Capacity * p + Mask(n + Capacity)
  BY <1>2, <1>3, <1>4, <1>5, CapacityAssumption DEF Index
<1> QED BY <1>2, <1>3, <1>4, <1>6, DivisionUnique

\* (index + 1) & mask_ is the index of the next position.
LEMMA MaskNext == ASSUME NEW n \in Nat PROVE Mask(Mask(n) + 1) = Mask(n + 1)
<1> DEFINE q == n \div Capacity
           p == (n + 1) \div Capacity
<1>1. q \in Nat /\ n = Capacity * q + Mask(n)
  BY MaskDivision, Zenon
<1>2. p \in Nat /\ n + 1 = Capacity * p + Mask(n + 1)
  BY MaskDivision
<1>3. Mask(n) \in Index /\ Mask(n + 1) \in Index /\ 0 \in Index
  BY MaskType, CapacityAssumption DEF Index
<1> HIDE DEF q, p
<1>4. CASE Mask(n) = Capacity - 1
  <2>1. Capacity * (q + 1) = Capacity * q + Capacity /\ Capacity * q \in Int
    BY <1>1, CapacityAssumption
  <2>2. Capacity * (q + 1) + 0 = Capacity * p + Mask(n + 1)
    BY <1>1, <1>2, <1>4, <2>1, CapacityAssumption
  <2>3. q + 1 \in Int
    BY <1>1
  <2>4. 0 = Mask(n + 1)
    BY <1>2, <1>3, <2>2, <2>3, DivisionUnique
  <2>5. Mask(Mask(n) + 1) = Mask(0)
    <3>1. Mask(n) + 1 = 0 + Capacity
      BY <1>4, CapacityAssumption
    <3> QED BY <3>1, MaskTurn
  <2> QED BY <2>4, <2>5, MaskZero
<1>5. CASE Mask(n) # Capacity - 1
  <2>1. Mask(n) + 1 \in Index
    BY <1>3, <1>5, CapacityAssumption DEF Index
  <2>2. Capacity * q + (Mask(n) + 1) = Capacity * p + Mask(n + 1)
    BY <1>1, <1>2, <1>3, CapacityAssumption DEF Index
  <2>3. Mask(n) + 1 = Mask(n + 1)
    BY <1>1, <1>2, <1>3, <2>1, <2>2, DivisionUnique
  <2> QED BY <2>1, <2>3, MaskIdentity
<1> QED BY <1>4, <1>5

\* Within one turn of the ring, equal indices mean equal positions.
LEMMA MaskInjective ==
    ASSUME NEW a \in Nat, NEW b \in Nat, a <= b, b < a + Capacity, Mask(a) = Mask(b)
    PROVE  a = b
<1> DEFINE q == a \div Capacity
           p == b \div Capacity
<1>1. q \in Nat /\ a = Capacity * q + Mask(a)
  BY MaskDivision
<1>2. p \in Nat /\ b = Capacity * p + Mask(a)
  BY MaskDivision
<1>3. Mask(a) \in Int
  BY MaskType DEF Index
<1> HIDE DEF q, p
<1>4. Capacity * q \in Int /\ Capacity * p \in Int
  BY <1>1, <1>2, CapacityAssumption
<1>5. CASE p >= q + 1
  <2>1. Capacity * p >= Capacity * (q + 1)
    BY <1>1, <1>2, <1>5, CapacityAssumption
  <2>2. Capacity * (q + 1) = Capacity * q + Capacity
    BY <1>1, CapacityAssumption
  <2> QED BY <1>1, <1>2, <1>3, <1>4, <2>1, <2>2, CapacityAssumption
<1>6. CASE q >= p + 1
  <2>1. Capacity * q >= Capacity * (p + 1)
    BY <1>1, <1>2, <1>6, CapacityAssumption
  <2>2. Capacity * (p + 1) = Capacity * p + Capacity
    BY <1>2, CapacityAssumption
  <2> QED BY <1>1, <1>2, <1>3, <1>4, <2>1, <2>2, CapacityAssumption
<1> QED BY <1>1, <1>2, <1>5, <1>6
-----------------------------------------------------------------------------
(* Consequences of the invariant.                                          *)

\* The counts and what the threads know of them, in order.
Ordered ==
    /\ Pushed \in Nat /\ Popped \in Nat
    /\ pview \in Nat /\ pview - 1 \in Nat /\ pview - 1 <= Popped
    /\ cview \in Nat /\ cview - 1 \in Nat /\ Popped <= cview - 1 /\ cview - 1 <= Pushed
    /\ Pushed - Popped <= Capacity - 1

\* The counts of a reachable state are ordered.
LEMMA Counts == IInv => Ordered
<1> SUFFICES ASSUME IInv PROVE Ordered
  OBVIOUS
<1>1. Pushed \in Nat /\ Popped \in Nat
  BY DEF IInv, TypeOK, Pushed, Popped
<1>2. pview \in Nat /\ pview - 1 \in Nat /\ pview - 1 <= Popped
  BY <1>1 DEF IInv, TypeOK, TailStores
<1>3. cview \in Nat /\ cview - 1 \in Nat /\ Popped <= cview - 1 /\ cview - 1 <= Pushed
  BY <1>1 DEF IInv, TypeOK, HeadStores, Views
<1> QED BY <1>1, <1>2, <1>3, CapacityAssumption DEF IInv, Views, Ordered

\* push writes a cell only after the read that emptied it.
LEMMA WriteOrdered ==
    ASSUME IInv, ppc = "write"
    PROVE  lastRead[phead] <= psync
<1>0. Ordered
  BY Counts
<1> DEFINE n == lastRead[phead]
<1>1. phead = Mask(Pushed) /\ phead \in Index
  BY DEF IInv, Locals, TypeOK
<1>2. n \in Nat
  BY <1>1 DEF IInv, TypeOK
<1>3. Read <= Pushed /\ Read \in Nat
  BY <1>0 DEF IInv, Views, Read, Ordered
<1>4. psync = pview - 1 /\ Pushed - (pview - 1) <= Capacity - 2
  BY DEF IInv, Views
<1>5. n > 0 => n <= Read /\ Mask(n - 1) = Mask(Pushed)
  BY <1>1 DEF IInv, AccessOrder
<1> HIDE DEF n
<1>6. SUFFICES ASSUME n > psync PROVE FALSE
  BY <1>2, <1>4, <1>0 DEF n, Ordered
<1>7. n > 0 /\ n - 1 \in Nat /\ n - 1 < Pushed /\ Pushed < (n - 1) + Capacity
  BY <1>2, <1>3, <1>4, <1>5, <1>6, <1>0, CapacityAssumption DEF Ordered
<1>8. Pushed \in Nat /\ n - 1 <= Pushed /\ Mask(n - 1) = Mask(Pushed)
  BY <1>2, <1>5, <1>7, <1>0 DEF Ordered
<1>9. n - 1 = Pushed
  BY <1>7, <1>8, MaskInjective
<1> QED BY <1>7, <1>8, <1>9

\* pop reads a cell only after the write that filled it.
LEMMA ReadOrdered ==
    ASSUME IInv, cpc = "read"
    PROVE  lastWrite[ctail] <= csync
<1>0. Ordered
  BY Counts
<1> DEFINE n == lastWrite[ctail]
<1>1. ctail = Mask(Popped) /\ ctail \in Index
  BY DEF IInv, Locals, TypeOK
<1>2. n \in Nat
  BY <1>1 DEF IInv, TypeOK
<1>3. csync = cview - 1 /\ Popped + 1 <= csync
  BY DEF IInv, Views
<1>4. Written \in Nat /\ Written - 1 < Popped + Capacity
  BY <1>0, CapacityAssumption DEF IInv, Views, Written, Ordered
<1>5. n > 0 => n <= Written /\ Mask(n - 1) = Mask(Popped)
  BY <1>1 DEF IInv, AccessOrder
<1> HIDE DEF n
<1>6. SUFFICES ASSUME n > csync PROVE FALSE
  BY <1>2, <1>3, <1>0 DEF n, Ordered
<1>7. n > 0 /\ n - 1 \in Nat /\ Popped < n - 1 /\ n - 1 < Popped + Capacity
  BY <1>2, <1>3, <1>4, <1>5, <1>6, <1>0, CapacityAssumption DEF Ordered
<1>8. Popped \in Nat /\ Popped <= n - 1 /\ Mask(Popped) = Mask(n - 1)
  BY <1>2, <1>5, <1>7, <1>0 DEF Ordered
<1>9. Popped = n - 1
  BY <1>7, <1>8, MaskInjective
<1> QED BY <1>7, <1>8, <1>9

\* The invariant gives the properties.
LEMMA Consequences == IInv => TypeOK /\ NoDataRace /\ FifoOrder /\ NeverOverfull
<1> SUFFICES ASSUME IInv PROVE TypeOK /\ NoDataRace /\ FifoOrder /\ NeverOverfull
  OBVIOUS
<1>1. NoDataRace
  BY WriteOrdered, ReadOrdered DEF NoDataRace
<1>2. NeverOverfull
  BY Counts DEF Ordered, NeverOverfull, Pushed, Popped
<1> QED BY <1>1, <1>2 DEF IInv

-----------------------------------------------------------------------------
(* The initial states satisfy the invariant.                               *)

LEMMA InitInv == Init => IInv
<1> SUFFICES ASSUME Init PROVE IInv
  BY Zenon
<1> USE CapacityAssumption DEF Init
<1>1. TypeOK
  BY DEF TypeOK, Index, Cell, Stores
<1>2. HeadStores /\ TailStores
  BY MaskZero DEF HeadStores, TailStores, Pushed, Popped
<1>3. Views /\ Locals
  BY DEF Views, Locals, Pushed, Popped
<1>4. Contents
  BY DEF Contents, Pushed, Popped
<1>5. AccessOrder /\ FifoOrder
  BY DEF AccessOrder, FifoOrder
<1> QED BY <1>1, <1>2, <1>3, <1>4, <1>5 DEF IInv

-----------------------------------------------------------------------------
(* Every step preserves the invariant: the producer.                       *)

\* The newest store to an index is the position of its writer.
LEMMA LatestIndex ==
    ASSUME IInv
    PROVE  Latest(head_) = Mask(Pushed) /\ Latest(tail_) = Mask(Popped)
<1>0. Ordered
  BY Counts
<1> QED BY <1>0 DEF IInv, HeadStores, TailStores, Latest, Ordered

\* An acquire load of the other index at store k: the k - 1 accesses it
\* releases are all the thread is ordered after.
LEMMA AcquiredTail ==
    ASSUME IInv, NEW k \in Readable(tail_, pview)
    PROVE  /\ k \in 1 .. Len(tail_) /\ k - 1 \in Nat /\ pview <= k /\ k - 1 <= Popped
           /\ tail_[k].val = Mask(k - 1) /\ Acquire(tail_, k, psync) = k - 1
<1>0. Ordered
  BY Counts
<1>1. k \in 1 .. Len(tail_) /\ k - 1 \in Nat /\ pview <= k /\ k - 1 <= Popped
  BY <1>0 DEF IInv, TypeOK, TailStores, Readable, Ordered
<1>2. tail_[k].val = Mask(k - 1) /\ tail_[k].rel = k - 1
  BY <1>1 DEF IInv, TailStores
<1>3. psync = pview - 1 /\ pview \in Int
  BY DEF IInv, Views, TypeOK
<1> QED BY <1>1, <1>2, <1>3 DEF Acquire

\* The same for the consumer and head_.
LEMMA AcquiredHead ==
    ASSUME IInv, NEW k \in Readable(head_, cview)
    PROVE  /\ k \in 1 .. Len(head_) /\ k - 1 \in Nat /\ cview <= k /\ k - 1 <= Pushed
           /\ head_[k].val = Mask(k - 1) /\ Acquire(head_, k, csync) = k - 1
<1>0. Ordered
  BY Counts, Zenon
<1>1. k \in 1 .. Len(head_) /\ k - 1 \in Nat /\ cview <= k /\ k - 1 <= Pushed
  BY <1>0 DEF IInv, TypeOK, HeadStores, Readable, Ordered
<1>2. head_[k].val = Mask(k - 1) /\ head_[k].rel = k - 1
  BY <1>1 DEF IInv, HeadStores
<1>3. csync = cview - 1 /\ cview \in Int
  BY DEF IInv, Views, TypeOK
<1> QED BY <1>1, <1>2, <1>3 DEF Acquire

\* The locals of push are the position of the next item.
LEMMA PushBeginStep ==
    ASSUME IInv, NEW item \in Items, PushBegin(item)
    PROVE  IInv'
<1>0. Ordered
  BY Counts
<1> USE DEF PushBegin, memory, consumerVars
<1>1. phead' = Mask(Pushed) /\ pnext' = Mask(Pushed + 1)
  BY LatestIndex, MaskNext, <1>0 DEF Ordered
<1>2. TypeOK'
  <2>1. phead' \in Index /\ pnext' \in Index
    BY <1>0, <1>1, MaskType DEF Ordered
  <2> QED BY <2>1, Zenon DEF IInv, TypeOK, Cell
<1>3. HeadStores' /\ TailStores'
  BY DEF IInv, HeadStores, TailStores, Pushed, Popped
<1>4. Views' /\ Locals'
  BY <1>1 DEF IInv, Views, Locals, Pushed, Popped
<1>5. Contents'
  BY DEF IInv, Contents, Pushed, Popped
<1>6. AccessOrder' /\ FifoOrder'
  BY DEF IInv, AccessOrder, FifoOrder, Written, Read, Pushed, Popped
<1> QED BY <1>2, <1>3, <1>4, <1>5, <1>6 DEF IInv

\* When the test of a possibly stale tail_ passes, there is room.
LEMMA PushCheckStep ==
    ASSUME IInv, NEW k, PushCheck(k)
    PROVE  IInv'
<1>0. Ordered
  BY Counts
<1> USE DEF PushCheck, memory, consumerVars
<1>1. /\ k \in 1 .. Len(tail_) /\ k - 1 \in Nat /\ pview <= k /\ k - 1 <= Popped
      /\ tail_[k].val = Mask(k - 1) /\ pview' = k /\ psync' = k - 1
  BY AcquiredTail
<1>2. TypeOK'
  BY <1>1, Zenon DEF IInv, TypeOK
<1>3. HeadStores' /\ TailStores'
  BY DEF IInv, HeadStores, TailStores, Pushed, Popped
<1>4. Views'
  <2>1. Pushed - (k - 1) <= Capacity - 1
    BY <1>1, <1>0, CapacityAssumption DEF IInv, Views, Ordered
  <2>2. ppc' = "write" => Pushed - (k - 1) <= Capacity - 2
    <3>1. SUFFICES ASSUME ppc' = "write", Pushed - (k - 1) = Capacity - 1
                   PROVE  FALSE
      BY <1>1, <2>1, <1>0, CapacityAssumption DEF Ordered
    <3>2. pnext = Mask(Pushed + 1) /\ pnext # Mask(k - 1)
      BY <1>1, <3>1 DEF IInv, Locals
    <3>3. Pushed + 1 = (k - 1) + Capacity
      BY <1>1, <3>1, <1>0, CapacityAssumption DEF Ordered
    <3> QED BY <1>1, <3>2, <3>3, MaskTurn
  <2> QED BY <1>1, <2>1, <2>2 DEF IInv, Views, Pushed, Popped
<1>5. Locals'
  BY DEF IInv, Locals, Pushed, Popped
<1>6. Contents'
  BY DEF IInv, Contents, Pushed, Popped
<1>7. AccessOrder' /\ FifoOrder'
  BY DEF IInv, AccessOrder, FifoOrder, Written, Read, Pushed, Popped
<1> QED BY <1>2, <1>3, <1>4, <1>5, <1>6, <1>7 DEF IInv

\* The cell written holds no item that is still to be popped.
LEMMA PushWriteStep ==
    ASSUME IInv, PushWrite
    PROVE  IInv'
<1>0. Ordered
  BY Counts
<1> USE DEF PushWrite, consumerVars
<1>1. phead = Mask(Pushed) /\ phead \in Index
  BY DEF IInv, Locals, TypeOK
<1>2. TypeOK'
  <2>1. data_' \in [Index -> Cell]
    BY <1>1 DEF IInv, TypeOK
  <2>2. lastWrite' \in [Index -> Nat]
    <3>1. Len(sent) + 1 \in Nat
      BY <1>0 DEF Ordered, Pushed
    <3> QED BY <1>1, <3>1 DEF IInv, TypeOK
  <2> QED BY <2>1, <2>2, Zenon DEF IInv, TypeOK
<1>3. HeadStores' /\ TailStores'
  BY DEF IInv, HeadStores, TailStores, Pushed, Popped
<1>4. Views' /\ Locals'
  BY DEF IInv, Views, Locals, Pushed, Popped
<1>5. Contents'
  <2>1. ASSUME NEW j \in 0 .. Pushed, Popped <= j, j < Pushed
        PROVE  Mask(j) # Mask(Pushed)
    BY <2>1, <1>0, MaskInjective, CapacityAssumption DEF Ordered
  <2>2. data_'[phead] = pitem /\ \A i \in Index : i # phead => data_'[i] = data_[i]
    BY <1>1 DEF IInv, TypeOK
  <2>3. \A j \in 0 .. Pushed : Mask(j) \in Index
    BY MaskType, <1>0 DEF Ordered
  <2> QED BY <1>1, <2>1, <2>2, <2>3 DEF IInv, Contents, Pushed, Popped
<1>6. AccessOrder'
  <2>1. Written' = Pushed + 1 /\ Written = Pushed /\ Read' = Read
    BY DEF Written, Read, Pushed, Popped
  <2>2. \A i \in Index : lastWrite'[i] = IF i = phead THEN Pushed + 1 ELSE lastWrite[i]
    BY <1>1 DEF IInv, TypeOK, Pushed
  <2>3. \A i \in Index : lastWrite[i] \in Nat
    BY DEF IInv, TypeOK
  <2>4. Mask((Pushed + 1) - 1) = phead
    BY <1>1, <1>0 DEF Ordered
  <2> QED BY <2>1, <2>2, <2>3, <2>4, <1>0 DEF IInv, AccessOrder, Ordered
<1>7. FifoOrder'
  BY DEF IInv, FifoOrder
<1> QED BY <1>2, <1>3, <1>4, <1>5, <1>6, <1>7 DEF IInv

\* The new store announces exactly the item just written.
LEMMA PushPublishStep ==
    ASSUME IInv, PushPublish
    PROVE  IInv'
<1>0. Ordered
  BY Counts, Zenon
<1> USE DEF PushPublish, consumerVars
<1>1. pnext = Mask(Pushed + 1) /\ Pushed - (pview - 1) <= Capacity - 2
  BY DEF IInv, Locals, Views
<1>2. Pushed' = Pushed + 1 /\ Popped' = Popped
  BY DEF IInv, TypeOK, Pushed, Popped
<1>3. /\ \A j \in 1 .. Pushed : sent'[j] = sent[j]
      /\ sent'[Pushed + 1] = pitem
  BY DEF IInv, TypeOK, Pushed
<1>4. TypeOK'
  <2> DEFINE st == [val |-> pnext, rel |-> Len(sent) + 1]
  <2>1. st \in Stores
    BY <1>0 DEF IInv, TypeOK, Stores, Ordered, Pushed
  <2>2. head_' \in Seq(Stores) /\ head_' # <<>> /\ Len(head_') = Len(head_) + 1
    <3>1. head_ \in Seq(Stores)
      BY DEF IInv, TypeOK
    <3>2. head_' = Append(head_, st)
      OBVIOUS
    <3> HIDE DEF st
    <3> QED BY ONLY <2>1, <3>1, <3>2, AppendFacts
  <2>3. sent' \in Seq(Cell)
    BY DEF IInv, TypeOK
  <2>4. cview \in 1 .. Len(head_')
    BY <2>2 DEF IInv, TypeOK
  <2> QED BY <2>2, <2>3, <2>4, Zenon DEF IInv, TypeOK
<1>5. HeadStores' /\ TailStores'
  <2>1. Len(head_) = Pushed + 1 /\ head_ \in Seq(Stores)
    BY DEF IInv, HeadStores, TypeOK
  <2>2. Len(head_') = Pushed + 2
    BY <2>1, <1>0 DEF Ordered
  <2>3. ASSUME NEW j \in 1 .. Pushed + 2
        PROVE  head_'[j].val = Mask(j - 1) /\ head_'[j].rel = j - 1
    <3>1. CASE j \in 1 .. Pushed + 1
      BY <2>1, <3>1, <1>0 DEF IInv, HeadStores, Ordered
    <3>2. CASE j = Pushed + 2
      BY <1>1, <2>1, <3>2, <1>0 DEF Pushed, Ordered
    <3>3. j \in 1 .. Pushed + 1 \/ j = Pushed + 2
      BY <1>0 DEF Ordered
    <3> QED BY <3>1, <3>2, <3>3, Zenon
  <2> QED BY <1>2, <2>2, <2>3, <1>0, SMTT(60) DEF IInv, HeadStores, TailStores, Ordered
<1>6. Views'
  BY <1>1, <1>2, <1>0, CapacityAssumption DEF IInv, Views, Ordered
<1>7. Locals'
  BY <1>2 DEF IInv, Locals
<1>8. Contents'
  <2>1. ASSUME NEW j \in 0 .. Pushed + 1, Popped <= j, j < Pushed + 1
        PROVE  data_[Mask(j)] = sent'[j + 1]
    <3>1. CASE j < Pushed
      <4>1. j \in 0 .. Pushed /\ j + 1 \in 1 .. Pushed
        BY <1>0, <3>1 DEF Ordered
      <4>2. data_[Mask(j)] = sent[j + 1]
        BY <2>1, <3>1, <4>1 DEF IInv, Contents
      <4> QED BY <1>3, <4>1, <4>2, Zenon
    <3>2. CASE j = Pushed
      BY <1>3, <3>2, Zenon DEF IInv, Contents
    <3>3. j < Pushed \/ j = Pushed
      BY <1>0, <2>1 DEF Ordered
    <3> QED BY <3>1, <3>2, <3>3, Zenon
  <2>2. cpc = "release" => citem = sent'[Popped + 1]
    <3>1. cpc = "release" => Popped + 1 \in 1 .. Pushed
      BY <1>0 DEF IInv, Views, Ordered
    <3> QED BY <1>3, <3>1, Zenon DEF IInv, Contents
  <2> QED BY <1>2, <2>1, <2>2, Zenon DEF Contents
<1>9. AccessOrder'
  BY <1>2 DEF IInv, AccessOrder, Written, Read
<1>10. FifoOrder'
  BY <1>2, <1>3, <1>0, SMTT(60) DEF IInv, FifoOrder, Pushed, Popped, Ordered
<1> QED BY <1>4, <1>5, <1>6, <1>7, <1>8, <1>9, <1>10 DEF IInv

-----------------------------------------------------------------------------
(* Every step preserves the invariant: the consumer and size().            *)

\* The local of pop is the position of the next item to hand out.
LEMMA PopBeginStep ==
    ASSUME IInv, PopBegin
    PROVE  IInv'
<1> USE DEF PopBegin, memory, producerVars
<1>0. Ordered
  BY Counts
<1>1. ctail' = Mask(Popped)
  BY LatestIndex
<1>2. TypeOK'
  <2>1. ctail' \in Index
    BY <1>0, <1>1, MaskType DEF Ordered
  <2> QED BY <2>1, Zenon DEF IInv, TypeOK
<1>3. HeadStores' /\ TailStores'
  BY DEF IInv, HeadStores, TailStores, Pushed, Popped
<1>4. Views' /\ Locals'
  BY <1>1 DEF IInv, Views, Locals, Pushed, Popped
<1>5. Contents'
  BY DEF IInv, Contents, Pushed, Popped
<1>6. AccessOrder' /\ FifoOrder'
  BY DEF IInv, AccessOrder, FifoOrder, Written, Read, Pushed, Popped
<1> QED BY <1>2, <1>3, <1>4, <1>5, <1>6 DEF IInv

\* When the test of a possibly stale head_ passes, an item is visible.
LEMMA PopCheckStep ==
    ASSUME IInv, NEW k, PopCheck(k)
    PROVE  IInv'
<1> USE DEF PopCheck, memory, producerVars
<1>0. Ordered
  BY Counts
<1>1. /\ k \in 1 .. Len(head_) /\ k - 1 \in Nat /\ cview <= k /\ k - 1 <= Pushed
      /\ head_[k].val = Mask(k - 1) /\ cview' = k /\ csync' = k - 1
  BY AcquiredHead
<1>2. TypeOK'
  BY <1>1, Zenon DEF IInv, TypeOK
<1>3. HeadStores' /\ TailStores'
  BY DEF IInv, HeadStores, TailStores, Pushed, Popped
<1>4. Views'
  <2>1. Popped <= k - 1
    BY <1>0, <1>1 DEF Ordered
  <2>2. cpc' = "read" => Popped # k - 1
    BY <1>1 DEF IInv, Locals
  <2>3. cpc' = "read" => Popped + 1 <= k - 1
    BY <1>0, <1>1, <2>1, <2>2 DEF Ordered
  <2> QED BY <1>1, <2>1, <2>3, Zenon DEF IInv, Views, Pushed, Popped
<1>5. Locals'
  BY DEF IInv, Locals, Pushed, Popped
<1>6. Contents'
  BY DEF IInv, Contents, Pushed, Popped
<1>7. AccessOrder' /\ FifoOrder'
  BY DEF IInv, AccessOrder, FifoOrder, Written, Read, Pushed, Popped
<1> QED BY <1>2, <1>3, <1>4, <1>5, <1>6, <1>7 DEF IInv

\* The read is ordered after its write, so it returns the item in turn.
LEMMA PopReadStep ==
    ASSUME IInv, PopRead
    PROVE  IInv'
<1> USE DEF PopRead, producerVars
<1>0. Ordered
  BY Counts
<1>1. ctail = Mask(Popped) /\ ctail \in Index /\ Popped + 1 <= cview - 1
  BY Zenon DEF IInv, Locals, TypeOK, Views
<1>2. citem' = data_[ctail]
  BY ReadOrdered DEF ReadOutcomes
<1>3. citem' = sent[Popped + 1]
  <2>1. Popped \in 0 .. Pushed /\ Popped < Pushed
    BY <1>0, <1>1 DEF Ordered
  <2> QED BY <1>0, <1>1, <1>2, <2>1, SMTT(60) DEF IInv, Contents, Ordered
<1>4. TypeOK'
  <2>1. citem' \in Cell
    BY <1>1, <1>2 DEF IInv, TypeOK
  <2>2. Len(received) + 1 \in Nat
    BY <1>0 DEF Ordered, Popped
  <2>3. lastRead' \in [Index -> Nat]
    BY <1>1, <2>2 DEF IInv, TypeOK
  <2> QED BY <2>1, <2>3, Zenon DEF IInv, TypeOK
<1>5. HeadStores' /\ TailStores'
  BY DEF IInv, HeadStores, TailStores, Pushed, Popped
<1>6. Views' /\ Locals'
  BY DEF IInv, Views, Locals, Pushed, Popped
<1>7. Contents'
  BY <1>3, Zenon DEF IInv, Contents, Pushed, Popped
<1>8. AccessOrder'
  <2>1. Read' = Popped + 1 /\ Read = Popped /\ Written' = Written
    BY DEF Written, Read, Pushed, Popped
  <2>2. \A i \in Index : lastRead'[i] = IF i = ctail THEN Popped + 1 ELSE lastRead[i]
    BY <1>1 DEF IInv, TypeOK, Popped
  <2>3. \A i \in Index : lastRead[i] \in Nat
    BY DEF IInv, TypeOK
  <2>4. Mask((Popped + 1) - 1) = ctail
    BY <1>0, <1>1 DEF Ordered
  <2> QED BY <1>0, <2>1, <2>2, <2>3, <2>4, SMTT(60) DEF IInv, AccessOrder, Ordered
<1>9. FifoOrder'
  BY DEF IInv, FifoOrder
<1> QED BY <1>4, <1>5, <1>6, <1>7, <1>8, <1>9 DEF IInv

\* The item handed out is the next one of those sent.
LEMMA PopReleaseStep ==
    ASSUME IInv, PopRelease
    PROVE  IInv'
<1> USE DEF PopRelease, producerVars
<1>0. Ordered
  BY Counts
<1>1. Mask(ctail + 1) = Mask(Popped + 1) /\ Popped + 1 <= cview - 1
  <2>1. ctail = Mask(Popped) /\ Popped + 1 <= cview - 1
    BY DEF IInv, Locals, Views
  <2> QED BY <1>0, <2>1, MaskNext DEF Ordered
<1>2. Popped' = Popped + 1 /\ Pushed' = Pushed
  BY SMTT(60) DEF IInv, TypeOK, Pushed, Popped
<1>3. /\ \A j \in 1 .. Popped : received'[j] = received[j]
      /\ received'[Popped + 1] = citem
  BY SMTT(60) DEF IInv, TypeOK, Popped
<1>4. TypeOK'
  <2> DEFINE st == [val |-> Mask(ctail + 1), rel |-> Len(received) + 1]
  <2>1. st \in Stores
    BY <1>0, <1>1, MaskType, SMTT(60) DEF Stores, Ordered, Popped
  <2>2. tail_' \in Seq(Stores) /\ tail_' # <<>> /\ Len(tail_') = Len(tail_) + 1
    <3>1. tail_ \in Seq(Stores)
      BY DEF IInv, TypeOK
    <3>2. tail_' = Append(tail_, st)
      OBVIOUS
    <3> HIDE DEF st
    <3> QED BY ONLY <2>1, <3>1, <3>2, AppendFacts
  <2>3. received' \in Seq(Cell)
    BY SMTT(60) DEF IInv, TypeOK
  <2>4. pview \in 1 .. Len(tail_')
    BY <2>2, SMTT(60) DEF IInv, TypeOK
  <2> QED BY <2>2, <2>3, <2>4, Zenon DEF IInv, TypeOK
<1>5. HeadStores' /\ TailStores'
  <2>1. Len(tail_) = Popped + 1 /\ tail_ \in Seq(Stores)
    BY DEF IInv, TailStores, TypeOK
  <2>2. Len(tail_') = Popped + 2
    BY <2>1, <1>0 DEF Ordered
  <2>3. ASSUME NEW j \in 1 .. Popped + 2
        PROVE  tail_'[j].val = Mask(j - 1) /\ tail_'[j].rel = j - 1
    <3>1. CASE j \in 1 .. Popped + 1
      BY <2>1, <3>1, <1>0, SMTT(60) DEF IInv, TailStores, Ordered
    <3>2. CASE j = Popped + 2
      BY <1>1, <2>1, <3>2, <1>0, SMTT(60) DEF Popped, Ordered
    <3>3. j \in 1 .. Popped + 1 \/ j = Popped + 2
      BY <1>0 DEF Ordered
    <3> QED BY <3>1, <3>2, <3>3, Zenon
  <2>4. TailStores'
    BY ONLY <1>2, <2>2, <2>3, <1>0 DEF TailStores, Ordered
  <2>5. HeadStores'
    BY <1>2 DEF IInv, HeadStores
  <2> QED BY <2>4, <2>5
<1>6. Views'
  BY <1>1, <1>2, <1>0 DEF IInv, Views, Ordered
<1>7. Locals'
  BY <1>2, Zenon DEF IInv, Locals
<1>8. Contents'
  BY <1>0, <1>2, SMTT(60) DEF IInv, Contents, Ordered
<1>9. AccessOrder'
  BY <1>2 DEF IInv, AccessOrder, Written, Read
<1>10. FifoOrder'
  <2>1. citem = sent[Popped + 1]
    BY DEF IInv, Contents
  <2>2. ASSUME NEW j \in 1 .. Popped + 1
        PROVE  received'[j] = sent[j]
    <3>1. CASE j \in 1 .. Popped
      BY <1>3, <3>1 DEF IInv, FifoOrder, Popped
    <3>2. CASE j = Popped + 1
      BY <1>3, <2>1, <3>2, Zenon
    <3>3. j \in 1 .. Popped \/ j = Popped + 1
      BY <1>0 DEF Ordered
    <3> QED BY <3>1, <3>2, <3>3, Zenon
  <2>3. Popped + 1 <= Pushed
    BY <1>0, <1>1 DEF Ordered
  <2> QED BY <1>2, <2>2, <2>3 DEF FifoOrder, Pushed, Popped
<1> QED BY <1>4, <1>5, <1>6, <1>7, <1>8, <1>9, <1>10 DEF IInv

\* Asking for the size from the producer only refreshes its view of tail_.
LEMMA PushSideSizeStep ==
    ASSUME IInv, NEW k, PushSideSize(k)
    PROVE  IInv'
<1> USE DEF PushSideSize, memory, consumerVars
<1>0. Ordered
  BY Counts, Zenon
<1>1. /\ k \in 1 .. Len(tail_) /\ k - 1 \in Nat /\ pview <= k /\ k - 1 <= Popped
      /\ tail_[k].val = Mask(k - 1) /\ pview' = k /\ psync' = k - 1
  BY AcquiredTail, Zenon
<1>2. TypeOK'
  <2>1. Latest(head_) \in Index /\ tail_[k].val \in Index
    <3>1. Pushed \in Int /\ k - 1 \in Int
      BY ONLY <1>0, <1>1 DEF Ordered
    <3>2. Mask(Pushed) \in Index /\ Mask(k - 1) \in Index
      BY ONLY <3>1, MaskType
    <3>3. Latest(head_) = Mask(Pushed)
      BY LatestIndex
    <3> QED BY ONLY <1>1, <3>2, <3>3
  <2>2. Latest(head_) - tail_[k].val \in Int
    BY <2>1, SMTT(60) DEF Index
  <2>3. sizeRet' \in Index
    BY <2>2, MaskType, Zenon
  <2> QED BY <1>1, <2>3, Zenon DEF IInv, TypeOK
<1>3. HeadStores' /\ TailStores'
  BY DEF IInv, HeadStores, TailStores, Pushed, Popped
<1>4. Views'
  <2>1. Pushed - (k - 1) <= Capacity - 1
    BY <1>0, <1>1, CapacityAssumption, SMTT(60) DEF IInv, Views, Ordered
  <2> QED BY <1>1, <2>1, Zenon DEF IInv, Views, Pushed, Popped
<1>5. Locals' /\ Contents'
  BY Zenon DEF IInv, Locals, Contents, Pushed, Popped
<1>6. AccessOrder' /\ FifoOrder'
  BY Zenon DEF IInv, AccessOrder, FifoOrder, Written, Read, Pushed, Popped
<1> QED BY <1>2, <1>3, <1>4, <1>5, <1>6 DEF IInv

\* Asking for the size from the consumer only refreshes its view of head_.
LEMMA PopSideSizeStep ==
    ASSUME IInv, NEW k, PopSideSize(k)
    PROVE  IInv'
<1> USE DEF PopSideSize, memory, producerVars
<1>0. Ordered
  BY Counts, Zenon
<1>1. /\ k \in 1 .. Len(head_) /\ k - 1 \in Nat /\ cview <= k /\ k - 1 <= Pushed
      /\ head_[k].val = Mask(k - 1) /\ cview' = k /\ csync' = k - 1
  BY AcquiredHead, Zenon
<1>2. TypeOK'
  <2>1. Latest(tail_) \in Index /\ head_[k].val \in Index
    <3>1. Popped \in Int /\ k - 1 \in Int
      BY ONLY <1>0, <1>1 DEF Ordered
    <3>2. Mask(Popped) \in Index /\ Mask(k - 1) \in Index
      BY ONLY <3>1, MaskType, Zenon
    <3>3. Latest(tail_) = Mask(Popped)
      BY LatestIndex
    <3> QED BY ONLY <1>1, <3>2, <3>3
  <2>2. head_[k].val - Latest(tail_) \in Int
    BY <2>1, SMTT(60) DEF Index
  <2>3. sizeRet' \in Index
    BY <2>2, MaskType, Zenon
  <2> QED BY <1>1, <2>3, Zenon DEF IInv, TypeOK
<1>3. HeadStores' /\ TailStores'
  BY Zenon DEF IInv, HeadStores, TailStores, Pushed, Popped
<1>4. Views'
  <2>1. Popped <= k - 1
    BY ONLY <1>0, <1>1 DEF Ordered
  <2> QED BY <1>1, <2>1, Zenon DEF IInv, Views, Pushed, Popped
<1>5. Locals' /\ Contents'
  BY Zenon DEF IInv, Locals, Contents, Pushed, Popped
<1>6. AccessOrder' /\ FifoOrder'
  BY DEF IInv, AccessOrder, FifoOrder, Written, Read, Pushed, Popped
<1> QED BY <1>2, <1>3, <1>4, <1>5, <1>6, Zenon DEF IInv

\* Steps that change nothing keep the invariant.
LEMMA StutterStep ==
    ASSUME IInv, UNCHANGED vars
    PROVE  IInv'
<1> USE DEF vars, memory, producerVars, consumerVars
<1>1. TypeOK'
  BY Zenon DEF IInv, TypeOK
<1>2. HeadStores' /\ TailStores' /\ Views' /\ Locals'
  BY Zenon DEF IInv, HeadStores, TailStores, Views, Locals, Pushed, Popped
<1>3. Contents' /\ AccessOrder' /\ FifoOrder'
  BY DEF IInv, Contents, AccessOrder, FifoOrder, Written, Read, Pushed, Popped
<1> QED BY <1>1, <1>2, <1>3 DEF IInv

-----------------------------------------------------------------------------
(* The theorems.                                                           *)

\* Every step of the two threads preserves the invariant.
LEMMA NextInv == IInv /\ [Next]_vars => IInv'
<1> SUFFICES ASSUME IInv, [Next]_vars PROVE IInv'
  OBVIOUS
<1>1. CASE Producer
  BY <1>1, PushBeginStep, PushCheckStep, PushWriteStep, PushPublishStep, PushSideSizeStep
     DEF Producer
<1>2. CASE Consumer
  BY <1>2, PopBeginStep, PopCheckStep, PopReadStep, PopReleaseStep, PopSideSizeStep
     DEF Consumer
<1>3. CASE UNCHANGED vars
  BY <1>3, StutterStep
<1> QED BY <1>1, <1>2, <1>3 DEF Next

\* The invariant holds in every reachable state of the queue.
THEOREM Invariance == Spec => []IInv
BY InitInv, NextInv, PTL DEF Spec

\* Ring indices and all other variables keep their types, so data_[head] and
\* data_[tail] are always valid subscripts.
THEOREM TypeCorrect == Spec => []TypeOK
BY Invariance, Consequences, PTL

\* push and pop never race on a cell, for any capacity and any staleness of
\* the loads the memory model allows.
THEOREM RaceFreedom == Spec => []NoDataRace
BY Invariance, Consequences, PTL

\* Items come out in the order in which they were pushed, each exactly once.
THEOREM OrderKept == Spec => []FifoOrder
BY Invariance, Consequences, PTL

\* At most Capacity - 1 items are in the ring.
THEOREM Bounded == Spec => []NeverOverfull
BY Invariance, Consequences, PTL

-----------------------------------------------------------------------------
(* The ring implements a bounded FIFO with delayed notice.                 *)

\* Any integer is whole turns plus its index.
LEMMA IntDivision ==
    ASSUME NEW n \in Int
    PROVE  n \div Capacity \in Int /\ n = Capacity * (n \div Capacity) + Mask(n)
BY CapacityAssumption DEF Mask

\* (head - tail) & mask_ is the distance of two positions within one turn,
\* whether or not the difference of their indices is negative.
LEMMA MaskDifference ==
    ASSUME NEW a \in Nat, NEW b \in Nat, b <= a, a < b + Capacity
    PROVE  Mask(Mask(a) - Mask(b)) = a - b
<1> DEFINE x == Mask(a) - Mask(b)
           p == a \div Capacity
           q == b \div Capacity
           z == x \div Capacity
<1>1. p \in Nat /\ a = Capacity * p + Mask(a) /\ q \in Nat /\ b = Capacity * q + Mask(b)
  BY MaskDivision
<1>2. Mask(a) \in Int /\ Mask(b) \in Int /\ x \in Int
  BY MaskType DEF Index
<1>3. z \in Int /\ x = Capacity * z + Mask(x) /\ Mask(x) \in Index
  <2> HIDE DEF x
  <2> QED BY <1>2, IntDivision, MaskType
<1>4. a - b \in Index
  BY CapacityAssumption DEF Index
<1> HIDE DEF p, q, z
<1>5. x = Mask(a) - Mask(b)
  OBVIOUS
<1> HIDE DEF x
<1>6. /\ Capacity * p \in Int /\ Capacity * q \in Int /\ Capacity * z \in Int
      /\ Capacity * (z + (p - q)) = Capacity * z + (Capacity * p - Capacity * q)
  BY <1>1, <1>3, CapacityAssumption
<1>7. Capacity * (z + (p - q)) + Mask(x) = Capacity * 0 + (a - b)
  <2>1. Mask(x) \in Int /\ Capacity * 0 = 0
    BY <1>3, CapacityAssumption DEF Index
  <2> QED BY ONLY <1>1, <1>2, <1>3, <1>5, <1>6, <2>1, SMTT(60)
<1>8. z + (p - q) \in Int /\ 0 \in Int
  BY <1>1, <1>3
<1>9. Mask(x) = a - b
  BY ONLY <1>3, <1>4, <1>7, <1>8, DivisionUnique
<1> QED BY <1>9 DEF x

\* Sequences of the same elements are equal.
LEMMA SeqEqual ==
    ASSUME NEW S, NEW s \in Seq(S), NEW t \in Seq(S), Len(s) = Len(t),
           \A i \in 1 .. Len(s) : s[i] = t[i]
    PROVE  s = t
OBVIOUS

\* A suffix of a sequence, by position.
LEMMA SuffixFacts ==
    ASSUME NEW S, NEW s \in Seq(S), NEW n \in 0 .. Len(s)
    PROVE  /\ SubSeq(s, n + 1, Len(s)) \in Seq(S)
           /\ Len(SubSeq(s, n + 1, Len(s))) = Len(s) - n
           /\ \A i \in 1 .. Len(s) - n : SubSeq(s, n + 1, Len(s))[i] = s[n + i]
BY SMTT(60)

\* The suffix grows at its end when the sequence does.
LEMMA SuffixAppend ==
    ASSUME NEW S, NEW s \in Seq(S), NEW n \in 0 .. Len(s), NEW x \in S
    PROVE  SubSeq(Append(s, x), n + 1, Len(Append(s, x))) = Append(SubSeq(s, n + 1, Len(s)), x)
<1> DEFINE t == Append(s, x)
           u == SubSeq(t, n + 1, Len(t))
           v == SubSeq(s, n + 1, Len(s))
           w == Append(v, x)
<1>1. /\ t \in Seq(S) /\ Len(t) = Len(s) + 1 /\ t[Len(s) + 1] = x
      /\ \A i \in 1 .. Len(s) : t[i] = s[i]
  BY AppendFacts
<1>2. Len(s) \in Nat /\ n \in 0 .. Len(t)
  BY <1>1
<1>3. v \in Seq(S) /\ Len(v) = Len(s) - n /\ \A i \in 1 .. Len(s) - n : v[i] = s[n + i]
  BY SuffixFacts
<1> HIDE DEF t
<1>4. u \in Seq(S) /\ Len(u) = Len(t) - n /\ \A i \in 1 .. Len(t) - n : u[i] = t[n + i]
  BY <1>1, <1>2, SuffixFacts, Zenon
<1> HIDE DEF u, v
<1>5. /\ w \in Seq(S) /\ Len(w) = Len(v) + 1 /\ w[Len(v) + 1] = x
      /\ \A i \in 1 .. Len(v) : w[i] = v[i]
  BY <1>3, AppendFacts
<1> HIDE DEF w
<1>6. ASSUME NEW i \in 1 .. (Len(s) - n) + 1 PROVE u[i] = w[i]
  <2>1. CASE i \in 1 .. Len(s) - n
    <3>1. n + i \in 1 .. Len(s) /\ i \in 1 .. Len(t) - n
      BY <1>1, <1>2, <2>1
    <3> QED BY <1>1, <1>3, <1>4, <1>5, <2>1, <3>1
  <2>2. CASE i = (Len(s) - n) + 1
    <3>1. n + i = Len(s) + 1 /\ i \in 1 .. Len(t) - n
      BY <1>1, <1>2, <2>2
    <3> QED BY <1>1, <1>3, <1>4, <1>5, <2>2, <3>1
  <2>3. i \in 1 .. Len(s) - n \/ i = (Len(s) - n) + 1
    BY <1>2
  <2> QED BY <2>1, <2>2, <2>3
<1>7. Len(u) = Len(w) /\ Len(u) = (Len(s) - n) + 1
  BY <1>1, <1>2, <1>3, <1>4, <1>5
<1>8. u = w
  BY <1>4, <1>5, <1>6, <1>7, SeqEqual, Zenon
<1> QED BY <1>8, Zenon DEF u, w, v, t

\* Without its first element it is the next suffix.
LEMMA SuffixTail ==
    ASSUME NEW S, NEW s \in Seq(S), NEW n \in 0 .. Len(s) - 1
    PROVE  /\ Head(SubSeq(s, n + 1, Len(s))) = s[n + 1]
           /\ Tail(SubSeq(s, n + 1, Len(s))) = SubSeq(s, (n + 1) + 1, Len(s))
<1>1. (n + 1) + 1 = n + 2 /\ Len(s) \in Nat
  OBVIOUS
<1> QED BY <1>1

\* A call in progress has not answered yet, and pushes an item.
InCall ==
    /\ ppc # "idle" => pushRet = "none" /\ pitem \in Items
    /\ cpc # "idle" => popRet = "none"

\* That is an invariant by itself.
LEMMA InCallStep == InCall /\ [Next]_vars => InCall'
<1> SUFFICES ASSUME InCall, [Next]_vars PROVE InCall'
  BY Zenon
<1>1. CASE Producer
  BY <1>1 DEF Producer, PushBegin, PushCheck, PushWrite, PushPublish, PushSideSize, consumerVars,
       InCall
<1>2. CASE Consumer
  BY <1>2, Zenon
     DEF Consumer, PopBegin, PopCheck, PopRead, PopRelease, PopSideSize, producerVars,
       InCall
<1>3. CASE UNCHANGED vars
  BY <1>3 DEF vars, producerVars, consumerVars, InCall
<1> QED BY <1>1, <1>2, <1>3, Zenon DEF Next

\* The abstract variables that the memory determines.
Queue == SubSeq(sent, Len(received) + 1, Len(sent))
Credit == Capacity - 1 - (Len(sent) - (pview - 1))
Returned == Len(received) - (pview - 1)
Visible == (cview - 1) - Len(received)

\* What the invariant says of them.
LEMMA Mapped ==
    ASSUME IInv
    PROVE  /\ Credit \in Nat /\ Returned \in Nat /\ Visible \in Nat
           /\ Credit = Capacity - 1 - (Pushed - (pview - 1))
           /\ Returned = Popped - (pview - 1) /\ Visible = (cview - 1) - Popped
           /\ sent \in Seq(Cell) /\ Popped \in 0 .. Len(sent)
           /\ Queue = SubSeq(sent, Popped + 1, Len(sent))
           /\ Len(Queue) = Pushed - Popped
<1>1. Ordered
  BY Counts, Zenon
<1>2. sent \in Seq(Cell) /\ Popped \in 0 .. Len(sent)
  BY <1>1 DEF Ordered, Pushed, IInv, TypeOK
<1>3. Queue = SubSeq(sent, Popped + 1, Len(sent)) /\ Len(Queue) = Pushed - Popped
  BY <1>2, SuffixFacts DEF Queue, Popped, Pushed
<1>4. /\ Credit = Capacity - 1 - (Pushed - (pview - 1))
      /\ Returned = Popped - (pview - 1) /\ Visible = (cview - 1) - Popped
  BY DEF Credit, Returned, Visible, Pushed, Popped
<1>5. Pushed - (pview - 1) <= Capacity - 1
  BY DEF IInv, Views
<1> QED BY <1>1, <1>2, <1>3, <1>4, <1>5, CapacityAssumption DEF Ordered

\* The steps of the producer that answer or notice something.
LEMMA PushCheckRefines ==
    ASSUME IInv, InCall, NEW k, PushCheck(k)
    PROVE  [Fifo!ANext]_(Fifo!avars)
<1>1. Ordered /\ IInv'
  BY Counts, PushCheckStep
<1>2. /\ k \in 1 .. Len(tail_) /\ k - 1 \in Nat /\ pview <= k /\ k - 1 <= Popped
      /\ tail_[k].val = Mask(k - 1) /\ pview' = k
  BY AcquiredTail DEF PushCheck
<1>3. /\ sent' = sent /\ received' = received /\ cview' = cview
      /\ popRet' = popRet /\ sizeRet' = sizeRet /\ pushRet = "none" /\ ppc = "check"
  BY DEF PushCheck, consumerVars, InCall
<1>4. Queue' = Queue /\ Visible' = Visible
  BY <1>3 DEF Queue, Visible
<1>5. /\ Credit \in Nat /\ Credit = Capacity - 1 - (Pushed - (pview - 1))
      /\ Returned = Popped - (pview - 1)
      /\ Credit' = Capacity - 1 - (Pushed - (k - 1)) /\ Returned' = Popped - (k - 1)
  <2>1. Pushed' = Pushed /\ Popped' = Popped
    BY <1>3 DEF Pushed, Popped
  <2> QED BY <1>1, <1>2, <2>1, Mapped DEF Credit, Returned, Pushed, Popped
<1>6. CASE pnext = tail_[k].val /\ pushRet' = "false"
  <2>1. pnext = Mask(Pushed + 1)
    BY <1>3, Zenon DEF IInv, Locals
  <2>2. Pushed - (k - 1) <= Capacity - 1
    BY <1>1, <1>2, CapacityAssumption, SMTT(60) DEF IInv, Views, Ordered
  <2>3. Pushed - (k - 1) = Capacity - 1
    <3>1. SUFFICES ASSUME Pushed + 1 < (k - 1) + Capacity PROVE FALSE
      BY <1>1, <1>2, <2>2, CapacityAssumption DEF Ordered
    <3>2. k - 1 <= Pushed + 1 /\ Pushed + 1 \in Nat /\ k - 1 # Pushed + 1
      BY <1>1, <1>2, CapacityAssumption DEF Ordered
    <3> QED BY <1>2, <1>6, <2>1, <3>1, <3>2, MaskInjective
  <2>4. Credit = 0 /\ k = pview
    BY <1>1, <1>2, <1>5, <2>3, CapacityAssumption DEF Ordered
  <2>5. Credit' = Credit /\ Returned' = Returned
    BY <1>5, <2>4
  <2> QED BY <1>3, <1>4, <1>6, <2>4, <2>5
          DEF Fifo!ANext, Fifo!Refuse, Queue, Credit, Returned, Visible
<1>7. CASE pushRet' = pushRet /\ k = pview
  <2>1. Credit' = Credit /\ Returned' = Returned
    BY <1>5, <1>7
  <2> QED BY <1>3, <1>4, <1>7, <2>1 DEF Fifo!avars, Queue, Credit, Returned, Visible
<1>8. CASE pushRet' = pushRet /\ k # pview
  <2>1. /\ k - pview \in 1 .. Returned /\ Credit' = Credit + (k - pview)
        /\ Returned' = Returned - (k - pview)
    BY <1>1, <1>2, <1>5, <1>8, CapacityAssumption DEF Ordered
  <2>2. Fifo!NoticeRoom
    BY <1>3, <1>4, <1>8, <2>1 DEF Fifo!NoticeRoom, Queue, Credit, Returned, Visible
  <2> QED BY <2>2, Zenon DEF Fifo!ANext
<1> QED BY <1>6, <1>7, <1>8 DEF PushCheck

\* The release store of head_ accepts the item into a place the producer knew.
LEMMA PushPublishRefines ==
    ASSUME IInv, InCall, PushPublish
    PROVE  [Fifo!ANext]_(Fifo!avars)
<1>1. Ordered
  BY Counts, Zenon
<1>2. /\ sent' = Append(sent, pitem) /\ received' = received /\ pushRet = "none"
      /\ pview' = pview /\ cview' = cview /\ pitem \in Items
      /\ popRet' = popRet /\ sizeRet' = sizeRet /\ pushRet' = "true"
  BY DEF PushPublish, consumerVars, InCall
<1>3. /\ sent \in Seq(Cell) /\ pitem \in Cell /\ Popped \in 0 .. Len(sent)
      /\ Queue = SubSeq(sent, Popped + 1, Len(sent))
      /\ Credit = Capacity - 1 - (Pushed - (pview - 1))
  BY <1>2, Mapped DEF Cell
<1>4. Queue' = Append(Queue, pitem)
  <2>1. Queue' = SubSeq(Append(sent, pitem), Popped + 1, Len(Append(sent, pitem)))
    BY <1>2 DEF Queue, Popped
  <2> QED BY <1>3, <2>1, SuffixAppend, Zenon
<1>5. Visible' = Visible /\ Returned' = Returned
  BY <1>2 DEF Visible, Returned
<1>6. Credit' = Credit - 1 /\ Credit > 0
  <2>1. Len(sent') = Pushed + 1
    BY <1>2, <1>3, AppendFacts DEF Pushed
  <2>2. Credit' = Capacity - 1 - ((Pushed + 1) - (pview - 1))
    BY <1>2, <2>1 DEF Credit
  <2>3. Pushed - (pview - 1) <= Capacity - 2
    BY DEF PushPublish, IInv, Views
  <2> QED BY <1>1, <1>3, <2>2, <2>3, CapacityAssumption DEF Ordered
<1>7. Fifo!Accept(pitem)
  BY <1>2, <1>4, <1>5, <1>6, Zenon DEF Fifo!Accept, Queue, Credit, Returned, Visible
<1> QED BY <1>2, <1>7 DEF Fifo!ANext

\* size() on the producer's side counts all that is queued, and the places
\* whose return it has not noticed.
LEMMA PushSideSizeRefines ==
    ASSUME IInv, NEW k, PushSideSize(k)
    PROVE  [Fifo!ANext]_(Fifo!avars)
<1>1. Ordered
  BY Counts, Zenon
<1>2. /\ k \in 1 .. Len(tail_) /\ k - 1 \in Nat /\ pview <= k /\ k - 1 <= Popped
      /\ tail_[k].val = Mask(k - 1) /\ pview' = k
  BY AcquiredTail DEF PushSideSize
<1>3. /\ sent' = sent /\ received' = received /\ cview' = cview
      /\ popRet' = popRet /\ pushRet' = pushRet
      /\ sizeRet' = Mask(Latest(head_) - tail_[k].val)
  BY Zenon DEF PushSideSize, consumerVars
<1>4. Queue' = Queue /\ Visible' = Visible
  BY <1>3 DEF Queue, Visible
<1>5. /\ Credit = Capacity - 1 - (Pushed - (pview - 1)) /\ Returned = Popped - (pview - 1)
      /\ Credit' = Capacity - 1 - (Pushed - (k - 1)) /\ Returned' = Popped - (k - 1)
  BY <1>2, <1>3, Zenon DEF Credit, Returned, Pushed, Popped
<1>6. sizeRet' = Pushed - (k - 1)
  <2>1. sizeRet' = Mask(Mask(Pushed) - Mask(k - 1))
    BY <1>2, <1>3, LatestIndex
  <2>2. k - 1 <= Pushed /\ Pushed < (k - 1) + Capacity /\ Pushed \in Nat
    BY <1>1, <1>2, CapacityAssumption, SMTT(60) DEF IInv, Views, Ordered
  <2> QED BY <1>2, <2>1, <2>2, MaskDifference, Zenon
<1>7. /\ k - pview \in 0 .. Returned /\ Credit' = Credit + (k - pview)
      /\ Returned' = Returned - (k - pview)
      /\ sizeRet' = (Capacity - 1) - (Credit + (k - pview))
  BY <1>1, <1>2, <1>5, <1>6, CapacityAssumption, SMTT(60) DEF Ordered
<1>8. Fifo!SizeForProducer
  BY <1>3, <1>4, <1>7 DEF Fifo!SizeForProducer, Queue, Credit, Returned, Visible
<1> QED BY <1>8 DEF Fifo!ANext

\* The steps of the consumer: an empty answer means that nothing is visible.
LEMMA PopCheckRefines ==
    ASSUME IInv, InCall, NEW k, PopCheck(k)
    PROVE  [Fifo!ANext]_(Fifo!avars)
<1>1. Ordered
  BY Counts, Zenon
<1>2. /\ k \in 1 .. Len(head_) /\ k - 1 \in Nat /\ cview <= k /\ k - 1 <= Pushed
      /\ head_[k].val = Mask(k - 1) /\ cview' = k
  BY AcquiredHead DEF PopCheck
<1>3. /\ sent' = sent /\ received' = received /\ pview' = pview
      /\ pushRet' = pushRet /\ sizeRet' = sizeRet /\ popRet = "none" /\ cpc = "check"
  BY DEF PopCheck, producerVars, InCall
<1>4. Queue' = Queue /\ Credit' = Credit /\ Returned' = Returned
  BY <1>3 DEF Queue, Credit, Returned
<1>5. /\ Visible = (cview - 1) - Popped /\ Visible' = (k - 1) - Popped
      /\ Len(Queue) = Pushed - Popped
  BY <1>2, <1>3, Mapped DEF Visible, Popped
<1>6. CASE ctail = head_[k].val /\ popRet' = "nullopt"
  <2>1. Popped <= k - 1 /\ k - 1 < Popped + Capacity /\ Mask(Popped) = Mask(k - 1)
    BY <1>1, <1>2, <1>3, <1>6, CapacityAssumption, SMTT(60) DEF IInv, Locals, Ordered
  <2>2. k - 1 = Popped
    BY <1>1, <1>2, <2>1, MaskInjective DEF Ordered
  <2>3. Visible = 0 /\ Visible' = Visible
    BY <1>1, <1>2, <1>5, <2>2 DEF Ordered
  <2>4. Fifo!Nothing
    BY <1>3, <1>4, <1>6, <2>3, Zenon DEF Fifo!Nothing, Queue, Credit, Returned, Visible
  <2> QED BY <2>4 DEF Fifo!ANext
<1>7. CASE popRet' = popRet /\ k = cview
  <2>1. Visible' = Visible
    BY <1>5, <1>7
  <2> QED BY <1>3, <1>4, <1>7, <2>1 DEF Fifo!avars, Queue, Credit, Returned, Visible
<1>8. CASE popRet' = popRet /\ k # cview
  <2>1. Visible' \in (Visible + 1) .. Len(Queue)
    BY <1>1, <1>2, <1>5, <1>8 DEF Ordered
  <2>2. Fifo!NoticeItems
    BY <1>3, <1>4, <1>8, <2>1 DEF Fifo!NoticeItems, Queue, Credit, Returned, Visible
  <2> QED BY <2>2 DEF Fifo!ANext
<1> QED BY <1>6, <1>7, <1>8 DEF PopCheck

\* The release store of tail_ hands out the oldest item and returns its place.
LEMMA PopReleaseRefines ==
    ASSUME IInv, InCall, PopRelease
    PROVE  [Fifo!ANext]_(Fifo!avars)
<1>1. Ordered
  BY Counts, Zenon
<1>2. /\ sent' = sent /\ received' = Append(received, citem) /\ popRet = "none"
      /\ pview' = pview /\ cview' = cview
      /\ pushRet' = pushRet /\ sizeRet' = sizeRet /\ popRet' = "item" /\ cpc = "release"
  BY Zenon DEF PopRelease, producerVars, InCall
<1>3. Popped + 1 <= cview - 1 /\ citem = sent[Popped + 1]
  BY <1>2 DEF IInv, Views, Contents
<1>4. sent \in Seq(Cell) /\ Popped \in 0 .. Len(sent) - 1
  BY <1>1, <1>3, Mapped DEF Ordered, Pushed
<1>5. Len(received') = Popped + 1
  BY <1>2, SMTT(60) DEF Popped, IInv, TypeOK
<1>6. Head(Queue) = citem /\ Queue' = Tail(Queue)
  <2>1. Queue' = SubSeq(sent, (Popped + 1) + 1, Len(sent))
    BY <1>2, <1>5 DEF Queue
  <2>2. Queue = SubSeq(sent, Popped + 1, Len(sent))
    BY Mapped
  <2> QED BY <1>3, <1>4, <2>1, <2>2, SuffixTail, Zenon
<1>7. Visible' = Visible - 1 /\ Visible > 0 /\ Returned' = Returned + 1
  <2>1. Visible' = (cview - 1) - (Popped + 1) /\ Returned' = (Popped + 1) - (pview - 1)
    BY <1>2, <1>5 DEF Visible, Returned
  <2>2. Visible = (cview - 1) - Popped /\ Returned = Popped - (pview - 1)
    BY Mapped
  <2> QED BY <1>1, <1>3, <2>1, <2>2, SMTT(60) DEF Ordered
<1>8. Credit' = Credit
  BY <1>2, Zenon DEF Credit
<1>9. Fifo!Deliver
  BY <1>2, <1>6, <1>7, <1>8, Zenon DEF Fifo!Deliver, Queue, Credit, Returned, Visible
<1> QED BY <1>9, Zenon DEF Fifo!ANext

\* size() on the consumer's side counts the items it can see.
LEMMA PopSideSizeRefines ==
    ASSUME IInv, NEW k, PopSideSize(k)
    PROVE  [Fifo!ANext]_(Fifo!avars)
<1>1. Ordered
  BY Counts, Zenon
<1>2. /\ k \in 1 .. Len(head_) /\ k - 1 \in Nat /\ cview <= k /\ k - 1 <= Pushed
      /\ head_[k].val = Mask(k - 1) /\ cview' = k
  BY AcquiredHead DEF PopSideSize
<1>3. /\ sent' = sent /\ received' = received /\ pview' = pview
      /\ popRet' = popRet /\ pushRet' = pushRet
      /\ sizeRet' = Mask(head_[k].val - Latest(tail_))
  BY DEF PopSideSize, producerVars
<1>4. Queue' = Queue /\ Credit' = Credit /\ Returned' = Returned
  BY <1>3, Zenon DEF Queue, Credit, Returned
<1>5. /\ Visible = (cview - 1) - Popped /\ Visible' = (k - 1) - Popped
      /\ Len(Queue) = Pushed - Popped
  BY <1>2, <1>3, Mapped, Zenon DEF Visible, Popped
<1>6. sizeRet' = (k - 1) - Popped
  <2>1. sizeRet' = Mask(Mask(k - 1) - Mask(Popped))
    BY <1>2, <1>3, LatestIndex
  <2>2. Popped <= k - 1 /\ k - 1 < Popped + Capacity /\ Popped \in Nat
    BY <1>1, <1>2, CapacityAssumption, SMTT(60) DEF Ordered
  <2> QED BY <1>2, <2>1, <2>2, MaskDifference, Zenon
<1>7. Visible' \in Visible .. Len(Queue) /\ sizeRet' = Visible'
  BY <1>1, <1>2, <1>5, <1>6, SMTT(60) DEF Ordered
<1>8. Fifo!SizeForConsumer
  BY <1>3, <1>4, <1>7, Zenon DEF Fifo!SizeForConsumer, Queue, Credit, Returned, Visible
<1> QED BY <1>8 DEF Fifo!ANext

\* Beginning a call, the accesses to data_ and stuttering.
LEMMA QuietRefines ==
    ASSUME \/ (\E item \in Items : PushBegin(item)) \/ PushWrite
           \/ PopBegin \/ PopRead \/ UNCHANGED vars
    PROVE  [Fifo!ANext]_(Fifo!avars)
<1>1. UNCHANGED <<sent, received, pview, cview, sizeRet>>
  BY DEF PushBegin, PushWrite, PopBegin, PopRead, vars, producerVars, consumerVars
<1>2. UNCHANGED <<Queue, Credit, Returned, Visible, received, sizeRet>>
  BY <1>1, Zenon DEF Queue, Credit, Returned, Visible
<1>3. \/ UNCHANGED <<pushRet, popRet>>
      \/ pushRet' = "none" /\ popRet' = popRet
      \/ popRet' = "none" /\ pushRet' = pushRet
  BY DEF PushBegin, PushWrite, PopBegin, PopRead, vars, producerVars, consumerVars
<1> QED BY <1>2, <1>3, Zenon
       
        DEF Fifo!ANext, Fifo!avars, Fifo!CallPush, Fifo!CallPop, Queue, Credit, Returned, Visible

\* ImplementsFifo: for every capacity, however late either thread sees the
\* other's index, the ring behaves like a bounded FIFO.  push answers false only
\* when the producer knows of no free place, pop comes back empty only when no
\* item is visible to the consumer, and size() errs to the safe side of the
\* thread that asks.
THEOREM RefinesFifo == Spec => ImplementsFifo
<1>1. Init => Fifo!AInit /\ IInv /\ InCall
  <2>1. Init => Fifo!AInit
    <3> SUFFICES ASSUME Init PROVE Fifo!AInit
      BY Zenon
    <3>1. Queue = <<>>
      <4>1. sent = <<>> /\ received = <<>>
        BY DEF Init
      <4>2. Queue = SubSeq(<<>>, 1, 0)
        BY <4>1 DEF Queue
      <4> QED BY <4>2
    <3>2. Credit = Capacity - 1 /\ Returned = 0 /\ Visible = 0
      <4>1. Len(sent) = 0 /\ Len(received) = 0 /\ pview = 1 /\ cview = 1
        BY DEF Init
      <4> QED BY <4>1, CapacityAssumption DEF Credit, Returned, Visible
    <3> QED BY <3>1, <3>2 DEF Init, Fifo!AInit, Queue, Credit, Returned, Visible
  <2> QED BY <2>1, InitInv, Zenon DEF Init, InCall
<1>2. IInv /\ InCall /\ [Next]_vars => [Fifo!ANext]_(Fifo!avars)
  BY PushCheckRefines, PushPublishRefines, PushSideSizeRefines, PopCheckRefines,
     PopReleaseRefines, PopSideSizeRefines, QuietRefines DEF Next, Producer, Consumer
<1>3. Spec => []InCall
  BY <1>1, InCallStep, PTL DEF Spec
<1> QED BY <1>1, <1>2, <1>3, Invariance, PTL DEF Spec, ImplementsFifo, Fifo!ASpec
=============================================================================
