------------------------ MODULE OrderBookPoolProofs ------------------------
(***************************************************************************)
(* Proofs about the pool of order slots, for every pool size and every     *)
(* sequence of calls: until cancel_order finds an order that no longer     *)
(* rests, slots are never shared, never lost, the free list refuses none   *)
(* after the constructor, and recent orders are found by their id.         *)
(* The first such cancel puts an end to this, every time.                  *)
(*                                                                         *)
(* FreeSlotsUnused alone is not inductive.  cancel_order trusts what the   *)
(* map and the pool say, so the invariant relates both to the orders that  *)
(* own slots (Records), and says that no id is in the pool twice (IdsOnce, *)
(* because ids are fresh).  That a push is never refused is a pigeonhole   *)
(* argument: the list holds distinct slots, and not the one pushed.        *)
(*                                                                         *)
(* The FIX pipeline is a client that never cancels, so that this and what  *)
(* OrderBookProofs establishes hold of a book fed with FIX messages.       *)
(***************************************************************************)
EXTENDS FixPipeline, OrderBookProofs

\* The slots the constructor put into the free list.
Pooled == 0 .. MAX_ORDERS - 2

InFree(slot) == \E i \in DOMAIN free_list_ : free_list_[i] = slot

Distinct == \A i, j \in DOMAIN free_list_ : free_list_[i] = free_list_[j] => i = j

RestsAt(order_id, slot) == \E o \in live : o.order_id = order_id /\ o.slot = slot

\* The order being added and the orders that rest.
Owner(order_id, slot) ==
    \/ RestsAt(order_id, slot)
    \/ call # NoCall /\ call.order_id = order_id /\ call.slot = slot

\* Owners are apart from the free list and from each other.
Apart ==
    /\ \A id \in Nat, slot \in Slot : Owner(id, slot) => ~InFree(slot)
    /\ \A id1, id2 \in Nat, slot \in Slot : Owner(id1, slot) /\ Owner(id2, slot) => id1 = id2
    /\ call # NoCall => ~RestsAt(call.order_id, call.slot)

\* The slot the constructor could not push is never in use.
InPool ==
    /\ \A slot \in Slot : InFree(slot) => slot \in Pooled
    /\ \A id \in Nat, slot \in Slot : Owner(id, slot) => slot \in Pooled

\* The record in the slot of an order is its own.
Records ==
    \A id \in Nat, slot \in Slot : Owner(id, slot) => id > 0 /\ order_pool_[slot].order_id = id

\* Records that were written have different ids, all of them issued.
IdsOnce ==
    /\ \A s \in Slot : order_pool_[s].order_id < next_order_id_
    /\ \A s, t \in Slot :
          order_pool_[s].order_id = order_pool_[t].order_id /\ order_pool_[s].order_id # 0 => s = t

\* The map entry of a recent order is its own.
Mapped ==
    \A id \in Nat, slot \in Slot :
        Owner(id, slot) /\ next_order_id_ - id <= MAX_ORDERS =>
            order_id_to_slot_[MapIndex(id)] = slot

\* A slot the map names was pooled and has been written.
Written ==
    \A i \in Slot : order_id_to_slot_[i] # NoSlot =>
        order_id_to_slot_[i] \in Pooled /\ order_pool_[order_id_to_slot_[i]].order_id > 0

Accounted == \A slot \in Pooled : InFree(slot) \/ \E id \in Nat : Owner(id, slot)

PInv ==
    /\ IInv /\ Distinct /\ Apart /\ InPool /\ Records /\ IdsOnce /\ Mapped /\ Written
    /\ Accounted
    /\ NothingDropped

\* The free list has room for every pooled slot it does not hold.  That PInv implies
\* this is shown at the end, with the library of finite sets.
Roomy == \A slot \in Pooled : ~InFree(slot) => HasRoom(free_list_)

-----------------------------------------------------------------------------
(* The free list and the map.                                              *)

\* Ids that are fewer than MAX_ORDERS apart have different entries in the map.
LEMMA MapInjective ==
    ASSUME NEW a \in Nat, NEW b \in Nat, a < b, b < a + MAX_ORDERS
    PROVE  MapIndex(a) # MapIndex(b)
<1> SUFFICES ASSUME MapIndex(a) = MapIndex(b) PROVE FALSE
  OBVIOUS
<1> DEFINE q == a \div MAX_ORDERS
           p == b \div MAX_ORDERS
           r == MapIndex(a)
<1>1. q \in Nat /\ a = MAX_ORDERS * q + r /\ r \in Int
  BY PoolAssumption DEF MapIndex
<1>2. p \in Nat /\ b = MAX_ORDERS * p + r
  BY PoolAssumption DEF MapIndex
<1> HIDE DEF q, p, r
<1>3. MAX_ORDERS * q \in Int /\ MAX_ORDERS * p \in Int
  BY <1>1, <1>2, PoolAssumption
<1>4. CASE p >= q + 1
  <2>1. MAX_ORDERS * p >= MAX_ORDERS * (q + 1)
    BY <1>1, <1>2, <1>4, PoolAssumption
  <2>2. MAX_ORDERS * (q + 1) = MAX_ORDERS * q + MAX_ORDERS
    BY <1>1, PoolAssumption
  <2> QED BY <1>1, <1>2, <1>3, <2>1, <2>2, PoolAssumption
<1>5. CASE q >= p
  <2>1. MAX_ORDERS * q >= MAX_ORDERS * p
    BY <1>1, <1>2, <1>5, PoolAssumption
  <2> QED BY <1>1, <1>2, <1>3, <2>1, PoolAssumption
<1> QED BY <1>1, <1>2, <1>4, <1>5

\* An order that is recent after a step was recent before it.
LEMMA AgeGrows ==
    ASSUME NEW m \in Nat, NEW n \in Nat, NEW id \in Nat, NEW k \in Nat, m <= n, n - id <= k
    PROVE  m - id <= k
OBVIOUS

\* The push of such a slot succeeds, and the list holds it from then on.
LEMMA PushSlot ==
    ASSUME PInv, Roomy, NEW slot \in Pooled, ~InFree(slot), FreeListPush(slot)
    PROVE  /\ NothingDropped' /\ Distinct'
           /\ \A x \in Slot : InFree(x)' <=> InFree(x) \/ x = slot
<1>1. free_list_ \in Seq(Slot) /\ slot \in Slot
  BY PoolAssumption DEF PInv, IInv, TypeOK, Pooled, Slot
<1>2. free_list_' = Append(free_list_, slot)
  BY DEF FreeListPush, Roomy
<1>3. NothingDropped'
  BY Zenon DEF FreeListPush, Roomy, PInv, NothingDropped
<1>4. /\ Len(free_list_) \in Nat /\ DOMAIN free_list_ = 1 .. Len(free_list_)
      /\ DOMAIN free_list_' = 1 .. Len(free_list_) + 1
      /\ \A i \in 1 .. Len(free_list_) : free_list_'[i] = free_list_[i]
      /\ free_list_'[Len(free_list_) + 1] = slot
  BY <1>1, <1>2, AppendFacts, SeqFacts
<1>5. Distinct'
  BY <1>4 DEF PInv, Distinct, InFree
<1>6. \A x \in Slot : InFree(x)' <=> InFree(x) \/ x = slot
  BY <1>4 DEF InFree
<1> QED BY <1>3, <1>5, <1>6

\* The pop of add_order takes a slot out of the list.
LEMMA PopSlot ==
    ASSUME PInv, free_list_ # <<>>, free_list_' = Tail(free_list_)
    PROVE  /\ Head(free_list_) \in Slot /\ InFree(Head(free_list_)) /\ Distinct'
           /\ \A x \in Slot : InFree(x)' <=> InFree(x) /\ x # Head(free_list_)
<1>1. free_list_ \in Seq(Slot)
  BY DEF PInv, IInv, TypeOK
<1>2. /\ Len(free_list_) \in Nat /\ Len(free_list_) >= 1
      /\ DOMAIN free_list_ = 1 .. Len(free_list_)
      /\ Head(free_list_) = free_list_[1] /\ Head(free_list_) \in Slot
      /\ DOMAIN free_list_' = 1 .. Len(free_list_) - 1
      /\ \A i \in 1 .. Len(free_list_) - 1 : free_list_'[i] = free_list_[i + 1]
  BY <1>1, TailFacts, SeqFacts
<1>3. Distinct'
  <2> SUFFICES ASSUME NEW i \in DOMAIN free_list_', NEW j \in DOMAIN free_list_',
                      free_list_'[i] = free_list_'[j]
               PROVE  i = j
    BY DEF Distinct
  <2>1. i + 1 \in DOMAIN free_list_ /\ j + 1 \in DOMAIN free_list_
        /\ free_list_[i + 1] = free_list_[j + 1] /\ i \in Int /\ j \in Int
    BY <1>2
  <2>2. i + 1 = j + 1
    BY <2>1 DEF PInv, Distinct
  <2> QED BY <2>1, <2>2
<1>4. InFree(Head(free_list_))
  BY <1>2 DEF InFree
<1>5. ASSUME NEW x \in Slot PROVE InFree(x)' <=> InFree(x) /\ x # Head(free_list_)
  <2>1. ASSUME InFree(x)' PROVE InFree(x) /\ x # Head(free_list_)
    <3>1. PICK i \in DOMAIN free_list_' : free_list_'[i] = x
      BY <2>1 DEF InFree
    <3>2. i + 1 \in DOMAIN free_list_ /\ free_list_[i + 1] = x /\ i + 1 # 1
          /\ 1 \in DOMAIN free_list_
      BY <1>2, <3>1
    <3> QED BY <1>2, <3>2 DEF InFree, PInv, Distinct
  <2>2. ASSUME InFree(x), x # Head(free_list_) PROVE InFree(x)'
    <3>1. PICK i \in DOMAIN free_list_ : free_list_[i] = x
      BY <2>2 DEF InFree
    <3>2. i - 1 \in DOMAIN free_list_' /\ free_list_'[i - 1] = x
      BY <1>2, <2>2, <3>1
    <3> QED BY <3>2 DEF InFree
  <2> QED BY <2>1, <2>2, Zenon
<1> QED BY <1>2, <1>3, <1>4, <1>5

-----------------------------------------------------------------------------
(* Three kinds of steps: owners and pool stay, a slot is taken, a slot is  *)
(* given back.                                                             *)

\* Steps that change no owner, no slot and no record.
LEMMA KeepStep ==
    ASSUME PInv, IInv', UNCHANGED <<order_pool_, free_list_, order_id_to_slot_, dropped>>,
           next_order_id_' \in {next_order_id_, next_order_id_ + 1},
           \A id \in Nat, slot \in Slot : Owner(id, slot)' <=> Owner(id, slot),
           call' # NoCall => ~RestsAt(call.order_id, call.slot)'
    PROVE  PInv'
<1>0. next_order_id_ \in Nat /\ next_order_id_' \in Nat /\ next_order_id_ <= next_order_id_'
      /\ MAX_ORDERS \in Nat
  BY PoolAssumption DEF PInv, IInv, TypeOK
<1>1. \A slot : InFree(slot)' <=> InFree(slot)
  BY DEF InFree
<1>2. Distinct'
  BY DEF PInv, Distinct
<1>3. Apart' /\ InPool' /\ Records' /\ Accounted'
  <2>1. Apart'
    BY <1>1 DEF PInv, Apart
  <2>2. InPool' /\ Records'
    BY <1>1 DEF PInv, InPool, Records
  <2>3. Accounted'
    BY <1>1, PoolAssumption DEF PInv, Accounted, Pooled, Slot
  <2> QED BY <2>1, <2>2, <2>3, Zenon
<1>4. IdsOnce'
  <2>1. \A t \in Slot : order_pool_[t].order_id \in Nat
    BY DEF PInv, IInv, TypeOK, Order
  <2> QED BY <1>0, <2>1 DEF PInv, IdsOnce
<1>5. Mapped'
  <2> SUFFICES ASSUME NEW id \in Nat, NEW slot \in Slot, Owner(id, slot)',
                      next_order_id_' - id <= MAX_ORDERS
               PROVE  order_id_to_slot_[MapIndex(id)] = slot
    BY DEF Mapped, MapIndex
  <2>1. Owner(id, slot)
    OBVIOUS
  <2>2. next_order_id_ - id <= MAX_ORDERS
    BY <1>0, AgeGrows, Zenon
  <2> QED BY <2>1, <2>2 DEF PInv, Mapped
<1>6. Written' /\ NothingDropped'
  BY Zenon DEF PInv, Written, NothingDropped
<1> QED BY <1>2, <1>3, <1>4, <1>5, <1>6, Zenon DEF PInv

\* Steps that give the slot of an owner back.
LEMMA GiveBackStep ==
    ASSUME PInv, Roomy, IInv', NEW slot \in Slot, NEW owner \in Nat, Owner(owner, slot),
           FreeListPush(slot),
           UNCHANGED <<order_pool_, order_id_to_slot_>>,
           next_order_id_' \in {next_order_id_, next_order_id_ + 1}, call' = NoCall,
           \A id \in Nat, x \in Slot : Owner(id, x)' <=> Owner(id, x) /\ x # slot
    PROVE  PInv'
<1>0. next_order_id_ \in Nat /\ next_order_id_' \in Nat /\ next_order_id_ <= next_order_id_'
      /\ MAX_ORDERS \in Nat
  BY PoolAssumption DEF PInv, IInv, TypeOK
<1>1. slot \in Pooled /\ ~InFree(slot)
  BY DEF PInv, InPool, Apart
<1>2. /\ NothingDropped' /\ Distinct'
      /\ \A x \in Slot : InFree(x)' <=> InFree(x) \/ x = slot
  BY <1>1, PushSlot, Zenon
<1>3. Apart'
  BY <1>2 DEF PInv, Apart
<1>4. InPool' /\ Records'
  BY <1>1, <1>2 DEF PInv, InPool, Records
<1>5. Accounted'
  <2> SUFFICES ASSUME NEW x \in Pooled PROVE InFree(x)' \/ \E id \in Nat : Owner(id, x)'
    BY DEF Accounted
  <2>1. x \in Slot
    BY PoolAssumption DEF Pooled, Slot
  <2> QED BY <1>2, <2>1 DEF PInv, Accounted
<1>6. IdsOnce'
  <2>1. \A t \in Slot : order_pool_[t].order_id \in Nat
    BY DEF PInv, IInv, TypeOK, Order
  <2> QED BY <1>0, <2>1 DEF PInv, IdsOnce
<1>7. Mapped'
  <2> SUFFICES ASSUME NEW id \in Nat, NEW x \in Slot, Owner(id, x)',
                      next_order_id_' - id <= MAX_ORDERS
               PROVE  order_id_to_slot_[MapIndex(id)] = x
    BY DEF Mapped, MapIndex
  <2>1. Owner(id, x)
    OBVIOUS
  <2>2. next_order_id_ - id <= MAX_ORDERS
    BY <1>0, AgeGrows, Zenon
  <2> QED BY <2>1, <2>2 DEF PInv, Mapped
<1>8. Written'
  BY Zenon DEF PInv, Written
<1> QED BY <1>2, <1>3, <1>4, <1>5, <1>6, <1>7, <1>8, Zenon DEF PInv

\* The start of add_order: the slot at the head of the list gets an owner with a
\* fresh id, a record and an entry in the map.
LEMMA TakeStep ==
    ASSUME PInv, IInv', NEW side \in {"Buy", "Sell"}, NEW p, NEW quantity,
           AddOrderAllocate(side, p, quantity)
    PROVE  PInv'
<1> DEFINE slot == Head(free_list_)
           new  == next_order_id_
<1>0. /\ new \in Nat /\ new > 0 /\ next_order_id_' = new + 1 /\ call = NoCall
      /\ MAX_ORDERS \in Nat \ {0}
      /\ order_pool_ \in [Slot -> Order] /\ order_id_to_slot_ \in [Slot -> Slot \cup {NoSlot}]
  <2>1. /\ next_order_id_ \in Nat \ {0} /\ order_pool_ \in [Slot -> Order]
        /\ order_id_to_slot_ \in [Slot -> Slot \cup {NoSlot}]
    BY DEF PInv, IInv, TypeOK
  <2>2. next_order_id_' = new + 1 /\ call = NoCall
    BY DEF AddOrderAllocate, TakeOrderId
  <2> QED BY <2>1, <2>2, PoolAssumption
<1>1. /\ slot \in Slot /\ InFree(slot) /\ Distinct'
      /\ \A x \in Slot : InFree(x)' <=> InFree(x) /\ x # slot
  BY PopSlot, Zenon DEF AddOrderAllocate
<1>2. /\ live' = live /\ call'.order_id = new /\ call'.slot = slot /\ call' # NoCall
      /\ dropped' = dropped
  BY DEF AddOrderAllocate, NoCall
<1>3. \A x \in Slot : order_pool_'[x].order_id = IF x = slot THEN new ELSE order_pool_[x].order_id
  BY <1>0, <1>1, Zenon DEF AddOrderAllocate
<1>4. \A i \in Slot : order_id_to_slot_'[i] =
          IF i = MapIndex(new) THEN slot ELSE order_id_to_slot_[i]
  BY <1>0 DEF AddOrderAllocate
<1> HIDE DEF slot, new
<1>5. \A id \in Nat, x \in Slot : Owner(id, x)' <=> Owner(id, x) \/ (id = new /\ x = slot)
  BY <1>0, <1>2, Zenon DEF Owner, RestsAt
<1>6. \A id \in Nat, x \in Slot : Owner(id, x) => id < new /\ x # slot
  <2> SUFFICES ASSUME NEW id \in Nat, NEW x \in Slot, Owner(id, x) PROVE id < new /\ x # slot
    OBVIOUS
  <2>1. ~InFree(x) /\ order_pool_[x].order_id = id
    BY DEF PInv, Apart, Records
  <2>2. id < new
    BY <2>1 DEF PInv, IdsOnce, new
  <2> QED BY <1>1, <2>1, <2>2, Zenon
<1>7. Apart'
  <2>1. ~RestsAt(call.order_id, call.slot)'
    <3>1. ~Owner(new, slot)
      BY <1>0, <1>1, <1>6, Zenon
    <3> QED BY <1>2, <3>1, Zenon DEF Owner, RestsAt
  <2>2. \A id \in Nat, x \in Slot : Owner(id, x)' => ~InFree(x)'
    BY <1>1, <1>5, Zenon DEF PInv, Apart
  <2>3. \A id1, id2 \in Nat, x \in Slot : Owner(id1, x)' /\ Owner(id2, x)' => id1 = id2
    BY <1>5, <1>6, Zenon DEF PInv, Apart
  <2> QED BY <1>2, <2>1, <2>2, <2>3 DEF Apart
<1>8. InPool'
  BY <1>1, <1>5, Zenon DEF PInv, InPool
<1>9. Records'
  BY <1>0, <1>3, <1>5, <1>6, Zenon DEF PInv, Records
<1>10. IdsOnce'
  <2>1. \A x \in Slot : order_pool_[x].order_id \in Nat /\ order_pool_[x].order_id < new
    BY <1>0, Zenon DEF PInv, IdsOnce, Order, new
  <2>2. \A x \in Slot : order_pool_'[x].order_id < next_order_id_'
    BY <1>0, <1>3, <2>1
  <2>3. \A s, t \in Slot : order_pool_'[s].order_id = order_pool_'[t].order_id
                               /\ order_pool_'[s].order_id # 0 => s = t
    BY <1>0, <1>3, <2>1 DEF PInv, IdsOnce
  <2> QED BY <2>2, <2>3, Zenon DEF IdsOnce
<1>11. Mapped'
  <2> SUFFICES ASSUME NEW id \in Nat, NEW x \in Slot, Owner(id, x)',
                      new + 1 - id <= MAX_ORDERS
               PROVE  order_id_to_slot_'[MapIndex(id)] = x
    BY <1>0 DEF Mapped, MapIndex
  <2>1. MapIndex(id) \in Slot
    BY MapIndexType
  <2>2. CASE id = new /\ x = slot
    BY <1>4, <2>1, <2>2, Zenon
  <2>3. CASE Owner(id, x)
    <3>1. id < new /\ new < id + MAX_ORDERS /\ new - id <= MAX_ORDERS
      BY <1>0, <1>6, <2>3
    <3>2. MapIndex(id) # MapIndex(new)
      BY <1>0, <3>1, MapInjective, Zenon
    <3>3. order_id_to_slot_[MapIndex(id)] = x
      BY <2>3, <3>1, Zenon DEF PInv, Mapped, new
    <3> QED BY <1>4, <2>1, <3>2, <3>3, Zenon
  <2> QED BY <1>5, <2>2, <2>3, Zenon
<1>12. Accounted'
  <2> SUFFICES ASSUME NEW x \in Pooled PROVE InFree(x)' \/ \E id \in Nat : Owner(id, x)'
    BY DEF Accounted
  <2>1. x \in Slot
    BY PoolAssumption DEF Pooled, Slot
  <2> QED BY <1>0, <1>1, <1>5, <2>1 DEF PInv, Accounted
<1>13. Written' /\ NothingDropped'
  <2>1. NothingDropped'
    BY <1>2, Zenon DEF PInv, NothingDropped
  <2>2. slot \in Pooled /\ order_pool_'[slot].order_id > 0
    BY <1>0, <1>1, <1>3, Zenon DEF PInv, InPool
  <2> SUFFICES ASSUME NEW i \in Slot, order_id_to_slot_'[i] # NoSlot
               PROVE  /\ order_id_to_slot_'[i] \in Pooled
                      /\ order_pool_'[order_id_to_slot_'[i]].order_id > 0
    BY <2>1, Zenon DEF Written
  <2>3. CASE order_id_to_slot_'[i] = slot
    BY <2>2, <2>3, Zenon
  <2>4. CASE order_id_to_slot_'[i] # slot
    <3>1. order_id_to_slot_'[i] = order_id_to_slot_[i]
      BY <1>4, <2>4, Zenon
    <3>2. order_id_to_slot_[i] \in Pooled /\ order_pool_[order_id_to_slot_[i]].order_id > 0
      BY <3>1, Zenon DEF PInv, Written
    <3>3. order_id_to_slot_[i] \in Slot
      BY <3>2, PoolAssumption DEF Pooled, Slot
    <3> QED BY <1>3, <2>4, <3>1, <3>2, <3>3, Zenon
  <2> QED BY <2>3, <2>4, Zenon
<1> QED BY <1>1, <1>7, <1>8, <1>9, <1>10, <1>11, <1>12, <1>13, Zenon DEF PInv

-----------------------------------------------------------------------------
(* The actions.                                                            *)

\* The constructor pools all slots but the last.
LEMMA PoolInit == Init => PInv
<1> SUFFICES ASSUME Init PROVE PInv
  OBVIOUS
<1>1. IInv /\ NothingDropped
  BY InitInv DEF Init, NothingDropped
<1>2. /\ DOMAIN free_list_ = 1 .. MAX_ORDERS - 1 /\ MAX_ORDERS \in Nat \ {0}
      /\ \A i \in 1 .. MAX_ORDERS - 1 : free_list_[i] = i - 1
  BY PoolAssumption, Zenon DEF Init
<1>3. \A id, slot : ~Owner(id, slot)
  BY DEF Init, Owner, RestsAt
<1>4. \A slot \in Slot : InFree(slot) <=> slot \in Pooled
  <2> SUFFICES ASSUME NEW slot \in Slot PROVE InFree(slot) <=> slot \in Pooled
    OBVIOUS
  <2>1. ASSUME slot \in Pooled PROVE InFree(slot)
    <3>1. slot + 1 \in DOMAIN free_list_ /\ free_list_[slot + 1] = slot
      BY <1>2, <2>1 DEF Pooled
    <3> QED BY <3>1 DEF InFree
  <2>2. ASSUME InFree(slot) PROVE slot \in Pooled
    BY <1>2, <2>2 DEF InFree, Pooled
  <2> QED BY <2>1, <2>2
<1>5. Distinct
  BY <1>2 DEF Distinct
<1>6. Apart /\ InPool /\ Records /\ Mapped
  <2>1. call = NoCall
    BY DEF Init
  <2> QED BY <1>3, <1>4, <2>1, Zenon DEF Apart, InPool, Records, Mapped
<1>7. IdsOnce /\ Written
  BY DEF Init, IdsOnce, Written
<1>8. Accounted
  BY <1>2, <1>4 DEF Accounted, Pooled, Slot
<1> QED BY <1>1, <1>5, <1>6, <1>7, <1>8 DEF PInv

\* A turn of a matching loop changes only what the order still wants.
LEMMA MatchKeepsPool ==
    ASSUME PInv, IInv', MatchAggressiveBuy \/ MatchAggressiveSell
    PROVE  PInv'
<1>1. /\ UNCHANGED <<order_pool_, free_list_, order_id_to_slot_, next_order_id_, live, dropped>>
      /\ call \in Call /\ call.side \in {"Buy", "Sell"}
      /\ \E rest : call' = [call EXCEPT !.remaining = rest]
  BY DEF MatchAggressiveBuy, MatchAggressiveSell, pool, PInv, IInv, TypeOK, NoCall
<1>2. call # NoCall /\ call' # NoCall /\ call'.slot = call.slot /\ call'.order_id = call.order_id
  BY <1>1 DEF Call, NoCall
<1>3. \A id \in Nat, slot \in Slot : Owner(id, slot)' <=> Owner(id, slot)
  BY <1>1, <1>2, Zenon DEF Owner, RestsAt
<1>4. ~RestsAt(call.order_id, call.slot)'
  BY <1>1, <1>2, Zenon DEF PInv, Apart, RestsAt
<1> QED BY <1>1, <1>3, <1>4, KeepStep, Zenon

\* An exhausted pool spends an id and nothing else.
LEMMA ExhaustedKeepsPool == ASSUME PInv, IInv', AddOrderExhausted PROVE PInv'
<1>1. /\ UNCHANGED <<order_pool_, free_list_, order_id_to_slot_, call, live, dropped>>
      /\ next_order_id_' = next_order_id_ + 1 /\ call' = NoCall
  BY DEF AddOrderExhausted, TakeOrderId
<1>2. \A id \in Nat, slot \in Slot : Owner(id, slot)' <=> Owner(id, slot)
  BY <1>1, Zenon DEF Owner, RestsAt
<1> QED BY <1>1, <1>2, KeepStep

\* An order that is filled at once gives its slot back.
LEMMA FilledGivesBack == ASSUME PInv, Roomy, IInv', AddOrderFilled PROVE PInv'
<1>1. /\ call # NoCall /\ call' = NoCall /\ live' = live /\ FreeListPush(call.slot)
      /\ UNCHANGED <<order_pool_, order_id_to_slot_, next_order_id_>>
  BY DEF AddOrderFilled
<1>2. call.slot \in Slot /\ call.order_id \in Nat
  BY <1>1 DEF PInv, IInv, TypeOK, Call
<1>3. Owner(call.order_id, call.slot)
  BY <1>1, Zenon DEF Owner
<1>4. ASSUME NEW id \in Nat, NEW x \in Slot
      PROVE  Owner(id, x)' <=> Owner(id, x) /\ x # call.slot
  <2>1. Owner(id, x)' <=> RestsAt(id, x)
    BY <1>1, Zenon DEF Owner, RestsAt
  <2>2. ASSUME RestsAt(id, x) PROVE Owner(id, x) /\ x # call.slot
    <3>1. Owner(id, x)
      BY <2>2 DEF Owner
    <3>2. ASSUME x = call.slot PROVE FALSE
      <4>1. id = call.order_id
        BY <1>2, <1>3, <3>1, <3>2, Zenon DEF PInv, Apart
      <4> QED BY <1>1, <2>2, <3>2, <4>1, Zenon DEF PInv, Apart
    <3> QED BY <3>1, <3>2, Zenon
  <2>3. ASSUME Owner(id, x), x # call.slot PROVE RestsAt(id, x)
    BY <2>3 DEF Owner
  <2> QED BY <2>1, <2>2, <2>3, Zenon
<1> QED BY <1>1, <1>2, <1>3, <1>4, GiveBackStep, Zenon

\* An order that rests keeps its slot.
LEMMA RestKeepsPool == ASSUME PInv, IInv', AddOrderRest PROVE PInv'
<1>1. /\ call # NoCall /\ call' = NoCall /\ live' = live \cup {call}
      /\ UNCHANGED <<order_pool_, free_list_, order_id_to_slot_, next_order_id_, dropped>>
  BY DEF AddOrderRest, pool
<1>2. \A id \in Nat, slot \in Slot : Owner(id, slot)' <=> Owner(id, slot)
  BY <1>1, Zenon DEF Owner, RestsAt
<1> QED BY <1>1, <1>2, KeepStep, Zenon

\* cancel_order of an order that rests gives back its slot, and no other.
LEMMA CancelGivesBack ==
    ASSUME PInv, Roomy, IInv', NEW o \in live, CancelFound(o.order_id), call = NoCall, call' = NoCall,
           UNCHANGED <<order_pool_, order_id_to_slot_>>,
           next_order_id_' \in {next_order_id_, next_order_id_ + 1}
    PROVE  PInv'
<1>1. o.order_id \in Nat /\ o.slot \in Slot
  BY DEF PInv, IInv, TypeOK, Call
<1>2. Owner(o.order_id, o.slot)
  BY Zenon DEF Owner, RestsAt
<1>3. o.order_id > 0 /\ order_pool_[o.slot].order_id = o.order_id
  BY <1>1, <1>2, Zenon DEF PInv, Records
<1>4. FreeListPush(o.slot) /\ live' = {x \in live : x.order_id # o.order_id}
  <2> DEFINE slot == order_id_to_slot_[MapIndex(o.order_id)]
  <2>1. slot \in Slot \cup {NoSlot}
    <3>1. order_id_to_slot_ \in [Slot -> Slot \cup {NoSlot}]
      BY DEF PInv, IInv, TypeOK
    <3> QED BY <1>1, <3>1, MapIndexType
  <2>2. slot # NoSlot /\ order_pool_[slot].order_id = o.order_id /\ FreeListPush(slot)
        /\ live' = {x \in live : x.order_id # o.order_id}
    BY DEF CancelFound, Found
  <2> HIDE DEF slot
  <2>3. slot = o.slot
    <3>1. slot \in Slot /\ order_pool_[slot].order_id = order_pool_[o.slot].order_id
          /\ order_pool_[slot].order_id # 0
      <4>1. slot \in Slot
        BY <2>1, <2>2, Zenon
      <4>2. o.order_id # 0
        BY <1>1, <1>3
      <4> QED BY <1>3, <2>2, <4>1, <4>2, Zenon
    <3>2. \A s, t \in Slot : order_pool_[s].order_id = order_pool_[t].order_id
                                 /\ order_pool_[s].order_id # 0 => s = t
      BY DEF PInv, IdsOnce
    <3> QED BY <1>1, <3>1, <3>2, Zenon
  <2> QED BY <2>2, <2>3, Zenon
<1>5. ASSUME NEW id \in Nat, NEW x \in Slot
      PROVE  Owner(id, x)' <=> Owner(id, x) /\ x # o.slot
  <2>1. Owner(id, x)' <=> RestsAt(id, x) /\ id # o.order_id
    BY <1>4, Zenon DEF Owner, RestsAt
  <2>2. Owner(id, x) <=> RestsAt(id, x)
    BY Zenon DEF Owner
  <2>3. ASSUME Owner(id, x), id # o.order_id PROVE x # o.slot
    BY <1>1, <1>2, <2>3, Zenon DEF PInv, Apart
  <2>4. ASSUME Owner(id, x), x # o.slot PROVE id # o.order_id
    <3>1. order_pool_[x].order_id = id
      BY <2>4, Zenon DEF PInv, Records
    <3>2. order_pool_[x].order_id = order_pool_[o.slot].order_id
              /\ order_pool_[x].order_id # 0 => x = o.slot
      BY <1>1, Zenon DEF PInv, IdsOnce
    <3>3. o.order_id # 0
      BY <1>1, <1>3
    <3> QED BY <1>3, <2>4, <3>1, <3>2, <3>3
  <2> QED BY <2>1, <2>2, <2>3, <2>4
<1> QED BY <1>1, <1>2, <1>4, <1>5, GiveBackStep

\* A cancel, by either call and of any id, that finds nothing or an order that rests.
LEMMA CancelStep ==
    ASSUME PInv, Roomy, IInv', NEW id \in Nat, CancelOrder(id) \/ AddOrderCancel(id), ~late'
    PROVE  PInv'
<1>1. /\ call = NoCall /\ call' = NoCall /\ UNCHANGED <<order_pool_, order_id_to_slot_>>
      /\ next_order_id_' \in {next_order_id_, next_order_id_ + 1}
      /\ CancelFound(id) \/ CancelNotFound(id)
  BY DEF CancelOrder, AddOrderCancel, TakeOrderId
<1>2. CASE CancelFound(id)
  <2>1. live' = {o \in live : o.order_id # id} /\ live' # live
    BY <1>2, Zenon DEF CancelFound
  <2>2. PICK o \in live : o.order_id = id
    BY <2>1, Zenon
  <2> QED BY <1>1, <1>2, <2>2, CancelGivesBack, Zenon
<1>3. CASE CancelNotFound(id)
  <2>1. UNCHANGED <<free_list_, live, dropped>>
    BY <1>3, Zenon DEF CancelNotFound
  <2>2. \A n \in Nat, slot \in Slot : Owner(n, slot)' <=> Owner(n, slot)
    BY <1>1, <2>1, Zenon DEF Owner, RestsAt
  <2> QED BY <1>1, <2>1, <2>2, KeepStep, Zenon
<1> QED BY <1>1, <1>2, <1>3, Zenon

\* Every step preserves the invariant, but the cancel of an order that no longer
\* rests.
LEMMA PoolStep == ASSUME PInv, Roomy, IInv', [Next]_vars, ~late' PROVE PInv'
<1>1. CASE AddOrder
  BY <1>1, TakeStep, ExhaustedKeepsPool DEF AddOrder
<1>2. CASE InsideAddOrder
  BY <1>2, MatchKeepsPool, FilledGivesBack, RestKeepsPool, Zenon DEF InsideAddOrder
<1>3. ASSUME NEW id \in 0 .. MaxCalls, CancelOrder(id) \/ AddOrderCancel(id)
      PROVE  PInv'
  <2>1. id \in Nat
    BY ClientAssumption
  <2> QED BY <1>3, <2>1, CancelStep, Zenon
<1>4. CASE UNCHANGED vars
  <2>1. UNCHANGED <<order_pool_, free_list_, order_id_to_slot_, next_order_id_, call, live, dropped>>
    BY <1>4 DEF vars, pool
  <2>2. \A id \in Nat, slot \in Slot : Owner(id, slot)' <=> Owner(id, slot)
    BY <2>1, Zenon DEF Owner, RestsAt
  <2>3. call' # NoCall => ~RestsAt(call.order_id, call.slot)'
    BY <2>1, Zenon DEF PInv, Apart, RestsAt
  <2> QED BY <2>1, <2>2, <2>3, KeepStep, Zenon
<1> QED BY <1>1, <1>2, <1>3, <1>4, Zenon DEF Next

\* Only a cancel says that a cancel was late, and nothing takes it back.
LEMMA LateStep ==
    ASSUME IInv, [Next]_vars
    PROVE  /\ ~late' => ~late
           /\ ~late /\ late' => \E id \in Nat : CancelFound(id) /\ live' = live /\ call = NoCall
<1>1. CASE UNCHANGED late
  BY <1>1, Zenon
<1>2. CASE AddOrder \/ InsideAddOrder \/ UNCHANGED vars
  <2>1. AddOrder => late' = late
    BY Zenon DEF AddOrder, AddOrderAllocate, AddOrderExhausted
  <2>2. InsideAddOrder => late' = late
    BY Zenon DEF InsideAddOrder, MatchAggressiveBuy, MatchAggressiveSell, AddOrderFilled,
                 AddOrderRest
  <2>3. UNCHANGED vars => late' = late
    BY Zenon DEF vars
  <2> QED BY <1>1, <1>2, <2>1, <2>2, <2>3, Zenon
<1>3. ASSUME NEW id \in 0 .. MaxCalls, CancelOrder(id) \/ AddOrderCancel(id)
      PROVE  /\ ~late' => ~late
             /\ ~late /\ late' => \E n \in Nat : CancelFound(n) /\ live' = live /\ call = NoCall
  <2>1. id \in Nat
    BY ClientAssumption
  <2>2. call = NoCall
    BY <1>3, Zenon DEF CancelOrder, AddOrderCancel, TakeOrderId
  <2>3. CASE CancelNotFound(id)
    BY <1>1, <2>3, Zenon DEF CancelNotFound
  <2>4. CASE CancelFound(id)
    <3>1. late' = (late \/ live' = live)
      BY <2>4, Zenon DEF CancelFound
    <3> QED BY <2>1, <2>2, <2>4, <3>1, Zenon
  <2> QED BY <1>3, <2>3, <2>4, Zenon DEF CancelOrder, AddOrderCancel
<1> QED BY <1>2, <1>3, Zenon DEF Next

\* A cancel of an order that no longer rests puts a slot into the list a second time,
\* or into a list that is full.
LEMMA LateCancelHarm ==
    ASSUME PInv, NEW id \in Nat, CancelFound(id), live' = live, call = NoCall
    PROVE  ~(FreeSlotsUnused /\ NothingDropped)'
<1> DEFINE slot == order_id_to_slot_[MapIndex(id)]
<1>0. slot \in Pooled /\ slot \in Slot /\ slot # MAX_ORDERS - 1
      /\ order_pool_[slot].order_id = id /\ FreeListPush(slot)
  <2>1. slot # NoSlot /\ order_pool_[slot].order_id = id /\ FreeListPush(slot)
    BY Zenon DEF CancelFound, Found
  <2>2. MapIndex(id) \in Slot
    BY MapIndexType
  <2>3. slot \in Pooled
    BY <2>1, <2>2, Zenon DEF PInv, Written
  <2> QED BY <2>1, <2>3, PoolAssumption DEF Pooled, Slot
<1>1. \A o \in live : o.order_id # id
  <2>1. live' = {o \in live : o.order_id # id}
    BY Zenon DEF CancelFound
  <2> QED BY <2>1, Zenon
<1> HIDE DEF slot
<1>2. InFree(slot)
  <2>1. ASSUME NEW owner \in Nat, Owner(owner, slot) PROVE FALSE
    <3>1. owner = id
      BY <1>0, <2>1, Zenon DEF PInv, Records
    <3> QED BY <1>1, <2>1, <3>1, Zenon DEF Owner, RestsAt
  <2> QED BY <1>0, <2>1, Zenon DEF PInv, Accounted
<1>3. CASE HasRoom(free_list_)
  <2>1. free_list_ \in Seq(Slot) /\ free_list_' = Append(free_list_, slot)
    BY <1>0, <1>3, Zenon DEF FreeListPush, PInv, IInv, TypeOK
  <2>2. /\ Len(free_list_) \in Nat /\ DOMAIN free_list_ = 1 .. Len(free_list_)
        /\ DOMAIN free_list_' = 1 .. Len(free_list_) + 1
        /\ \A i \in 1 .. Len(free_list_) : free_list_'[i] = free_list_[i]
        /\ free_list_'[Len(free_list_) + 1] = slot
    BY <1>0, <2>1, AppendFacts, SeqFacts
  <2>3. PICK i \in DOMAIN free_list_ : free_list_[i] = slot
    BY <1>2, Zenon DEF InFree
  <2>4. /\ i \in DOMAIN free_list_' /\ Len(free_list_) + 1 \in DOMAIN free_list_'
        /\ i # Len(free_list_) + 1 /\ free_list_'[i] = free_list_'[Len(free_list_) + 1]
    BY <2>2, <2>3
  <2>5. ~(\A a, b \in DOMAIN free_list_' : free_list_'[a] = free_list_'[b] => a = b)
    BY <2>4, Zenon
  <2> QED BY <2>5, Zenon DEF FreeSlotsUnused
<1>4. CASE ~HasRoom(free_list_)
  BY <1>0, <1>4 DEF FreeListPush, NothingDropped
<1> QED BY <1>3, <1>4

\* Owners apart from the free list and each other share no slot.
LEMMA ApartUnshared == ASSUME PInv PROVE FreeSlotsUnused
<1> DEFINE taken == live \cup ({call} \ {NoCall})
<1>0. live \in SUBSET Call /\ call \in Call \cup {NoCall}
  BY Zenon DEF PInv, IInv, TypeOK
<1>1. \A o \in taken : o.order_id \in Nat /\ o.slot \in Slot /\ Owner(o.order_id, o.slot)
  <2> SUFFICES ASSUME NEW o \in taken
               PROVE  o.order_id \in Nat /\ o.slot \in Slot /\ Owner(o.order_id, o.slot)
    OBVIOUS
  <2>1. o.order_id \in Nat /\ o.slot \in Slot
    BY <1>0 DEF Call
  <2>2. Owner(o.order_id, o.slot)
    BY Zenon DEF Owner, RestsAt
  <2> QED BY <2>1, <2>2
<1> HIDE DEF taken
<1>2. \A i, j \in DOMAIN free_list_ : free_list_[i] = free_list_[j] => i = j
  BY DEF PInv, Distinct
<1>3. \A o \in taken, i \in DOMAIN free_list_ : free_list_[i] # o.slot
  BY <1>1 DEF PInv, Apart, InFree
<1>4. \A o1, o2 \in taken : o1.slot = o2.slot => o1.order_id = o2.order_id
  BY <1>1, Zenon DEF PInv, Apart
<1> QED BY <1>2, <1>3, <1>4, Zenon DEF FreeSlotsUnused, taken

\* A pooled slot that is not free is that of an order; the other one was refused.
LEMMA AccountedFor == ASSUME PInv PROVE SlotsAccounted
<1> SUFFICES ASSUME NEW slot \in Slot, slot \notin dropped
             PROVE  \/ \E i \in DOMAIN free_list_ : free_list_[i] = slot
                    \/ call # NoCall /\ call.slot = slot
                    \/ \E o \in live : o.slot = slot
  BY Zenon DEF SlotsAccounted
<1>1. slot \in Pooled
  BY PoolAssumption DEF PInv, NothingDropped, Pooled, Slot
<1>2. InFree(slot) \/ \E id \in Nat : Owner(id, slot)
  BY <1>1, Zenon DEF PInv, Accounted
<1> QED BY <1>2, Zenon DEF InFree, Owner, RestsAt

\* A recent order is found through its entry in the map.
LEMMA MappedFound == ASSUME PInv PROVE RecentLiveAreFound
<1> SUFFICES ASSUME NEW o \in live, next_order_id_ - o.order_id <= MAX_ORDERS
             PROVE  Found(o.order_id)
  BY DEF RecentLiveAreFound
<1>1. o.order_id \in Nat /\ o.slot \in Slot
  BY DEF PInv, IInv, TypeOK, Call
<1>2. Owner(o.order_id, o.slot)
  BY Zenon DEF Owner, RestsAt
<1>3. order_id_to_slot_[MapIndex(o.order_id)] = o.slot /\ order_pool_[o.slot].order_id = o.order_id
  BY <1>1, <1>2 DEF PInv, Mapped, Records
<1>4. o.slot # NoSlot
  BY <1>1, PoolAssumption DEF Slot, NoSlot
<1> QED BY <1>3, <1>4, Zenon DEF Found

\* What PoolKept says of a pool without late cancels.
LEMMA InvariantKeepsPool ==
    ASSUME PInv
    PROVE  FreeSlotsUnused /\ SlotsAccounted /\ NothingDropped /\ RecentLiveAreFound
BY ApartUnshared, AccountedFor, MappedFound, Zenon DEF PInv

-----------------------------------------------------------------------------
(* The FIX pipeline never cancels, whatever the messages say.  Nothing     *)
(* is used of the parser but the range of two of its results.  That a      *)
(* message is parsed while a call runs, or a second call starts in the     *)
(* first, is excluded by the guards of both sides; what the invariant adds *)
(* is that the price and the quantity handed over are those parse returned *)
(* for a message that arrived.                                             *)

\* Prices and Quantities, the arguments of add_order, include what parse returns
\* for the orders that arrive.  In the code they are all values of int64_t and of
\* uint32_t.
OrdersInRange ==
    \A m \in {x.text : x \in Messages} \cup Noise :
        parse(m).valid /\ parse(m).msg_type = NewOrderSingle =>
            parse(m).price_ticks \in Prices /\ parse(m).order_qty \in Quantities

\* An order that waits to be submitted has a price and a quantity in range.
Waiting ==
    buf # None /\ IsNewOrder => msg.price_ticks \in Prices /\ msg.order_qty \in Quantities

\* What waits was parsed from a buffer that arrived.
LEMMA WaitingNext ==
    ASSUME OrdersInRange, Waiting, [PipelineNext]_pipelineVars
    PROVE  Waiting'
<1>1. ASSUME NEW m \in {x.text : x \in Messages} \cup Noise, Receive(m) PROVE Waiting'
  BY <1>1, Zenon DEF OrdersInRange, Receive, Waiting, IsNewOrder
<1>2. CASE \E m \in Messages : Receive(m.text)
  BY <1>1, <1>2
<1>3. CASE \E m \in Noise : Receive(m)
  BY <1>1, <1>3
<1>4. CASE Submit
  BY <1>4, Zenon DEF Submit, Waiting
<1>5. CASE UNCHANGED <<buf, msg>>
  BY <1>5, Zenon DEF Waiting, IsNewOrder
<1> QED BY <1>2, <1>3, <1>4, <1>5 DEF PipelineNext, InsideBook, pipelineVars

\* Every step of the pipeline is a step of add_order or leaves the book alone.
LEMMA ClientNext ==
    ASSUME Waiting, [PipelineNext]_pipelineVars
    PROVE  [AddOrder \/ InsideAddOrder]_vars
<1>1. CASE \E m : Receive(m)
  BY <1>1 DEF Receive
<1>2. CASE Submit
  <2>1. SideOf(msg.side) \in {"Buy", "Sell"}
    BY DEF SideOf
  <2>2. IsNewOrder => msg.price_ticks \in Prices /\ msg.order_qty \in Quantities
    BY <1>2, Zenon DEF Submit, Waiting
  <2>3. CASE IsNewOrder /\ AddOrderAllocate(SideOf(msg.side), msg.price_ticks, msg.order_qty)
    BY <2>1, <2>2, <2>3 DEF AddOrder
  <2>4. CASE AddOrderExhausted
    BY <2>4, Zenon DEF AddOrder
  <2> QED BY <1>2, <2>3, <2>4 DEF Submit
<1>3. CASE InsideBook
  BY <1>3, Zenon DEF InsideBook
<1>4. CASE UNCHANGED pipelineVars
  BY <1>4 DEF pipelineVars
<1> QED BY <1>1, <1>2, <1>3, <1>4 DEF PipelineNext

\* add_order cancels nothing.
LEMMA AddsCancelNothing ==
    ASSUME [AddOrder \/ InsideAddOrder]_vars
    PROVE  [Next]_vars /\ [live \subseteq live']_vars /\ late' = late
<1>1. AddOrder \/ InsideAddOrder => Next
  BY Zenon DEF Next
<1>2. AddOrder => live' = live /\ late' = late
  BY Zenon DEF AddOrder, AddOrderAllocate, AddOrderExhausted
<1>3. InsideAddOrder => (live' = live \/ live' = live \cup {call}) /\ late' = late
  BY Zenon DEF InsideAddOrder, MatchAggressiveBuy, MatchAggressiveSell, AddOrderFilled,
               AddOrderRest
<1>4. UNCHANGED vars => live' = live /\ late' = late
  BY Zenon DEF vars
<1>5. live' = live \/ live' = live \cup {call} => live \subseteq live'
  BY Zenon
<1> QED BY <1>1, <1>2, <1>3, <1>4, <1>5, Zenon

-----------------------------------------------------------------------------
(* The pigeonhole argument and the theorems.                               *)

Sets == INSTANCE FiniteSetTheorems

\* The free list has room for a pooled slot it does not hold.
LEMMA RoomForSlot == ASSUME PInv PROVE Roomy
<1> SUFFICES ASSUME NEW slot \in Pooled, ~InFree(slot) PROVE HasRoom(free_list_)
  BY Zenon DEF Roomy
<1> DEFINE Others == Pooled \ {slot}
<1>1. free_list_ \in Seq(Slot) /\ Len(free_list_) \in Nat
      /\ DOMAIN free_list_ = 1 .. Len(free_list_)
  BY DEF PInv, IInv, TypeOK
<1>2. free_list_ \in [1 .. Len(free_list_) -> Others]
  <2>1. \A i \in DOMAIN free_list_ : free_list_[i] \in Slot /\ InFree(free_list_[i])
    BY <1>1 DEF InFree
  <2> QED BY <1>1, <2>1 DEF PInv, InPool
<1>3. Sets!IsFiniteSet(Others) /\ Sets!Cardinality(Others) = MAX_ORDERS - 2
  <2>1. 0 \in Int /\ MAX_ORDERS - 2 \in Int /\ ~(0 > MAX_ORDERS - 2)
    BY PoolAssumption DEF Pooled
  <2>2. Sets!IsFiniteSet(Pooled) /\ Sets!Cardinality(Pooled) = MAX_ORDERS - 1
    BY <2>1, Sets!FS_Interval, PoolAssumption DEF Pooled
  <2>3. Sets!IsFiniteSet(Others) /\ Sets!Cardinality(Others) = Sets!Cardinality(Pooled) - 1
    BY <2>2, Sets!FS_RemoveElement, Zenon
  <2> QED BY <2>2, <2>3, PoolAssumption
<1>4. /\ Sets!IsFiniteSet(1 .. Len(free_list_))
      /\ Sets!Cardinality(1 .. Len(free_list_)) = Len(free_list_)
  <2> DEFINE n == Len(free_list_)
  <2>1. n \in Nat
    BY <1>1
  <2> HIDE DEF n
  <2>2. /\ Sets!IsFiniteSet(1 .. n)
        /\ Sets!Cardinality(1 .. n) = IF 1 > n THEN 0 ELSE n - 1 + 1
    BY ONLY <2>1, Sets!FS_Interval
  <2>3. Sets!Cardinality(1 .. n) = n
    BY <2>1, <2>2
  <2> QED BY <2>2, <2>3, Zenon DEF n
<1> HIDE DEF Others
<1>5. ~(MAX_ORDERS - 2 < Len(free_list_))
  <2> SUFFICES ASSUME MAX_ORDERS - 2 < Len(free_list_) PROVE FALSE
    BY Zenon
  <2>1. Sets!Cardinality(Others) < Sets!Cardinality(1 .. Len(free_list_))
    BY <1>3, <1>4, Zenon
  <2>2. \E x, y \in 1 .. Len(free_list_) : x # y /\ free_list_[x] = free_list_[y]
    BY <1>2, <1>3, <1>4, <2>1, Sets!FS_PigeonHole, Zenon
  <2> QED BY <1>1, <2>2, Zenon DEF PInv, Distinct
<1> QED BY <1>1, <1>5, PoolAssumption DEF HasRoom

\* The invariant of every client: that of the pool until a cancel is late.
LInv == IInv /\ (~late => PInv)

\* LInv is an invariant.
THEOREM PoolInvariance == Spec => []LInv
<1>1. Init => LInv
  BY PoolInit, InitInv, Zenon DEF LInv
<1>2. ASSUME LInv, [Next]_vars PROVE LInv'
  <2>1. IInv /\ IInv'
    BY <1>2, NextInv, Zenon DEF LInv
  <2>2. ~late' => PInv'
    BY <1>2, <2>1, LateStep, RoomForSlot, PoolStep, Zenon DEF LInv
  <2> QED BY <2>1, <2>2, Zenon DEF LInv
<1> QED BY <1>1, <1>2, PTL DEF Spec

\* PoolKept: whatever a client adds and cancels, until cancel_order finds an order
\* that was filled on arrival or cancelled before, slots are free or owned by one
\* order, none is lost or refused, and recent orders are found.
THEOREM PoolStaysKept == Spec => []PoolKept
<1>1. LInv => PoolKept
  BY InvariantKeepsPool, Zenon DEF LInv, PoolKept
<1> QED BY <1>1, PoolInvariance, PTL

\* PoolKept claims no less than it could: the first cancel_order that finds an order
\* that no longer rests leaves a slot in the free list twice, or has its push refused
\* ("Safe to ignore", order_book.cpp:120).
THEOREM LateCancelBreaksPool ==
    Spec => [][~late /\ late' => ~(FreeSlotsUnused /\ NothingDropped)']_vars
<1>1. LInv /\ [Next]_vars => [~late /\ late' => ~(FreeSlotsUnused /\ NothingDropped)']_vars
  <2> SUFFICES ASSUME LInv, [Next]_vars, ~late, late'
               PROVE  ~(FreeSlotsUnused /\ NothingDropped)'
    OBVIOUS
  <2>1. PICK id \in Nat : CancelFound(id) /\ live' = live /\ call = NoCall
    BY LateStep, Zenon DEF LInv
  <2> QED BY <2>1, LateCancelHarm, Zenon DEF LInv
<1> QED BY <1>1, PoolInvariance, PTL DEF Spec

\* The FIX side, whatever arrives, calls add_order with arguments in range, one call
\* at a time, and cancels nothing.
LEMMA PipelineIsClient ==
    ASSUME OrdersInRange
    PROVE  PipelineSpec => Spec /\ KeepsOrders /\ []~late
<1>1. PipelineInit => Init /\ Waiting /\ ~late
  BY DEF PipelineInit, Waiting, Init
<1>2. Waiting /\ [PipelineNext]_pipelineVars => Waiting'
  BY WaitingNext, Zenon
<1>3. Waiting /\ [PipelineNext]_pipelineVars
        => [Next]_vars /\ [live \subseteq live']_vars /\ (~late => ~late')
  BY ClientNext, AddsCancelNothing, Zenon
<1> QED BY <1>1, <1>2, <1>3, PTL DEF PipelineSpec, Spec, KeepsOrders

\* No FIX traffic makes two orders share a slot, loses a slot, makes the free
\* list refuse one, or hides a recent order from cancel_order.
THEOREM PipelineKeepsPool ==
    ASSUME OrdersInRange
    PROVE  PipelineSpec =>
              /\ []FreeSlotsUnused /\ []SlotsAccounted
              /\ []NothingDropped /\ []RecentLiveAreFound
<1>1. LInv /\ ~late =>
          FreeSlotsUnused /\ SlotsAccounted /\ NothingDropped /\ RecentLiveAreFound
  BY InvariantKeepsPool, Zenon DEF LInv
<1> QED BY <1>1, PipelineIsClient, PoolInvariance, PTL

\* No FIX traffic crosses the book, between two messages or inside a call.
THEOREM PipelineNeverCrosses ==
    ASSUME OrdersInRange
    PROVE  PipelineSpec => []Uncrossed
BY PipelineIsClient, NeverCrossed, Zenon

\* From the wire to the book: fed with FIX messages the engine is a price-priority
\* limit order book, as long as no total wraps.
THEOREM PipelineImplementsBook ==
    ASSUME OrdersInRange, TotalsFit
    PROVE  PipelineSpec => ImplementsBook
BY PipelineIsClient, RefinesBook, Zenon
=============================================================================
