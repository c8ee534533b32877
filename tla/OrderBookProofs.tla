-------------------------- MODULE OrderBookProofs --------------------------
(***************************************************************************)
(* Proofs about OrderBook for every pool size, width of the integers, set  *)
(* of prices and quantities, and every sequence of calls, disciplined or   *)
(* not: quantities stay in their unsigned ranges, the ladders stay sorted, *)
(* and the book is never crossed.  As long as no total can wrap, no level  *)
(* is empty and the engine implements LimitOrderBook.                      *)
(*                                                                         *)
(* Uncrossed compares the two best prices only and is not inductive: the   *)
(* best price is the end of a ladder, so the argument needs the ladders    *)
(* sorted, and it needs all bids below all asks (Separated), since the     *)
(* next level becomes the best when the best one is removed.               *)
(*                                                                         *)
(* A total that wraps to 0 would leave an empty level and lose orders.     *)
(* Volume bounds each level by what all orders issued so far could bring,  *)
(* less what the order in progress has not brought yet.                    *)
(*                                                                         *)
(* First come the facts about FlatPriceLadder that all this rests on: from *)
(* a sorted ladder, upsert and remove_if_empty return a sorted ladder with *)
(* no price that was not there or asked for, and with the right quantity   *)
(* at every price.                                                         *)
(***************************************************************************)
EXTENDS OrderBook, WellFoundedInduction, TLAPS

\* The ladder has a level at the price.
Priced(levels_, price_ticks) ==
    \E i \in 1 .. Len(levels_) : levels_[i].price_ticks = price_ticks

\* The ladder with another quantity in its i-th level.
WithQuantity(levels_, i, q) == [levels_ EXCEPT ![i].total_quantity = q]

-----------------------------------------------------------------------------
(* Sequences.                                                              *)

\* A non-empty set of naturals has a least element.
LEMMA LeastElement ==
    ASSUME NEW T \in SUBSET Nat, T # {}
    PROVE  \E x \in T : \A y \in T : x <= y
<1>1. PICK x \in T : \A y \in T : ~(<<y, x>> \in OpToRel(<, Nat))
  BY WFMin, NatLessThanWellFounded, Zenon
<1>2. \A y \in T : ~(y < x)
  BY <1>1, Zenon DEF OpToRel
<1> QED BY <1>2

\* Facts about sequences that the proofs need again and again.
LEMMA SeqFacts ==
    ASSUME NEW S, NEW s \in Seq(S)
    PROVE  Len(s) \in Nat /\ DOMAIN s = 1 .. Len(s) /\ \A i \in 1 .. Len(s) : s[i] \in S
OBVIOUS

LEMMA SubSeqFacts ==
    ASSUME NEW S, NEW s \in Seq(S), NEW m \in 1 .. Len(s) + 1, NEW n \in m - 1 .. Len(s)
    PROVE  /\ SubSeq(s, m, n) \in Seq(S) /\ Len(SubSeq(s, m, n)) = n - m + 1
           /\ \A i \in 1 .. n - m + 1 : SubSeq(s, m, n)[i] = s[m + i - 1]
OBVIOUS

LEMMA ConcatFacts ==
    ASSUME NEW S, NEW s \in Seq(S), NEW t \in Seq(S)
    PROVE  /\ s \o t \in Seq(S) /\ Len(s \o t) = Len(s) + Len(t)
           /\ \A i \in 1 .. Len(s) + Len(t) :
                 (s \o t)[i] = IF i <= Len(s) THEN s[i] ELSE t[i - Len(s)]
OBVIOUS

LEMMA ReplaceFacts ==
    ASSUME NEW S, NEW s \in Seq(S), NEW i \in 1 .. Len(s), NEW e \in S
    PROVE  /\ [s EXCEPT ![i] = e] \in Seq(S) /\ Len([s EXCEPT ![i] = e]) = Len(s)
           /\ \A j \in 1 .. Len(s) : [s EXCEPT ![i] = e][j] = IF j = i THEN e ELSE s[j]
OBVIOUS

LEMMA TailFacts ==
    ASSUME NEW S, NEW s \in Seq(S), s # <<>>
    PROVE  /\ Head(s) \in S /\ Head(s) = s[1]
           /\ Tail(s) \in Seq(S) /\ Len(Tail(s)) = Len(s) - 1
           /\ \A i \in 1 .. Len(s) - 1 : Tail(s)[i] = s[i + 1]
OBVIOUS

LEMMA AppendFacts ==
    ASSUME NEW S, NEW s \in Seq(S), NEW e \in S
    PROVE  /\ Append(s, e) \in Seq(S) /\ Len(Append(s, e)) = Len(s) + 1
           /\ \A i \in 1 .. Len(s) : Append(s, e)[i] = s[i]
           /\ Append(s, e)[Len(s) + 1] = e
OBVIOUS

\* Insert moves the elements from position i on up by one.
LEMMA InsertProperties ==
    ASSUME NEW S, NEW seq \in Seq(S), NEW i \in 1 .. Len(seq) + 1, NEW e \in S
    PROVE  /\ Insert(seq, i, e) \in Seq(S)
           /\ Len(Insert(seq, i, e)) = Len(seq) + 1
           /\ \A j \in 1 .. Len(seq) + 1 :
                 Insert(seq, i, e)[j] = IF j < i THEN seq[j]
                                          ELSE IF j = i THEN e ELSE seq[j - 1]
<1> DEFINE a == SubSeq(seq, 1, i - 1)
           b == <<e>>
           c == SubSeq(seq, i, Len(seq))
<1>1. Len(seq) \in Nat /\ i \in Int /\ \A j \in 1 .. Len(seq) : seq[j] \in S
  BY SeqFacts
<1>2. /\ a \in Seq(S) /\ Len(a) = i - 1
      /\ \A j \in 1 .. i - 1 : a[j] = seq[j]
  BY <1>1, SubSeqFacts
<1>3. /\ c \in Seq(S) /\ Len(c) = Len(seq) - i + 1
      /\ \A j \in 1 .. Len(seq) - i + 1 : c[j] = seq[i + j - 1]
  BY <1>1, SubSeqFacts
<1>4. b \in Seq(S) /\ Len(b) = 1 /\ b[1] = e
  OBVIOUS
<1> HIDE DEF a, b, c
<1>5. /\ a \o b \in Seq(S) /\ Len(a \o b) = i
      /\ \A j \in 1 .. i : (a \o b)[j] = IF j <= i - 1 THEN a[j] ELSE b[j - (i - 1)]
  <2>1. /\ a \o b \in Seq(S) /\ Len(a \o b) = Len(a) + Len(b)
        /\ \A j \in 1 .. Len(a) + Len(b) :
              (a \o b)[j] = IF j <= Len(a) THEN a[j] ELSE b[j - Len(a)]
    BY <1>2, <1>4, ConcatFacts, Zenon
  <2>2. Len(a) + Len(b) = i
    BY <1>1, <1>2, <1>4
  <2> QED BY <1>2, <2>1, <2>2
<1>6. /\ (a \o b) \o c \in Seq(S) /\ Len((a \o b) \o c) = Len(seq) + 1
      /\ \A j \in 1 .. Len(seq) + 1 :
            ((a \o b) \o c)[j] = IF j <= i THEN (a \o b)[j] ELSE c[j - i]
  <2> DEFINE ab == a \o b
  <2>1. ab \in Seq(S) /\ Len(ab) = i
    BY <1>5
  <2> HIDE DEF ab
  <2>2. /\ ab \o c \in Seq(S) /\ Len(ab \o c) = Len(ab) + Len(c)
        /\ \A j \in 1 .. Len(ab) + Len(c) :
              (ab \o c)[j] = IF j <= Len(ab) THEN ab[j] ELSE c[j - Len(ab)]
    BY <1>3, <2>1, ConcatFacts, Zenon
  <2>3. Len(ab) + Len(c) = Len(seq) + 1
    BY <1>1, <1>3, <2>1
  <2>4. /\ ab \o c \in Seq(S) /\ Len(ab \o c) = Len(seq) + 1
        /\ \A j \in 1 .. Len(seq) + 1 : (ab \o c)[j] = IF j <= i THEN ab[j] ELSE c[j - i]
    BY <2>1, <2>2, <2>3
  <2> QED BY <2>4, Zenon DEF ab
<1>7. ASSUME NEW j \in 1 .. Len(seq) + 1
      PROVE  ((a \o b) \o c)[j] = IF j < i THEN seq[j] ELSE IF j = i THEN e ELSE seq[j - 1]
  <2>1. CASE j < i
    BY <1>1, <1>2, <1>5, <1>6, <2>1
  <2>2. CASE j = i
    <3>1. i \in 1 .. i /\ i <= i /\ ~(i <= i - 1) /\ i - (i - 1) = 1 /\ ~(i < i)
      BY <1>1
    <3>2. ((a \o b) \o c)[i] = (a \o b)[i]
      BY <1>6, <2>2, <3>1, Zenon
    <3>3. (a \o b)[i] = b[1]
      BY <1>5, <3>1
    <3> QED BY <1>4, <2>2, <3>1, <3>2, <3>3
  <2>3. CASE j > i
    <3>1. j - i \in 1 .. Len(seq) - i + 1 /\ i + (j - i) - 1 = j - 1
      BY <1>1, <2>3
    <3> QED BY <1>1, <1>3, <1>6, <2>3, <3>1
  <2>4. j < i \/ j = i \/ j > i
    BY <1>1
  <2> QED BY <2>1, <2>2, <2>3, <2>4, Zenon
<1>8. Insert(seq, i, e) = (a \o b) \o c
  BY DEF Insert, a, b, c
<1> QED BY <1>6, <1>7, <1>8, Zenon

\* Erase moves the elements after position i down by one.
LEMMA EraseProperties ==
    ASSUME NEW S, NEW seq \in Seq(S), NEW i \in 1 .. Len(seq)
    PROVE  /\ Erase(seq, i) \in Seq(S)
           /\ Len(Erase(seq, i)) = Len(seq) - 1
           /\ \A j \in 1 .. Len(seq) - 1 :
                 Erase(seq, i)[j] = IF j < i THEN seq[j] ELSE seq[j + 1]
<1> DEFINE a == SubSeq(seq, 1, i - 1)
           c == SubSeq(seq, i + 1, Len(seq))
<1>1. Len(seq) \in Nat /\ i \in Int /\ \A j \in 1 .. Len(seq) : seq[j] \in S
  BY SeqFacts
<1>2. /\ a \in Seq(S) /\ Len(a) = i - 1
      /\ \A j \in 1 .. i - 1 : a[j] = seq[j]
  BY <1>1, SubSeqFacts
<1>3. /\ c \in Seq(S) /\ Len(c) = Len(seq) - i
      /\ \A j \in 1 .. Len(seq) - i : c[j] = seq[i + j]
  BY <1>1, SubSeqFacts
<1> HIDE DEF a, c
<1>4. /\ a \o c \in Seq(S) /\ Len(a \o c) = Len(seq) - 1
      /\ \A j \in 1 .. Len(seq) - 1 :
            (a \o c)[j] = IF j <= i - 1 THEN a[j] ELSE c[j - (i - 1)]
  <2>1. /\ a \o c \in Seq(S) /\ Len(a \o c) = Len(a) + Len(c)
        /\ \A j \in 1 .. Len(a) + Len(c) :
              (a \o c)[j] = IF j <= Len(a) THEN a[j] ELSE c[j - Len(a)]
    BY <1>2, <1>3, ConcatFacts, Zenon
  <2>2. Len(a) + Len(c) = Len(seq) - 1
    BY <1>1, <1>2, <1>3
  <2> QED BY <1>2, <2>1, <2>2
<1>5. ASSUME NEW j \in 1 .. Len(seq) - 1
      PROVE  (a \o c)[j] = IF j < i THEN seq[j] ELSE seq[j + 1]
  <2>1. CASE j < i
    <3>1. j \in 1 .. i - 1 /\ j <= i - 1
      BY <1>1, <2>1
    <3>2. (a \o c)[j] = a[j]
      BY <1>4, <3>1, Zenon
    <3> QED BY <1>2, <2>1, <3>1, <3>2
  <2>2. CASE j >= i
    <3>1. j - (i - 1) \in 1 .. Len(seq) - i /\ i + (j - (i - 1)) = j + 1
      BY <1>1, <2>2
    <3>2. ~(j <= i - 1) /\ ~(j < i)
      BY <1>1, <2>2
    <3>3. (a \o c)[j] = c[j - (i - 1)]
      BY <1>4, <3>2, Zenon
    <3> QED BY <1>3, <3>1, <3>2, <3>3
  <2>3. j < i \/ j >= i
    BY <1>1
  <2> QED BY <2>1, <2>2, <2>3, Zenon
<1>6. Erase(seq, i) = a \o c
  BY DEF Erase, a, c
<1> QED BY <1>4, <1>5, <1>6

-----------------------------------------------------------------------------
(* The ladder.                                                             *)

\* Levels have integer prices and unsigned quantities.
LEMMA LadderFacts ==
    ASSUME NEW levels_ \in Ladder
    PROVE  /\ Len(levels_) \in Nat
           /\ \A i \in 1 .. Len(levels_) :
                 /\ levels_[i] \in PriceLevel
                 /\ levels_[i].price_ticks \in Int
                 /\ levels_[i].total_quantity \in 0 .. U64 - 1
<1>1. Len(levels_) \in Nat /\ \A i \in 1 .. Len(levels_) : levels_[i] \in PriceLevel
  BY SeqFacts DEF Ladder
<1> QED BY <1>1 DEF PriceLevel

\* std::lower_bound finds the first level that is not below the price.
LEMMA LowerBoundProperties ==
    ASSUME NEW levels_ \in Ladder, NEW p \in Int
    PROVE  /\ LowerBound(levels_, p) \in 1 .. Len(levels_) + 1
           /\ LowerBound(levels_, p) <= Len(levels_)
                 => levels_[LowerBound(levels_, p)].price_ticks >= p
           /\ \A j \in 1 .. LowerBound(levels_, p) - 1 : levels_[j].price_ticks < p
<1> DEFINE T == {i \in 1 .. Len(levels_) + 1 :
                    i <= Len(levels_) => levels_[i].price_ticks >= p}
           Q(i) == /\ i <= Len(levels_) => levels_[i].price_ticks >= p
                   /\ \A j \in 1 .. i - 1 : levels_[j].price_ticks < p
<1>1. Len(levels_) \in Nat /\ \A i \in 1 .. Len(levels_) : levels_[i].price_ticks \in Int
  BY LadderFacts
<1>2. T \in SUBSET Nat /\ Len(levels_) + 1 \in T
  BY <1>1
<1> HIDE DEF T
<1>3. PICK x \in T : \A y \in T : x <= y
  BY <1>2, LeastElement
<1>4. x \in 1 .. Len(levels_) + 1 /\ (x <= Len(levels_) => levels_[x].price_ticks >= p)
  BY <1>3 DEF T
<1>5. ASSUME NEW j \in 1 .. x - 1
      PROVE  levels_[j].price_ticks < p
  <2>1. j \in 1 .. Len(levels_) /\ j < x
    BY <1>1, <1>4
  <2>2. j \notin T
    BY <1>1, <1>3, <1>4, <2>1
  <2> QED BY <1>1, <2>1, <2>2 DEF T
<1>6. \E i \in 1 .. Len(levels_) + 1 : Q(i)
  BY <1>4, <1>5
<1>7. LowerBound(levels_, p) \in 1 .. Len(levels_) + 1 /\ Q(LowerBound(levels_, p))
  BY <1>6, Zenon DEF LowerBound
<1> QED BY <1>7

\* remove_if_empty keeps the ladder sorted and adds no price.
LEMMA RemoveIfEmptyProperties ==
    ASSUME NEW levels_ \in Ladder, StrictlySorted(levels_), NEW p \in Int
    PROVE  /\ RemoveIfEmpty(levels_, p) \in Ladder
           /\ StrictlySorted(RemoveIfEmpty(levels_, p))
           /\ \A x : Priced(RemoveIfEmpty(levels_, p), x) => Priced(levels_, x)
<1> DEFINE it == LowerBound(levels_, p)
           new == Erase(levels_, it)
<1>1. CASE ~(Hit(levels_, it, p) /\ levels_[it].total_quantity = 0)
  <2>1. RemoveIfEmpty(levels_, p) = levels_
    BY <1>1 DEF RemoveIfEmpty
  <2> QED BY <2>1
<1>2. CASE Hit(levels_, it, p) /\ levels_[it].total_quantity = 0
  <2>1. RemoveIfEmpty(levels_, p) = new
    BY <1>2 DEF RemoveIfEmpty
  <2>2. Len(levels_) \in Nat /\ it \in 1 .. Len(levels_)
    BY <1>2, LowerBoundProperties, LadderFacts DEF Hit
  <2> HIDE DEF it
  <2>3. /\ new \in Ladder /\ Len(new) = Len(levels_) - 1
        /\ \A j \in 1 .. Len(levels_) - 1 :
              new[j] = IF j < it THEN levels_[j] ELSE levels_[j + 1]
    BY <2>2, EraseProperties DEF Ladder
  <2> HIDE DEF new
  <2>4. StrictlySorted(new)
    <3>1. SUFFICES ASSUME NEW i \in 1 .. Len(new), NEW j \in 1 .. Len(new), i < j
                   PROVE  new[i].price_ticks < new[j].price_ticks
      BY DEF StrictlySorted
    <3> DEFINE i0 == IF i < it THEN i ELSE i + 1
               j0 == IF j < it THEN j ELSE j + 1
    <3>2. i0 \in 1 .. Len(levels_) /\ j0 \in 1 .. Len(levels_) /\ i0 < j0
      BY <2>2, <2>3, <3>1
    <3>3. new[i] = levels_[i0] /\ new[j] = levels_[j0]
      BY <2>3
    <3> HIDE DEF i0, j0
    <3> QED BY <3>2, <3>3 DEF StrictlySorted
  <2>5. ASSUME NEW x, Priced(new, x) PROVE Priced(levels_, x)
    <3>1. PICK j \in 1 .. Len(new) : new[j].price_ticks = x
      BY <2>5 DEF Priced
    <3> DEFINE j0 == IF j < it THEN j ELSE j + 1
    <3>2. j0 \in 1 .. Len(levels_) /\ new[j] = levels_[j0]
      BY <2>2, <2>3
    <3> HIDE DEF j0
    <3> QED BY <3>1, <3>2 DEF Priced
  <2> QED BY <2>1, <2>3, <2>4, <2>5
<1> QED BY <1>1, <1>2

\* A level may change its quantity without disturbing the ladder.
LEMMA QuantityProperties ==
    ASSUME NEW levels_ \in Ladder, StrictlySorted(levels_),
           NEW i \in 1 .. Len(levels_), NEW q \in 0 .. U64 - 1
    PROVE  /\ WithQuantity(levels_, i, q) \in Ladder
           /\ StrictlySorted(WithQuantity(levels_, i, q))
           /\ \A x : Priced(WithQuantity(levels_, i, q), x) => Priced(levels_, x)
<1> DEFINE e == [levels_[i] EXCEPT !.total_quantity = q]
           new == WithQuantity(levels_, i, q)
<1>1. e \in PriceLevel /\ e.price_ticks = levels_[i].price_ticks
  BY LadderFacts DEF PriceLevel
<1>2. new = [levels_ EXCEPT ![i] = e]
  BY DEF WithQuantity
<1>3. new \in Ladder /\ Len(new) = Len(levels_)
  BY <1>1, <1>2, ReplaceFacts DEF Ladder
<1>4. \A j \in 1 .. Len(levels_) : new[j].price_ticks = levels_[j].price_ticks
  <2>1. \A j \in 1 .. Len(levels_) : new[j] = IF j = i THEN e ELSE levels_[j]
    BY <1>2, SeqFacts DEF Ladder
  <2> HIDE DEF new, e
  <2> QED BY <1>1, <2>1
<1> HIDE DEF new
<1>5. StrictlySorted(new)
  BY <1>3, <1>4 DEF StrictlySorted
<1>6. \A x : Priced(new, x) => Priced(levels_, x)
  BY <1>3, <1>4 DEF Priced
<1> QED BY <1>3, <1>5, <1>6 DEF new

\* upsert keeps the ladder sorted and adds at most the price asked for.
LEMMA UpsertProperties ==
    ASSUME NEW levels_ \in Ladder, StrictlySorted(levels_),
           NEW p \in Int, NEW q \in 0 .. U64 - 1
    PROVE  /\ Upsert(levels_, p, q) \in Ladder
           /\ StrictlySorted(Upsert(levels_, p, q))
           /\ \A x : Priced(Upsert(levels_, p, q), x) => Priced(levels_, x) \/ x = p
<1> DEFINE it == LowerBound(levels_, p)
           e == [price_ticks |-> p, total_quantity |-> q]
           new == Insert(levels_, it, e)
<1>1. /\ Len(levels_) \in Nat /\ it \in 1 .. Len(levels_) + 1
      /\ it <= Len(levels_) => levels_[it].price_ticks >= p
      /\ \A j \in 1 .. it - 1 : levels_[j].price_ticks < p
  BY LowerBoundProperties, LadderFacts, Zenon
<1>2. CASE Hit(levels_, it, p)
  <2> DEFINE total == (levels_[it].total_quantity + q) % U64
  <2>1. it \in 1 .. Len(levels_)
    BY <1>1, <1>2 DEF Hit
  <2>2. total \in 0 .. U64 - 1
    <3>1. levels_[it].total_quantity \in 0 .. U64 - 1
      BY <2>1, LadderFacts
    <3> QED BY <3>1, U64Assumption
  <2>3. Upsert(levels_, p, q) = WithQuantity(levels_, it, total)
    BY <1>2 DEF Upsert, WithQuantity
  <2> HIDE DEF total, it
  <2> QED BY <2>1, <2>2, <2>3, QuantityProperties
<1>3. CASE ~Hit(levels_, it, p)
  <2>1. Upsert(levels_, p, q) = new
    BY <1>3 DEF Upsert
  <2>2. e \in PriceLevel /\ e.price_ticks = p
    BY DEF PriceLevel
  <2>3. \A j \in 1 .. Len(levels_) : levels_[j].price_ticks \in Int
    BY LadderFacts
  <2>4. it <= Len(levels_) => levels_[it].price_ticks > p
    BY <1>1, <1>3, <2>3 DEF Hit
  <2> HIDE DEF it, e
  <2>5. /\ new \in Ladder /\ Len(new) = Len(levels_) + 1
        /\ \A j \in 1 .. Len(levels_) + 1 :
              new[j] = IF j < it THEN levels_[j] ELSE IF j = it THEN e ELSE levels_[j - 1]
    BY <1>1, <2>2, InsertProperties DEF Ladder
  <2> HIDE DEF new
  <2>6. \A j \in 1 .. Len(levels_) : it <= j => levels_[j].price_ticks > p
    <3>1. SUFFICES ASSUME NEW j \in 1 .. Len(levels_), it < j
                   PROVE  levels_[j].price_ticks > p
      BY <1>1, <2>4
    <3>2. it \in 1 .. Len(levels_)
      BY <1>1, <3>1
    <3>3. levels_[it].price_ticks < levels_[j].price_ticks
      BY <3>1, <3>2 DEF StrictlySorted
    <3> QED BY <1>1, <2>3, <2>4, <3>2, <3>3
  <2>7. StrictlySorted(new)
    <3>1. SUFFICES ASSUME NEW i \in 1 .. Len(new), NEW j \in 1 .. Len(new), i < j
                   PROVE  new[i].price_ticks < new[j].price_ticks
      BY DEF StrictlySorted
    <3>2. CASE i < it /\ j < it
      BY <1>1, <2>5, <3>1, <3>2 DEF StrictlySorted
    <3>3. CASE i < it /\ j = it
      BY <1>1, <2>2, <2>5, <3>1, <3>3
    <3>4. CASE i < it /\ j > it
      <4>1. i \in 1 .. Len(levels_) /\ j - 1 \in 1 .. Len(levels_) /\ i < j - 1
        BY <1>1, <2>5, <3>1, <3>4
      <4>2. new[i] = levels_[i] /\ new[j] = levels_[j - 1]
        BY <1>1, <2>5, <3>4
      <4> QED BY <4>1, <4>2 DEF StrictlySorted
    <3>5. CASE i = it
      <4>1. j - 1 \in 1 .. Len(levels_) /\ it <= j - 1
        BY <1>1, <2>5, <3>1, <3>5
      <4>2. new[i] = e /\ new[j] = levels_[j - 1]
        BY <1>1, <2>5, <3>1, <3>5
      <4> QED BY <2>2, <2>3, <2>6, <4>1, <4>2
    <3>6. CASE i > it
      <4>1. i - 1 \in 1 .. Len(levels_) /\ j - 1 \in 1 .. Len(levels_) /\ i - 1 < j - 1
        BY <1>1, <2>5, <3>1, <3>6
      <4>2. new[i] = levels_[i - 1] /\ new[j] = levels_[j - 1]
        BY <1>1, <2>5, <3>1, <3>6
      <4> QED BY <4>1, <4>2 DEF StrictlySorted
    <3>7. \/ i < it /\ j < it
          \/ i < it /\ j = it
          \/ i < it /\ j > it
          \/ i = it
          \/ i > it
      BY <1>1, <2>5, <3>1
    <3> QED BY <3>2, <3>3, <3>4, <3>5, <3>6, <3>7
  <2>8. ASSUME NEW x, Priced(new, x) PROVE Priced(levels_, x) \/ x = p
    <3>1. PICK j \in 1 .. Len(new) : new[j].price_ticks = x
      BY <2>8 DEF Priced
    <3>2. CASE j < it
      <4>1. j \in 1 .. Len(levels_) /\ new[j] = levels_[j]
        BY <1>1, <2>5, <3>2
      <4> QED BY <3>1, <4>1 DEF Priced
    <3>3. CASE j = it
      BY <1>1, <2>2, <2>5, <3>1, <3>3
    <3>4. CASE j > it
      <4>1. j - 1 \in 1 .. Len(levels_) /\ new[j] = levels_[j - 1]
        BY <1>1, <2>5, <3>4
      <4> QED BY <3>1, <4>1 DEF Priced
    <3>5. j < it \/ j = it \/ j > it
      BY <1>1, <2>5
    <3> QED BY <3>2, <3>3, <3>4, <3>5
  <2> QED BY <2>1, <2>5, <2>7, <2>8
<1> QED BY <1>2, <1>3

-----------------------------------------------------------------------------
(* The quantity at each price.                                             *)

\* The ladder holds the level.
Holds(levels_, level) == \E i \in 1 .. Len(levels_) : levels_[i] = level

\* A price has one level at most.
LEMMA OneLevel ==
    ASSUME NEW levels_ \in Ladder, StrictlySorted(levels_),
           NEW i \in 1 .. Len(levels_), NEW j \in 1 .. Len(levels_),
           levels_[i].price_ticks = levels_[j].price_ticks
    PROVE  i = j
<1>1. Len(levels_) \in Nat /\ levels_[i].price_ticks \in Int
  BY LadderFacts
<1>2. ~(i < j) /\ ~(j < i)
  BY <1>1 DEF StrictlySorted
<1> QED BY <1>1, <1>2

\* std::lower_bound finds the level of the price, if there is one.
LEMMA LowerBoundFinds ==
    ASSUME NEW levels_ \in Ladder, StrictlySorted(levels_), NEW i \in 1 .. Len(levels_)
    PROVE  LowerBound(levels_, levels_[i].price_ticks) = i
<1> DEFINE p == levels_[i].price_ticks
           it == LowerBound(levels_, p)
<1>1. Len(levels_) \in Nat /\ p \in Int /\ \A j \in 1 .. Len(levels_) : levels_[j].price_ticks \in Int
  BY LadderFacts
<1>2. /\ it \in 1 .. Len(levels_) + 1
      /\ it <= Len(levels_) => levels_[it].price_ticks >= p
      /\ \A j \in 1 .. it - 1 : levels_[j].price_ticks < p
  BY <1>1, LowerBoundProperties, Zenon
<1> HIDE DEF it
<1>3. it <= i
  BY <1>1, <1>2
<1>4. it \in 1 .. Len(levels_) /\ levels_[it].price_ticks >= p
  BY <1>1, <1>2, <1>3
<1>5. ~(it < i)
  BY <1>1, <1>4 DEF StrictlySorted
<1>6. it = i
  BY <1>1, <1>3, <1>4, <1>5
<1> QED BY <1>6 DEF it

\* find() returns the level of the price, if there is one.
LEMMA QuantityAtLevel ==
    ASSUME NEW levels_ \in Ladder, StrictlySorted(levels_), NEW i \in 1 .. Len(levels_)
    PROVE  QuantityAt(levels_, levels_[i].price_ticks) = levels_[i].total_quantity
<1>1. LowerBound(levels_, levels_[i].price_ticks) = i /\ i <= Len(levels_)
  BY LowerBoundFinds, LadderFacts
<1> QED BY <1>1 DEF QuantityAt, Hit

\* find() returns nullptr for a price without level.
LEMMA QuantityAtNone ==
    ASSUME NEW levels_ \in Ladder, NEW p \in Int, ~Priced(levels_, p)
    PROVE  QuantityAt(levels_, p) = 0
<1> DEFINE it == LowerBound(levels_, p)
<1>1. Len(levels_) \in Nat /\ it \in 1 .. Len(levels_) + 1
  BY LadderFacts, LowerBoundProperties
<1> HIDE DEF it
<1>2. ~Hit(levels_, it, p)
  BY <1>1 DEF Hit, Priced
<1> QED BY <1>2 DEF QuantityAt, it

\* The quantity at a price is unsigned, and positive only where there is a level.
LEMMA QuantityAtType ==
    ASSUME NEW levels_ \in Ladder, StrictlySorted(levels_), NEW p \in Int
    PROVE  /\ QuantityAt(levels_, p) \in 0 .. U64 - 1
           /\ QuantityAt(levels_, p) > 0 => Priced(levels_, p)
<1>1. CASE Priced(levels_, p)
  <2>1. PICK i \in 1 .. Len(levels_) : levels_[i].price_ticks = p
    BY <1>1 DEF Priced
  <2>2. QuantityAt(levels_, p) = levels_[i].total_quantity
    BY <2>1, QuantityAtLevel
  <2> QED BY <1>1, <2>2, LadderFacts
<1>2. CASE ~Priced(levels_, p)
  <2>1. QuantityAt(levels_, p) = 0
    BY <1>2, QuantityAtNone
  <2> QED BY <2>1, U64Assumption
<1> QED BY <1>1, <1>2

\* Two ladders that hold the same levels at a price show the same quantity there.
LEMMA SameQuantity ==
    ASSUME NEW l \in Ladder, StrictlySorted(l), NEW m \in Ladder, StrictlySorted(m), NEW x \in Int,
           \A e \in PriceLevel : e.price_ticks = x => (Holds(l, e) <=> Holds(m, e))
    PROVE  QuantityAt(l, x) = QuantityAt(m, x)
<1>1. CASE Priced(l, x)
  <2>1. PICK i \in 1 .. Len(l) : l[i].price_ticks = x
    BY <1>1 DEF Priced
  <2>2. l[i] \in PriceLevel /\ Holds(l, l[i])
    BY LadderFacts DEF Holds
  <2>3. PICK j \in 1 .. Len(m) : m[j] = l[i]
    BY <2>1, <2>2 DEF Holds
  <2>4. QuantityAt(l, l[i].price_ticks) = l[i].total_quantity
        /\ QuantityAt(m, m[j].price_ticks) = m[j].total_quantity
    BY QuantityAtLevel
  <2> QED BY <2>1, <2>3, <2>4
<1>2. CASE ~Priced(l, x)
  <2>1. ~Priced(m, x)
    <3> SUFFICES ASSUME NEW j \in 1 .. Len(m), m[j].price_ticks = x PROVE FALSE
      BY DEF Priced
    <3>1. m[j] \in PriceLevel /\ Holds(m, m[j])
      BY LadderFacts DEF Holds
    <3>2. Holds(l, m[j])
      BY <3>1
    <3> QED BY <1>2, <3>2 DEF Holds, Priced
  <2> QED BY <1>2, <2>1, QuantityAtNone
<1> QED BY <1>1, <1>2

\* A level with another quantity: the ladder holds it in place of the old one.
LEMMA QuantityLevels ==
    ASSUME NEW levels_ \in Ladder, StrictlySorted(levels_),
           NEW i \in 1 .. Len(levels_), NEW q \in 0 .. U64 - 1
    PROVE  \A e \in PriceLevel : Holds(WithQuantity(levels_, i, q), e) <=>
              IF e.price_ticks = levels_[i].price_ticks
              THEN e.total_quantity = q ELSE Holds(levels_, e)
<1> DEFINE n == [levels_[i] EXCEPT !.total_quantity = q]
           new == WithQuantity(levels_, i, q)
<1>1. n \in PriceLevel /\ n.price_ticks = levels_[i].price_ticks /\ n.total_quantity = q
  BY LadderFacts DEF PriceLevel
<1>2. new = [levels_ EXCEPT ![i] = n]
  BY Zenon DEF WithQuantity
<1>3. Len(new) = Len(levels_) /\ \A j \in 1 .. Len(levels_) : new[j] = IF j = i THEN n ELSE levels_[j]
  BY <1>1, <1>2, ReplaceFacts DEF Ladder
<1> HIDE DEF n, new
<1> SUFFICES ASSUME NEW e \in PriceLevel
             PROVE  Holds(new, e) <=> IF e.price_ticks = levels_[i].price_ticks
                                      THEN e.total_quantity = q ELSE Holds(levels_, e)
  BY DEF new
<1>4. CASE e.price_ticks = levels_[i].price_ticks
  <2>1. Holds(new, e) => e = n
    BY <1>3, <1>4, OneLevel DEF Holds
  <2>2. e = n => Holds(new, e)
    BY <1>3 DEF Holds
  <2>3. e = n <=> e.total_quantity = q
    BY <1>1, <1>4 DEF PriceLevel
  <2> QED BY <1>4, <2>1, <2>2, <2>3
<1>5. CASE e.price_ticks # levels_[i].price_ticks
  BY <1>1, <1>3, <1>5 DEF Holds
<1> QED BY <1>4, <1>5

\* remove_if_empty takes an empty level at the price out, and nothing else.
LEMMA RemoveIfEmptyLevels ==
    ASSUME NEW levels_ \in Ladder, StrictlySorted(levels_), NEW p \in Int
    PROVE  \A e \in PriceLevel : Holds(RemoveIfEmpty(levels_, p), e) <=>
              Holds(levels_, e) /\ ~(e.price_ticks = p /\ e.total_quantity = 0)
<1> DEFINE it == LowerBound(levels_, p)
           new == Erase(levels_, it)
           empty == Hit(levels_, it, p) /\ levels_[it].total_quantity = 0
<1>1. Len(levels_) \in Nat /\ it \in 1 .. Len(levels_) + 1
  BY LowerBoundProperties, LadderFacts, Zenon
<1>2. CASE ~empty
  <2>1. RemoveIfEmpty(levels_, p) = levels_
    BY <1>2 DEF RemoveIfEmpty
  <2>2. ASSUME NEW i \in 1 .. Len(levels_), levels_[i].price_ticks = p, levels_[i].total_quantity = 0
        PROVE  FALSE
    <3>1. it = i
      BY <2>2, LowerBoundFinds
    <3> QED BY <1>1, <1>2, <2>2, <3>1 DEF empty, Hit
  <2> QED BY <2>1, <2>2 DEF Holds
<1>3. CASE empty
  <2>1. RemoveIfEmpty(levels_, p) = new
    BY <1>3 DEF RemoveIfEmpty
  <2>2. it \in 1 .. Len(levels_) /\ levels_[it].price_ticks = p /\ levels_[it].total_quantity = 0
    BY <1>1, <1>3 DEF Hit
  <2> HIDE DEF it, empty
  <2>3. /\ Len(new) = Len(levels_) - 1
        /\ \A j \in 1 .. Len(levels_) - 1 :
              new[j] = IF j < it THEN levels_[j] ELSE levels_[j + 1]
    BY <2>2, EraseProperties DEF Ladder
  <2> HIDE DEF new
  <2> SUFFICES ASSUME NEW e \in PriceLevel
               PROVE  Holds(new, e) <=>
                         Holds(levels_, e) /\ ~(e.price_ticks = p /\ e.total_quantity = 0)
    BY <2>1
  <2>4. ASSUME NEW j \in 1 .. Len(new), new[j] = e
        PROVE  Holds(levels_, e) /\ ~(e.price_ticks = p /\ e.total_quantity = 0)
    <3> DEFINE j0 == IF j < it THEN j ELSE j + 1
    <3>1. j0 \in 1 .. Len(levels_) /\ new[j] = levels_[j0] /\ j0 # it
      BY <1>1, <2>2, <2>3
    <3> HIDE DEF j0
    <3>2. levels_[j0].price_ticks # p
      BY <2>2, <3>1, OneLevel
    <3> QED BY <2>4, <3>1, <3>2 DEF Holds
  <2>5. ASSUME NEW i \in 1 .. Len(levels_), levels_[i] = e, ~(e.price_ticks = p /\ e.total_quantity = 0)
        PROVE  Holds(new, e)
    <3>1. i # it
      BY <2>2, <2>5
    <3> DEFINE j == IF i < it THEN i ELSE i - 1
    <3>2. j \in 1 .. Len(new) /\ new[j] = levels_[i]
      BY <1>1, <2>2, <2>3, <3>1
    <3> HIDE DEF j
    <3> QED BY <2>5, <3>2 DEF Holds
  <2> QED BY <2>4, <2>5 DEF Holds
<1> QED BY <1>2, <1>3

\* upsert puts the new quantity at its price and leaves the other levels alone.
LEMMA UpsertLevels ==
    ASSUME NEW levels_ \in Ladder, StrictlySorted(levels_),
           NEW p \in Int, NEW q \in 0 .. U64 - 1
    PROVE  \A e \in PriceLevel : Holds(Upsert(levels_, p, q), e) <=>
              IF e.price_ticks = p
              THEN e.total_quantity = (QuantityAt(levels_, p) + q) % U64 ELSE Holds(levels_, e)
<1> DEFINE it == LowerBound(levels_, p)
           n == [price_ticks |-> p, total_quantity |-> q]
           new == Insert(levels_, it, n)
<1>1. Len(levels_) \in Nat /\ it \in 1 .. Len(levels_) + 1
  BY LowerBoundProperties, LadderFacts, Zenon
<1>2. CASE Hit(levels_, it, p)
  <2> DEFINE total == (levels_[it].total_quantity + q) % U64
  <2>1. it \in 1 .. Len(levels_) /\ levels_[it].price_ticks = p
        /\ QuantityAt(levels_, p) = levels_[it].total_quantity
    BY <1>1, <1>2 DEF Hit, QuantityAt
  <2>2. total \in 0 .. U64 - 1
    <3>1. levels_[it].total_quantity \in 0 .. U64 - 1
      BY <2>1, LadderFacts
    <3> QED BY <3>1, U64Assumption
  <2>3. Upsert(levels_, p, q) = WithQuantity(levels_, it, total)
    BY <1>2, Zenon DEF Upsert, WithQuantity
  <2>4. total = (QuantityAt(levels_, p) + q) % U64
    BY <2>1
  <2> HIDE DEF total, it
  <2> QED BY <2>1, <2>2, <2>3, <2>4, QuantityLevels
<1>3. CASE ~Hit(levels_, it, p)
  <2>1. Upsert(levels_, p, q) = new
    BY <1>3, Zenon DEF Upsert
  <2>2. QuantityAt(levels_, p) = 0 /\ q = (QuantityAt(levels_, p) + q) % U64
    <3>1. QuantityAt(levels_, p) = 0
      BY <1>3 DEF QuantityAt
    <3> QED BY <3>1, U64Assumption
  <2>3. n \in PriceLevel /\ n.price_ticks = p /\ n.total_quantity = q
    BY DEF PriceLevel
  <2>4. ~Priced(levels_, p)
    <3> SUFFICES ASSUME NEW i \in 1 .. Len(levels_), levels_[i].price_ticks = p PROVE FALSE
      BY DEF Priced
    <3>1. it = i
      BY LowerBoundFinds
    <3> QED BY <1>1, <1>3, <3>1 DEF Hit
  <2> HIDE DEF it, n
  <2>5. /\ Len(new) = Len(levels_) + 1
        /\ \A j \in 1 .. Len(levels_) + 1 :
              new[j] = IF j < it THEN levels_[j] ELSE IF j = it THEN n ELSE levels_[j - 1]
    BY <1>1, <2>3, InsertProperties DEF Ladder
  <2> HIDE DEF new
  <2> SUFFICES ASSUME NEW e \in PriceLevel
               PROVE  Holds(new, e) <=> IF e.price_ticks = p THEN e.total_quantity = q
                                        ELSE Holds(levels_, e)
    BY <2>1, <2>2
  <2>6. ASSUME NEW j \in 1 .. Len(new), new[j] = e PROVE e = n \/ Holds(levels_, e)
    <3> DEFINE i == IF j < it THEN j ELSE j - 1
    <3>1. j = it \/ (i \in 1 .. Len(levels_) /\ new[j] = levels_[i])
      BY <1>1, <2>5
    <3>2. j = it => new[j] = n
      BY <1>1, <2>5
    <3> HIDE DEF i
    <3> QED BY <2>6, <3>1, <3>2 DEF Holds
  <2>7. Holds(new, n)
    BY <1>1, <2>5 DEF Holds
  <2>8. ASSUME NEW i \in 1 .. Len(levels_), levels_[i] = e PROVE Holds(new, e)
    <3> DEFINE j == IF i < it THEN i ELSE i + 1
    <3>1. j \in 1 .. Len(new) /\ new[j] = levels_[i]
      BY <1>1, <2>5
    <3> HIDE DEF j
    <3> QED BY <2>8, <3>1 DEF Holds
  <2>9. e = n <=> e.price_ticks = p /\ e.total_quantity = q
    BY <2>3 DEF PriceLevel, n
  <2>10. e.price_ticks = p => ~Holds(levels_, e)
    BY <2>4 DEF Holds, Priced
  <2> QED BY <2>6, <2>7, <2>8, <2>9, <2>10 DEF Holds
<1> QED BY <1>2, <1>3

\* remove_if_empty changes the quantity at no price.
LEMMA RemoveIfEmptyQuantity ==
    ASSUME NEW levels_ \in Ladder, StrictlySorted(levels_), NEW p \in Int, NEW x \in Int
    PROVE  QuantityAt(RemoveIfEmpty(levels_, p), x) = QuantityAt(levels_, x)
<1> DEFINE new == RemoveIfEmpty(levels_, p)
<1>1. /\ new \in Ladder /\ StrictlySorted(new)
      /\ \A y : Priced(new, y) => Priced(levels_, y)
  BY RemoveIfEmptyProperties
<1>2. \A e \in PriceLevel : Holds(new, e) <=>
          Holds(levels_, e) /\ ~(e.price_ticks = p /\ e.total_quantity = 0)
  BY RemoveIfEmptyLevels
<1> HIDE DEF new
<1>3. CASE Priced(new, x)
  <2>1. PICK j \in 1 .. Len(new) : new[j].price_ticks = x
    BY <1>3 DEF Priced
  <2>2. new[j] \in PriceLevel /\ Holds(new, new[j])
    BY <1>1, LadderFacts DEF Holds
  <2>3. PICK i \in 1 .. Len(levels_) : levels_[i] = new[j]
    BY <1>2, <2>2 DEF Holds
  <2>4. QuantityAt(new, new[j].price_ticks) = new[j].total_quantity
    BY <1>1, QuantityAtLevel
  <2>5. QuantityAt(levels_, levels_[i].price_ticks) = levels_[i].total_quantity
    BY QuantityAtLevel
  <2> QED BY <2>1, <2>3, <2>4, <2>5 DEF new
<1>4. CASE ~Priced(new, x)
  <2>1. QuantityAt(new, x) = 0
    BY <1>1, <1>4, QuantityAtNone
  <2>2. QuantityAt(levels_, x) = 0
    <3>1. ASSUME NEW i \in 1 .. Len(levels_), levels_[i].price_ticks = x
          PROVE  QuantityAt(levels_, x) = 0
      <4>1. levels_[i] \in PriceLevel /\ Holds(levels_, levels_[i])
        BY LadderFacts DEF Holds
      <4>2. ~Holds(new, levels_[i])
        BY <1>4, <3>1 DEF Holds, Priced
      <4>3. levels_[i].total_quantity = 0
        BY <1>2, <4>1, <4>2
      <4> QED BY <3>1, <4>3, QuantityAtLevel
    <3>2. CASE ~Priced(levels_, x)
      BY <3>2, QuantityAtNone
    <3> QED BY <3>1, <3>2 DEF Priced
  <2> QED BY <2>1, <2>2 DEF new
<1> QED BY <1>3, <1>4

\* A ladder that holds a level shows its quantity.
LEMMA HeldQuantity ==
    ASSUME NEW levels_ \in Ladder, StrictlySorted(levels_), NEW e, Holds(levels_, e)
    PROVE  QuantityAt(levels_, e.price_ticks) = e.total_quantity
BY QuantityAtLevel DEF Holds

\* Another quantity in one level shows at its price and at no other.
LEMMA QuantityQuantity ==
    ASSUME NEW levels_ \in Ladder, StrictlySorted(levels_),
           NEW i \in 1 .. Len(levels_), NEW q \in 0 .. U64 - 1, NEW x \in Int
    PROVE  QuantityAt(WithQuantity(levels_, i, q), x) =
              IF x = levels_[i].price_ticks THEN q ELSE QuantityAt(levels_, x)
<1> DEFINE new == WithQuantity(levels_, i, q)
           n == [price_ticks |-> x, total_quantity |-> q]
<1>1. new \in Ladder /\ StrictlySorted(new)
  BY QuantityProperties
<1>2. \A e \in PriceLevel : Holds(new, e) <=>
          IF e.price_ticks = levels_[i].price_ticks THEN e.total_quantity = q ELSE Holds(levels_, e)
  BY QuantityLevels
<1>3. n \in PriceLevel /\ n.price_ticks = x /\ n.total_quantity = q
  BY DEF PriceLevel
<1> HIDE DEF new, n
<1>4. CASE x = levels_[i].price_ticks
  <2>1. Holds(new, n)
    BY <1>2, <1>3, <1>4
  <2>2. QuantityAt(new, n.price_ticks) = n.total_quantity
    BY <1>1, <2>1, HeldQuantity
  <2> QED BY <1>3, <1>4, <2>2 DEF new
<1>5. CASE x # levels_[i].price_ticks
  <2>1. QuantityAt(new, x) = QuantityAt(levels_, x)
    BY <1>1, <1>2, <1>5, SameQuantity
  <2> QED BY <1>5, <2>1 DEF new
<1> QED BY <1>4, <1>5

\* upsert adds its quantity at its price, modulo the width of the total, and
\* changes the quantity at no other price.
LEMMA UpsertQuantity ==
    ASSUME NEW levels_ \in Ladder, StrictlySorted(levels_),
           NEW p \in Int, NEW q \in 0 .. U64 - 1, NEW x \in Int
    PROVE  QuantityAt(Upsert(levels_, p, q), x) =
              IF x = p THEN (QuantityAt(levels_, p) + q) % U64 ELSE QuantityAt(levels_, x)
<1> DEFINE new == Upsert(levels_, p, q)
           total == (QuantityAt(levels_, p) + q) % U64
           n == [price_ticks |-> x, total_quantity |-> total]
<1>1. new \in Ladder /\ StrictlySorted(new)
  BY UpsertProperties
<1>2. \A e \in PriceLevel : Holds(new, e) <=>
          IF e.price_ticks = p THEN e.total_quantity = total ELSE Holds(levels_, e)
  BY UpsertLevels
<1>3. total \in 0 .. U64 - 1
  <2>1. QuantityAt(levels_, p) \in 0 .. U64 - 1
    BY QuantityAtType
  <2> QED BY <2>1, U64Assumption
<1> HIDE DEF new, total
<1>4. n \in PriceLevel /\ n.price_ticks = x /\ n.total_quantity = total
  BY <1>3 DEF PriceLevel
<1> HIDE DEF n
<1>5. CASE x = p
  <2>1. Holds(new, n)
    BY <1>2, <1>4, <1>5
  <2>2. QuantityAt(new, n.price_ticks) = n.total_quantity
    BY <1>1, <2>1, HeldQuantity
  <2> QED BY <1>4, <1>5, <2>2 DEF new, total
<1>6. CASE x # p
  <2>1. QuantityAt(new, x) = QuantityAt(levels_, x)
    BY <1>1, <1>2, <1>6, SameQuantity
  <2> QED BY <1>6, <2>1 DEF new
<1> QED BY <1>5, <1>6

-----------------------------------------------------------------------------
(* The book                                                                *)

\* Every bid is below every ask.
Separated ==
    \A x, y \in Int : Priced(bids_, x) /\ Priced(asks_, y) => x < y

IInv == TypeOK /\ LaddersSorted /\ Separated

\* The invariant gives the property.
LEMMA SeparatedUncrossed == IInv => Uncrossed
<1> SUFFICES ASSUME IInv, HasBid, HasAsk PROVE SpreadTicks > 0
  BY DEF Uncrossed
<1>1. bids_ \in Ladder /\ asks_ \in Ladder
  BY DEF IInv, TypeOK
<1>2. Len(bids_) \in 1 .. Len(bids_) /\ 1 \in 1 .. Len(asks_)
  <2>1. Len(bids_) \in Nat /\ Len(asks_) \in Nat
    BY <1>1, LadderFacts
  <2>2. Len(bids_) # 0 /\ Len(asks_) # 0
    BY <1>1 DEF HasBid, HasAsk, Ladder
  <2> QED BY <2>1, <2>2
<1>3. BestBid.price_ticks \in Int /\ BestAsk.price_ticks \in Int
  BY <1>1, <1>2, LadderFacts DEF BestBid, BestAsk, BestIndex, WorstIndex
<1>4. Priced(bids_, BestBid.price_ticks) /\ Priced(asks_, BestAsk.price_ticks)
  BY <1>2 DEF Priced, BestBid, BestAsk, BestIndex, WorstIndex
<1> QED BY <1>3, <1>4 DEF IInv, Separated, SpreadTicks

\* The constructor's state satisfies the invariant.
LEMMA InitInv == Init => IInv
<1> SUFFICES ASSUME Init PROVE IInv
  OBVIOUS
<1> USE DEF Init
<1>1. TypeOK
  <2>1. bids_ \in Ladder /\ asks_ \in Ladder
    BY DEF Ladder
  <2>2. order_pool_ \in [Slot -> Order] /\ order_id_to_slot_ \in [Slot -> Slot \cup {NoSlot}]
    BY DEF Order
  <2>3. free_list_ \in Seq(Slot)
    BY PoolAssumption DEF Slot
  <2>4. next_order_id_ \in Nat \ {0} /\ call = NoCall /\ live = {}
    OBVIOUS
  <2>5. dropped \in SUBSET Slot
    BY PoolAssumption DEF Slot
  <2>6. late \in BOOLEAN
    BY Zenon
  <2> QED BY <2>1, <2>2, <2>3, <2>4, <2>5, <2>6 DEF TypeOK
<1>2. LaddersSorted
  BY DEF LaddersSorted, StrictlySorted
<1>3. Separated
  BY DEF Separated, Priced
<1> QED BY <1>1, <1>2, <1>3 DEF IInv

-----------------------------------------------------------------------------
(* The ladders in one step.                                                *)

\* A step that adds no price to either ladder keeps the sides apart.
LEMMA ShrinkStep ==
    ASSUME IInv,
           StrictlySorted(bids_'), \A x : Priced(bids_', x) => Priced(bids_, x),
           StrictlySorted(asks_'), \A x : Priced(asks_', x) => Priced(asks_, x)
    PROVE  LaddersSorted' /\ Separated'
BY DEF IInv, Separated, LaddersSorted

\* A step that leaves the ladders alone keeps them sorted and apart.
LEMMA SameBookStep ==
    ASSUME IInv, UNCHANGED book
    PROVE  bids_' \in Ladder /\ asks_' \in Ladder /\ LaddersSorted' /\ Separated'
<1>1. bids_' = bids_ /\ asks_' = asks_
  BY DEF book
<1>2. bids_ \in Ladder /\ asks_ \in Ladder /\ StrictlySorted(bids_) /\ StrictlySorted(asks_)
  BY DEF IInv, TypeOK, LaddersSorted
<1>3. LaddersSorted' /\ Separated'
  BY <1>1, <1>2, ShrinkStep
<1> QED BY <1>1, <1>2, <1>3

\* Pushing a slot to the free list, accepted or refused, keeps its type.
LEMMA FreeListPushType ==
    ASSUME TypeOK, NEW slot \in Slot, FreeListPush(slot)
    PROVE  free_list_' \in Seq(Slot) /\ dropped' \in SUBSET Slot
<1>1. free_list_' \in Seq(Slot)
  BY DEF FreeListPush, TypeOK
<1>2. dropped' \in SUBSET Slot
  BY DEF FreeListPush, TypeOK
<1> QED BY <1>1, <1>2

\* The low bits of an id index the map.
LEMMA MapIndexType == ASSUME NEW id \in Int PROVE MapIndex(id) \in Slot
BY PoolAssumption DEF MapIndex, Slot

\* cancel_order, on a hit or a miss, leaves the ladders sorted and apart and
\* returns a valid slot.
LEMMA CancelEffect ==
    ASSUME IInv, NEW id \in Int, CancelFound(id) \/ CancelNotFound(id)
    PROVE  /\ bids_' \in Ladder /\ asks_' \in Ladder /\ LaddersSorted' /\ Separated'
           /\ free_list_' \in Seq(Slot) /\ dropped' \in SUBSET Slot
           /\ live' \in SUBSET Call /\ late' \in BOOLEAN
<1>0. TypeOK /\ bids_ \in Ladder /\ asks_ \in Ladder
      /\ StrictlySorted(bids_) /\ StrictlySorted(asks_)
  BY DEF IInv, TypeOK, LaddersSorted
<1>1. CASE CancelNotFound(id)
  <2>1. UNCHANGED book /\ UNCHANGED <<free_list_, live, dropped, late>>
    BY <1>1 DEF CancelNotFound
  <2>2. free_list_' \in Seq(Slot) /\ dropped' \in SUBSET Slot
        /\ live' \in SUBSET Call /\ late' \in BOOLEAN
    BY <1>0, <2>1 DEF TypeOK
  <2> QED BY <2>1, <2>2, SameBookStep
<1>2. CASE CancelFound(id)
  <2> DEFINE slot == order_id_to_slot_[MapIndex(id)]
             p == order_pool_[slot].price_ticks
  <2>1. slot \in Slot
    <3>1. slot \in Slot \cup {NoSlot}
      BY <1>0, MapIndexType DEF TypeOK
    <3>2. slot # NoSlot
      BY <1>2 DEF CancelFound, Found
    <3> QED BY <3>1, <3>2
  <2>2. p \in Int
    BY <1>0, <2>1, Zenon DEF TypeOK, Order
  <2>3. /\ bids_' = bids_ \/ bids_' = RemoveIfEmpty(bids_, p)
        /\ asks_' = asks_ \/ asks_' = RemoveIfEmpty(asks_, p)
        /\ FreeListPush(slot)
        /\ live' \subseteq live
    BY <1>2 DEF CancelFound
  <2> HIDE DEF slot, p
  <2>4. /\ bids_' \in Ladder /\ StrictlySorted(bids_')
        /\ \A x : Priced(bids_', x) => Priced(bids_, x)
    BY <1>0, <2>2, <2>3, RemoveIfEmptyProperties
  <2>5. /\ asks_' \in Ladder /\ StrictlySorted(asks_')
        /\ \A x : Priced(asks_', x) => Priced(asks_, x)
    BY <1>0, <2>2, <2>3, RemoveIfEmptyProperties
  <2>6. LaddersSorted' /\ Separated'
    BY <2>4, <2>5, ShrinkStep
  <2>7. free_list_' \in Seq(Slot) /\ dropped' \in SUBSET Slot
    BY <1>0, <2>1, <2>3, FreeListPushType
  <2>8. live' \in SUBSET Call
    BY <1>0, <2>3 DEF TypeOK
  <2>9. late' \in BOOLEAN
    BY <1>2, Zenon DEF CancelFound
  <2> QED BY <2>4, <2>5, <2>6, <2>7, <2>8, <2>9
<1> QED BY <1>1, <1>2

\* cancel_order, on a hit or a miss, does no more to a ladder than remove a level
\* that is empty.
LEMMA CancelLadders ==
    ASSUME TypeOK, NEW id \in Int, CancelFound(id) \/ CancelNotFound(id)
    PROVE  \E p \in Int : /\ bids_' = bids_ \/ bids_' = RemoveIfEmpty(bids_, p)
                          /\ asks_' = asks_ \/ asks_' = RemoveIfEmpty(asks_, p)
<1>1. CASE CancelNotFound(id)
  BY <1>1, Zenon DEF CancelNotFound, book
<1>2. CASE CancelFound(id)
  <2> DEFINE slot == order_id_to_slot_[MapIndex(id)]
  <2>1. slot \in Slot \cup {NoSlot}
    BY MapIndexType DEF TypeOK
  <2>2. slot # NoSlot
    BY <1>2, Zenon DEF CancelFound, Found
  <2>3. order_pool_[slot].price_ticks \in Int
    BY <2>1, <2>2 DEF TypeOK, Order
  <2> QED BY <1>2, <2>3 DEF CancelFound
<1> QED BY <1>1, <1>2

\* A fill is no larger than the taker's rest nor than the level.
LEMMA FillQtyBounds ==
    ASSUME NEW quantity \in 0 .. U32 - 1, NEW total \in 0 .. U64 - 1
    PROVE  /\ FillQty(quantity, total) \in 0 .. U32 - 1
           /\ quantity - FillQty(quantity, total) \in 0 .. U32 - 1
           /\ total - FillQty(quantity, total) \in 0 .. U64 - 1
<1>1. total % U32 \in 0 .. U32 - 1 /\ total % U32 <= total
  BY WidthAssumption, U64Assumption
<1> QED BY <1>1, WidthAssumption, U64Assumption DEF FillQty

\* A fill, with the remove_if_empty that follows it, keeps a ladder sorted
\* and adds no price.
LEMMA TakeFromProperties ==
    ASSUME NEW levels_ \in Ladder, StrictlySorted(levels_), NEW i \in 1 .. Len(levels_),
           NEW fill_qty, levels_[i].total_quantity - fill_qty \in 0 .. U64 - 1
    PROVE  /\ TakeFrom(levels_, i, fill_qty) \in Ladder
           /\ StrictlySorted(TakeFrom(levels_, i, fill_qty))
           /\ \A x : Priced(TakeFrom(levels_, i, fill_qty), x) => Priced(levels_, x)
<1> DEFINE q == levels_[i].total_quantity - fill_qty
           new == WithQuantity(levels_, i, q)
           p == levels_[i].price_ticks
<1>1. TakeFrom(levels_, i, fill_qty) = RemoveIfEmpty(new, p)
  BY DEF TakeFrom, WithQuantity
<1>2. p \in Int
  BY LadderFacts, Zenon
<1>3. /\ new \in Ladder /\ StrictlySorted(new)
      /\ \A x : Priced(new, x) => Priced(levels_, x)
  BY QuantityProperties
<1> HIDE DEF new, p
<1> QED BY <1>1, <1>2, <1>3, RemoveIfEmptyProperties

\* The ends of a non-empty ladder are levels of it.
LEMMA EndIndices ==
    ASSUME NEW levels_ \in Ladder, levels_ # <<>>
    PROVE  BestIndex(levels_) \in 1 .. Len(levels_) /\ WorstIndex(levels_) \in 1 .. Len(levels_)
<1>1. Len(levels_) \in Nat /\ Len(levels_) # 0
  BY LadderFacts DEF Ladder
<1> QED BY <1>1 DEF BestIndex, WorstIndex

\* A buyer that may rest bids below every ask.
LEMMA RestsBelowAsks ==
    ASSUME IInv, call \in Call, call.remaining > 0, ~BuyMatches, NEW y \in Int, Priced(asks_, y)
    PROVE  call.price_ticks < y
<1>0. asks_ \in Ladder /\ StrictlySorted(asks_)
  BY DEF IInv, TypeOK, LaddersSorted
<1>1. PICK i \in 1 .. Len(asks_) : asks_[i].price_ticks = y
  BY DEF Priced
<1>2. Len(asks_) \in Nat /\ 1 \in 1 .. Len(asks_) /\ HasAsk
  BY <1>0, <1>1, LadderFacts DEF HasAsk
<1>3. asks_[1].price_ticks \in Int /\ call.price_ticks \in Int
  BY <1>0, <1>2, LadderFacts DEF Call
<1>4. call.price_ticks < asks_[1].price_ticks
  BY <1>2, <1>3 DEF BuyMatches, BestAsk, WorstIndex
<1>5. i = 1 \/ asks_[1].price_ticks < asks_[i].price_ticks
  BY <1>0, <1>2 DEF StrictlySorted
<1> QED BY <1>1, <1>3, <1>4, <1>5

\* A seller that may rest asks above every bid.
LEMMA RestsAboveBids ==
    ASSUME IInv, call \in Call, call.remaining > 0, ~SellMatches, NEW x \in Int, Priced(bids_, x)
    PROVE  x < call.price_ticks
<1>0. bids_ \in Ladder /\ StrictlySorted(bids_)
  BY DEF IInv, TypeOK, LaddersSorted
<1>1. PICK i \in 1 .. Len(bids_) : bids_[i].price_ticks = x
  BY Zenon DEF Priced
<1> DEFINE n == Len(bids_)
<1>2. n \in Nat /\ n \in 1 .. n /\ HasBid
  BY <1>0, <1>1, LadderFacts DEF HasBid
<1>3. bids_[n].price_ticks \in Int /\ call.price_ticks \in Int
  BY <1>0, <1>2, LadderFacts DEF Call
<1>4. bids_[n].price_ticks < call.price_ticks
  BY <1>2, <1>3 DEF SellMatches, BestBid, BestIndex
<1>5. i = n \/ bids_[i].price_ticks < bids_[n].price_ticks
  BY <1>0, <1>2 DEF StrictlySorted
<1> QED BY <1>1, <1>3, <1>4, <1>5

-----------------------------------------------------------------------------
(* Every step preserves the invariant.                                     *)

\* cancel_order called directly.
LEMMA CancelOrderStep ==
    ASSUME IInv, NEW id \in Int, CancelOrder(id)
    PROVE  IInv'
<1>1. /\ bids_' \in Ladder /\ asks_' \in Ladder /\ LaddersSorted' /\ Separated'
      /\ free_list_' \in Seq(Slot) /\ dropped' \in SUBSET Slot
      /\ live' \in SUBSET Call /\ late' \in BOOLEAN
  BY CancelEffect DEF CancelOrder
<1>2. TypeOK'
  BY <1>1 DEF IInv, TypeOK, CancelOrder
<1> QED BY <1>1, <1>2 DEF IInv

\* add_order with type Cancel.
LEMMA AddOrderCancelStep ==
    ASSUME IInv, NEW id \in Int, AddOrderCancel(id)
    PROVE  IInv'
<1>1. /\ bids_' \in Ladder /\ asks_' \in Ladder /\ LaddersSorted' /\ Separated'
      /\ free_list_' \in Seq(Slot) /\ dropped' \in SUBSET Slot
      /\ live' \in SUBSET Call /\ late' \in BOOLEAN
  BY CancelEffect DEF AddOrderCancel
<1>2. next_order_id_' \in Nat \ {0}
  BY DEF IInv, TypeOK, AddOrderCancel, TakeOrderId
<1>3. TypeOK'
  BY <1>1, <1>2 DEF IInv, TypeOK, AddOrderCancel
<1> QED BY <1>1, <1>3, Zenon DEF IInv

\* add_order with an exhausted pool.
LEMMA AddOrderExhaustedStep ==
    ASSUME IInv, AddOrderExhausted
    PROVE  IInv'
<1>1. bids_' \in Ladder /\ asks_' \in Ladder /\ LaddersSorted' /\ Separated'
  BY SameBookStep DEF AddOrderExhausted
<1>2. next_order_id_' \in Nat \ {0}
  BY DEF IInv, TypeOK, AddOrderExhausted, TakeOrderId
<1>3. TypeOK'
  BY <1>1, <1>2 DEF IInv, TypeOK, AddOrderExhausted
<1> QED BY <1>1, <1>3 DEF IInv

\* The start of add_order: a slot, a record and a map entry.
LEMMA AddOrderAllocateStep ==
    ASSUME IInv, NEW side \in {"Buy", "Sell"}, NEW p \in Prices, NEW quantity \in Quantities,
           AddOrderAllocate(side, p, quantity)
    PROVE  IInv'
<1> DEFINE slot == Head(free_list_)
<1>1. bids_' \in Ladder /\ asks_' \in Ladder /\ LaddersSorted' /\ Separated'
  BY SameBookStep DEF AddOrderAllocate
<1>2. slot \in Slot /\ free_list_' \in Seq(Slot)
  <2>1. free_list_ \in Seq(Slot) /\ free_list_ # <<>> /\ free_list_' = Tail(free_list_)
    BY DEF IInv, TypeOK, AddOrderAllocate
  <2> QED BY <2>1, TailFacts
<1>3. p \in Int /\ quantity \in 0 .. U32 - 1
  BY ClientAssumption
<1>4. next_order_id_ \in Nat /\ next_order_id_' \in Nat \ {0} /\ MapIndex(next_order_id_) \in Slot
  BY MapIndexType DEF IInv, TypeOK, AddOrderAllocate, TakeOrderId
<1> HIDE DEF slot
<1>5. order_pool_' \in [Slot -> Order]
  <2>1. [order_id |-> next_order_id_, price_ticks |-> p, side |-> side] \in Order
    BY <1>3, <1>4 DEF Order
  <2>2. order_pool_' = [order_pool_ EXCEPT ![slot] =
           [order_id |-> next_order_id_, price_ticks |-> p, side |-> side]]
    BY DEF AddOrderAllocate, slot
  <2> QED BY <1>2, <2>1, <2>2 DEF IInv, TypeOK
<1>6. order_id_to_slot_' \in [Slot -> Slot \cup {NoSlot}]
  <2>1. order_id_to_slot_' = [order_id_to_slot_ EXCEPT ![MapIndex(next_order_id_)] = slot]
    BY DEF AddOrderAllocate, slot
  <2> QED BY <1>2, <1>4, <2>1 DEF IInv, TypeOK
<1>7. call' \in Call
  <2>1. call' = [side |-> side, price_ticks |-> p, remaining |-> quantity,
                 slot |-> slot, order_id |-> next_order_id_]
    BY Zenon DEF AddOrderAllocate, slot
  <2> QED BY <1>2, <1>3, <1>4, <2>1, Zenon DEF Call
<1>8. TypeOK'
  BY <1>1, <1>2, <1>4, <1>5, <1>6, <1>7 DEF IInv, TypeOK, AddOrderAllocate
<1> QED BY <1>1, <1>8 DEF IInv

\* The rest of the taker stays unsigned.
LEMMA CallAfterFill ==
    ASSUME NEW c \in Call, NEW f, c.remaining - f \in 0 .. U32 - 1
    PROVE  [c EXCEPT !.remaining = @ - f] \in Call
BY DEF Call

\* What one fill of a buy does.
LEMMA BuyFill ==
    ASSUME IInv, MatchAggressiveBuy
    PROVE  /\ call \in Call /\ WorstIndex(asks_) \in 1 .. Len(asks_)
           /\ \E f \in 0 .. U32 - 1 :
                 /\ f = FillQty(call.remaining, BestAsk.total_quantity)
                 /\ call.remaining - f \in 0 .. U32 - 1
                 /\ asks_[WorstIndex(asks_)].total_quantity - f \in 0 .. U64 - 1
                 /\ call' = [call EXCEPT !.remaining = @ - f]
                 /\ asks_' = TakeFrom(asks_, WorstIndex(asks_), f)
                 /\ bids_' = bids_ /\ UNCHANGED pool /\ UNCHANGED <<live, dropped, late>>
<1> DEFINE i == WorstIndex(asks_)
           f == FillQty(call.remaining, BestAsk.total_quantity)
<1>1. call \in Call /\ asks_ \in Ladder
  BY DEF IInv, TypeOK, NoCall, MatchAggressiveBuy
<1>2. i \in 1 .. Len(asks_)
  BY <1>1, EndIndices DEF MatchAggressiveBuy, BuyMatches, HasAsk
<1>3. asks_[i].total_quantity \in 0 .. U64 - 1 /\ call.remaining \in 0 .. U32 - 1
  BY <1>1, <1>2, LadderFacts, Zenon DEF Call
<1>4. /\ f \in 0 .. U32 - 1 /\ call.remaining - f \in 0 .. U32 - 1
      /\ asks_[i].total_quantity - f \in 0 .. U64 - 1
  BY <1>3, FillQtyBounds DEF BestAsk
<1>5. /\ call' = [call EXCEPT !.remaining = @ - f]
      /\ asks_' = TakeFrom(asks_, i, f)
      /\ bids_' = bids_ /\ UNCHANGED pool /\ UNCHANGED <<live, dropped, late>>
  BY DEF MatchAggressiveBuy
<1> QED BY <1>1, <1>2, <1>4, <1>5

\* What one fill of a sell does.
LEMMA SellFill ==
    ASSUME IInv, MatchAggressiveSell
    PROVE  /\ call \in Call /\ BestIndex(bids_) \in 1 .. Len(bids_)
           /\ \E f \in 0 .. U32 - 1 :
                 /\ f = FillQty(call.remaining, BestBid.total_quantity)
                 /\ call.remaining - f \in 0 .. U32 - 1
                 /\ bids_[BestIndex(bids_)].total_quantity - f \in 0 .. U64 - 1
                 /\ call' = [call EXCEPT !.remaining = @ - f]
                 /\ bids_' = TakeFrom(bids_, BestIndex(bids_), f)
                 /\ asks_' = asks_ /\ UNCHANGED pool /\ UNCHANGED <<live, dropped, late>>
<1> DEFINE i == BestIndex(bids_)
           f == FillQty(call.remaining, BestBid.total_quantity)
<1>1. call \in Call /\ bids_ \in Ladder
  BY DEF IInv, TypeOK, NoCall, MatchAggressiveSell
<1>2. i \in 1 .. Len(bids_)
  BY <1>1, EndIndices DEF MatchAggressiveSell, SellMatches, HasBid
<1>3. bids_[i].total_quantity \in 0 .. U64 - 1 /\ call.remaining \in 0 .. U32 - 1
  BY <1>1, <1>2, LadderFacts, Zenon DEF Call
<1>4. /\ f \in 0 .. U32 - 1 /\ call.remaining - f \in 0 .. U32 - 1
      /\ bids_[i].total_quantity - f \in 0 .. U64 - 1
  BY <1>3, FillQtyBounds, Zenon DEF BestBid
<1>5. /\ call' = [call EXCEPT !.remaining = @ - f]
      /\ bids_' = TakeFrom(bids_, i, f)
      /\ asks_' = asks_ /\ UNCHANGED pool /\ UNCHANGED <<live, dropped, late>>
  BY DEF MatchAggressiveSell
<1> QED BY <1>1, <1>2, <1>4, <1>5, Zenon

\* One fill of a buy.
LEMMA MatchAggressiveBuyStep ==
    ASSUME IInv, MatchAggressiveBuy
    PROVE  IInv'
<1> DEFINE i == WorstIndex(asks_)
<1>0. /\ bids_ \in Ladder /\ asks_ \in Ladder
      /\ StrictlySorted(bids_) /\ StrictlySorted(asks_)
  BY DEF IInv, TypeOK, LaddersSorted
<1>1. PICK f \in 0 .. U32 - 1 :
         /\ call.remaining - f \in 0 .. U32 - 1
         /\ asks_[i].total_quantity - f \in 0 .. U64 - 1
         /\ call' = [call EXCEPT !.remaining = @ - f]
         /\ asks_' = TakeFrom(asks_, i, f)
         /\ bids_' = bids_ /\ UNCHANGED pool /\ UNCHANGED <<live, dropped, late>>
  BY BuyFill
<1>2. call \in Call /\ i \in 1 .. Len(asks_)
  BY BuyFill
<1> HIDE DEF i
<1>3. /\ asks_' \in Ladder /\ StrictlySorted(asks_')
      /\ \A x : Priced(asks_', x) => Priced(asks_, x)
  BY <1>0, <1>1, <1>2, TakeFromProperties
<1>4. LaddersSorted' /\ Separated'
  BY <1>0, <1>1, <1>3, ShrinkStep
<1>5. call' \in Call
  BY <1>1, <1>2, CallAfterFill, Zenon
<1>6. TypeOK'
  BY <1>1, <1>3, <1>5 DEF IInv, TypeOK, pool
<1> QED BY <1>4, <1>6 DEF IInv

\* One fill of a sell.
LEMMA MatchAggressiveSellStep ==
    ASSUME IInv, MatchAggressiveSell
    PROVE  IInv'
<1> DEFINE i == BestIndex(bids_)
<1>0. /\ bids_ \in Ladder /\ asks_ \in Ladder
      /\ StrictlySorted(bids_) /\ StrictlySorted(asks_)
  BY Zenon DEF IInv, TypeOK, LaddersSorted
<1>1. PICK f \in 0 .. U32 - 1 :
         /\ call.remaining - f \in 0 .. U32 - 1
         /\ bids_[i].total_quantity - f \in 0 .. U64 - 1
         /\ call' = [call EXCEPT !.remaining = @ - f]
         /\ bids_' = TakeFrom(bids_, i, f)
         /\ asks_' = asks_ /\ UNCHANGED pool /\ UNCHANGED <<live, dropped, late>>
  BY SellFill, Zenon
<1>2. call \in Call /\ i \in 1 .. Len(bids_)
  BY SellFill, Zenon
<1> HIDE DEF i
<1>3. /\ bids_' \in Ladder /\ StrictlySorted(bids_')
      /\ \A x : Priced(bids_', x) => Priced(bids_, x)
  BY <1>0, <1>1, <1>2, TakeFromProperties
<1>4. LaddersSorted' /\ Separated'
  BY <1>0, <1>1, <1>3, ShrinkStep, Zenon
<1>5. call' \in Call
  BY <1>1, <1>2, CallAfterFill, Zenon
<1>6. TypeOK'
  BY <1>1, <1>3, <1>5 DEF IInv, TypeOK, pool
<1> QED BY <1>4, <1>6, Zenon DEF IInv

\* The end of add_order for a filled order.
LEMMA AddOrderFilledStep ==
    ASSUME IInv, AddOrderFilled
    PROVE  IInv'
<1>1. bids_' \in Ladder /\ asks_' \in Ladder /\ LaddersSorted' /\ Separated'
  BY SameBookStep DEF AddOrderFilled
<1>2. call.slot \in Slot /\ TypeOK
  BY DEF IInv, TypeOK, Call, AddOrderFilled
<1>3. free_list_' \in Seq(Slot) /\ dropped' \in SUBSET Slot
  BY <1>2, FreeListPushType DEF AddOrderFilled
<1>4. TypeOK'
  BY <1>1, <1>3, Zenon DEF IInv, TypeOK, AddOrderFilled
<1> QED BY <1>1, <1>4, Zenon DEF IInv

\* The end of add_order for an order that rests.
LEMMA AddOrderRestStep ==
    ASSUME IInv, AddOrderRest
    PROVE  IInv'
<1>0. /\ bids_ \in Ladder /\ asks_ \in Ladder
      /\ StrictlySorted(bids_) /\ StrictlySorted(asks_)
  BY Zenon DEF IInv, TypeOK, LaddersSorted
<1>1. call \in Call /\ call.remaining > 0
  BY DEF IInv, TypeOK, AddOrderRest
<1> DEFINE p == call.price_ticks
           q == call.remaining
<1>2. p \in Int /\ q \in 0 .. U64 - 1
  BY <1>1, WidthAssumption, U64Assumption DEF Call
<1>3. bids_' \in Ladder /\ asks_' \in Ladder /\ LaddersSorted' /\ Separated'
  <2>1. CASE ~BuyMatches /\ bids_' = Upsert(bids_, p, q) /\ asks_' = asks_
    <3>1. /\ bids_' \in Ladder /\ StrictlySorted(bids_')
          /\ \A x : Priced(bids_', x) => Priced(bids_, x) \/ x = p
      BY <1>0, <1>2, <2>1, UpsertProperties
    <3>2. \A y \in Int : Priced(asks_, y) => p < y
      BY <1>1, <2>1, RestsBelowAsks
    <3>3. Separated'
      BY <2>1, <3>1, <3>2 DEF IInv, Separated
    <3> QED BY <1>0, <2>1, <3>1, <3>3 DEF LaddersSorted
  <2>2. CASE ~SellMatches /\ asks_' = Upsert(asks_, p, q) /\ bids_' = bids_
    <3>1. /\ asks_' \in Ladder /\ StrictlySorted(asks_')
          /\ \A x : Priced(asks_', x) => Priced(asks_, x) \/ x = p
      BY <1>0, <1>2, <2>2, UpsertProperties
    <3>2. \A x \in Int : Priced(bids_, x) => x < p
      BY <1>1, <2>2, RestsAboveBids
    <3>3. Separated'
      BY <2>2, <3>1, <3>2, Zenon DEF IInv, Separated
    <3> QED BY <1>0, <2>2, <3>1, <3>3 DEF LaddersSorted
  <2> QED BY <2>1, <2>2 DEF AddOrderRest
<1>4. live' \in SUBSET Call
  BY <1>1 DEF IInv, TypeOK, AddOrderRest
<1>5. TypeOK'
  BY <1>3, <1>4 DEF IInv, TypeOK, AddOrderRest, pool
<1> QED BY <1>3, <1>5, Zenon DEF IInv

\* Steps that change nothing keep the invariant.
LEMMA StutterStep ==
    ASSUME IInv, UNCHANGED vars
    PROVE  IInv'
<1>1. bids_' \in Ladder /\ asks_' \in Ladder /\ LaddersSorted' /\ Separated'
  BY SameBookStep DEF vars
<1>2. TypeOK'
  BY <1>1 DEF IInv, TypeOK, vars, pool
<1> QED BY <1>1, <1>2 DEF IInv

-----------------------------------------------------------------------------
(* The theorems.                                                           *)

\* Every step of add_order preserves the invariant.
LEMMA AddInv == ASSUME IInv, AddOrder \/ InsideAddOrder PROVE IInv'
BY AddOrderAllocateStep, AddOrderExhaustedStep, MatchAggressiveBuyStep, MatchAggressiveSellStep,
   AddOrderFilledStep, AddOrderRestStep DEF AddOrder, InsideAddOrder

\* Every step of an unconstrained client preserves the invariant.
LEMMA NextInv == IInv /\ [Next]_vars => IInv'
<1> SUFFICES ASSUME IInv, [Next]_vars PROVE IInv'
  OBVIOUS
<1>1. CASE AddOrder \/ InsideAddOrder
  BY <1>1, AddInv
<1>2. ASSUME NEW id \in 0 .. MaxCalls, CancelOrder(id) \/ AddOrderCancel(id)
      PROVE  IInv'
  BY <1>2, CancelOrderStep, AddOrderCancelStep
<1>3. CASE UNCHANGED vars
  BY <1>3, StutterStep
<1> QED BY <1>1, <1>2, <1>3 DEF Next

\* The invariant holds in every reachable state of the book.
THEOREM Invariance == Spec => []IInv
BY InitInv, NextInv, PTL DEF Spec

\* Quantities, totals and slots never leave their ranges: the unsigned
\* subtractions of the matching loops do not wrap, even when the cast to
\* uint32_t truncates a level's total.
THEOREM TypeCorrect == Spec => []TypeOK
<1>1. IInv => TypeOK
  BY DEF IInv
<1> QED BY <1>1, Invariance, PTL

\* The ladders are strictly sorted whatever clients add and cancel.
THEOREM SortedLadders == Spec => []LaddersSorted
<1>1. IInv => LaddersSorted
  BY DEF IInv
<1> QED BY <1>1, Invariance, PTL

\* The book is never crossed or locked: spread_ticks() is positive.
THEOREM NeverCrossed == Spec => []Uncrossed
BY SeparatedUncrossed, Invariance, PTL

-----------------------------------------------------------------------------
(* Totals that do not wrap.                                                *)

\* What a level can hold at most if every order issued so far is in it.
Issued == (next_order_id_ - 1) * (U32 - 1)

\* The levels are at prices clients use, and hold something, but not too much.
LevelsFit(levels_, most) ==
    \A e \in PriceLevel : Holds(levels_, e) =>
        e.price_ticks \in Prices /\ 0 < e.total_quantity /\ e.total_quantity <= most

\* There is room in every level for what the order being added still wants.
Volume ==
    /\ next_order_id_ <= MaxCalls + 1
    /\ call # NoCall => call.price_ticks \in Prices
    /\ call.remaining <= Issued
    /\ LevelsFit(bids_, Issued - call.remaining)
    /\ LevelsFit(asks_, Issued - call.remaining)

VInv == IInv /\ Volume

\* All orders of one price together stay below the width of a total: with
\* 64 and 32 bits, that is for the first 2^32 orders at least.
TotalsFit == MaxCalls * (U32 - 1) < U64

\* One more order is room for one more quantity.
LEMMA OneMoreOrder ==
    ASSUME NEW n \in Nat, NEW w \in Nat
    PROVE  n * w \in Nat /\ (n + 1) * w = n * w + w
OBVIOUS

\* Fewer orders fit where more of them do.
LEMMA FewerOrders ==
    ASSUME NEW m \in Nat, NEW n \in Nat, NEW w \in Nat, m <= n
    PROVE  m * w <= n * w
<1>1. (n - m) * w >= 0
  OBVIOUS
<1>2. (n - m) * w = n * w - m * w
  OBVIOUS
<1>3. m * w \in Int /\ n * w \in Int
  OBVIOUS
<1> QED BY <1>1, <1>2, <1>3

\* Types of the quantities the invariant compares.
LEMMA VolumeTypes ==
    ASSUME VInv
    PROVE  /\ Issued \in Nat /\ call.remaining \in Nat /\ Issued - call.remaining \in Nat
           /\ TotalsFit => Issued < U64
<1> DEFINE n == next_order_id_ - 1
           w == U32 - 1
<1>1. n \in Nat /\ w \in Nat /\ n <= MaxCalls /\ MaxCalls \in Nat /\ U64 \in Nat
  BY WidthAssumption, ClientAssumption, U64Assumption DEF VInv, IInv, TypeOK, Volume
<1>2. call.remaining \in Nat
  BY WidthAssumption DEF VInv, IInv, TypeOK, Call, NoCall
<1>3. Issued = n * w
  BY DEF Issued
<1> HIDE DEF n
<1>4. Issued \in Nat /\ n * w <= MaxCalls * w /\ MaxCalls * w \in Nat
  BY <1>1, <1>3, OneMoreOrder, FewerOrders
<1>5. Issued - call.remaining \in Nat
  BY <1>2, <1>4 DEF VInv, Volume
<1>6. TotalsFit => Issued < U64
  BY <1>1, <1>3, <1>4 DEF TotalsFit
<1> QED BY <1>2, <1>4, <1>5, <1>6, Zenon

\* A level that fits still fits when more is allowed.
LEMMA FitsMore ==
    ASSUME NEW levels_, NEW m \in Nat, NEW n \in Nat, m <= n, LevelsFit(levels_, m)
    PROVE  LevelsFit(levels_, n)
BY DEF LevelsFit, PriceLevel

\* remove_if_empty leaves levels that fit.
LEMMA FitsRemove ==
    ASSUME NEW levels_ \in Ladder, StrictlySorted(levels_), NEW p \in Int, NEW m, LevelsFit(levels_, m)
    PROVE  LevelsFit(RemoveIfEmpty(levels_, p), m)
BY RemoveIfEmptyLevels DEF LevelsFit

\* A fill leaves levels that fit: one that is used up is removed.
LEMMA FitsTake ==
    ASSUME NEW levels_ \in Ladder, StrictlySorted(levels_), NEW i \in 1 .. Len(levels_),
           NEW f \in Nat, levels_[i].total_quantity - f \in 0 .. U64 - 1,
           NEW m \in Nat, LevelsFit(levels_, m)
    PROVE  LevelsFit(TakeFrom(levels_, i, f), m)
<1> DEFINE q == levels_[i].total_quantity - f
           new == WithQuantity(levels_, i, q)
           p == levels_[i].price_ticks
<1>1. TakeFrom(levels_, i, f) = RemoveIfEmpty(new, p)
  BY DEF TakeFrom, WithQuantity
<1>2. p \in Int /\ levels_[i] \in PriceLevel /\ Holds(levels_, levels_[i])
      /\ levels_[i].total_quantity \in 0 .. U64 - 1
  BY LadderFacts DEF Holds
<1>3. p \in Prices /\ q <= m
  BY <1>2 DEF LevelsFit
<1>4. new \in Ladder /\ StrictlySorted(new)
  BY QuantityProperties, Zenon
<1>5. \A e \in PriceLevel : Holds(new, e) <=>
          IF e.price_ticks = p THEN e.total_quantity = q ELSE Holds(levels_, e)
  BY QuantityLevels
<1> HIDE DEF new, p, q
<1>6. \A e \in PriceLevel : Holds(RemoveIfEmpty(new, p), e) <=>
          Holds(new, e) /\ ~(e.price_ticks = p /\ e.total_quantity = 0)
  BY <1>2, <1>4, RemoveIfEmptyLevels, Zenon
<1> SUFFICES ASSUME NEW e \in PriceLevel, Holds(RemoveIfEmpty(new, p), e)
             PROVE  e.price_ticks \in Prices /\ 0 < e.total_quantity /\ e.total_quantity <= m
  BY <1>1, Zenon DEF LevelsFit
<1>7. CASE e.price_ticks = p
  <2>1. e.total_quantity = q /\ e.total_quantity # 0 /\ e.total_quantity \in Nat
    BY <1>5, <1>6, <1>7 DEF PriceLevel
  <2> QED BY <1>3, <1>7, <2>1
<1>8. CASE e.price_ticks # p
  BY <1>5, <1>6, <1>8 DEF LevelsFit
<1> QED BY <1>7, <1>8

\* upsert leaves levels that fit, and the total does not wrap.
LEMMA FitsUpsert ==
    ASSUME NEW levels_ \in Ladder, StrictlySorted(levels_), NEW p \in Prices,
           NEW q \in 1 .. U64 - 1, NEW m \in Nat, m + q < U64, LevelsFit(levels_, m)
    PROVE  /\ LevelsFit(Upsert(levels_, p, q), m + q)
           /\ (QuantityAt(levels_, p) + q) % U64 = QuantityAt(levels_, p) + q
<1> DEFINE old == QuantityAt(levels_, p)
<1>1. p \in Int /\ q \in 0 .. U64 - 1 /\ U64 \in Nat
  BY ClientAssumption, U64Assumption
<1>2. old \in Nat /\ old <= m
  <2>1. old \in 0 .. U64 - 1 /\ (old > 0 => Priced(levels_, p))
    BY <1>1, QuantityAtType
  <2> HIDE DEF old
  <2>2. CASE old = 0
    BY <2>2
  <2>3. CASE old > 0
    <3>1. PICK i \in 1 .. Len(levels_) : levels_[i].price_ticks = p
      BY <2>1, <2>3 DEF Priced
    <3>2. old = levels_[i].total_quantity
      BY <3>1, QuantityAtLevel DEF old
    <3>3. levels_[i] \in PriceLevel /\ Holds(levels_, levels_[i])
      BY LadderFacts DEF Holds
    <3> QED BY <2>1, <3>2, <3>3 DEF LevelsFit
  <2> QED BY <2>1, <2>2, <2>3
<1>3. \A e \in PriceLevel : Holds(Upsert(levels_, p, q), e) <=>
          IF e.price_ticks = p THEN e.total_quantity = (old + q) % U64 ELSE Holds(levels_, e)
  BY <1>1, UpsertLevels
<1> HIDE DEF old
<1>4. (old + q) % U64 = old + q
  BY <1>1, <1>2
<1>5. LevelsFit(Upsert(levels_, p, q), m + q)
  BY <1>1, <1>2, <1>3, <1>4 DEF LevelsFit, PriceLevel
<1> QED BY <1>4, <1>5 DEF old

\* A new book has no levels and no orders.
LEMMA VolumeInit == Init => VInv
<1> SUFFICES ASSUME Init PROVE Volume
  BY InitInv DEF VInv
<1>1. /\ next_order_id_ = 1 /\ call = NoCall /\ call.remaining = 0
      /\ \A e : ~Holds(bids_, e) /\ ~Holds(asks_, e)
  BY DEF Init, NoCall, Holds
<1>2. Issued = 0
  BY <1>1, WidthAssumption DEF Issued
<1> QED BY <1>1, <1>2, ClientAssumption DEF Volume, LevelsFit

\* Taking an id, with or without the start of an order, makes room for it.
LEMMA TakeIdVolume ==
    ASSUME VInv, TakeOrderId, call'.remaining \in 0 .. U32 - 1
    PROVE  /\ next_order_id_' <= MaxCalls + 1 /\ call'.remaining <= Issued'
           /\ Issued \in Nat /\ Issued' - call'.remaining \in Nat
           /\ Issued <= Issued' - call'.remaining
           /\ LevelsFit(bids_, Issued) /\ LevelsFit(asks_, Issued)
<1> DEFINE n == next_order_id_ - 1
           w == U32 - 1
<1>1. n \in Nat /\ w \in Nat /\ next_order_id_ \in Nat /\ MaxCalls \in Nat
  BY WidthAssumption, ClientAssumption DEF VInv, IInv, TypeOK
<1>2. next_order_id_' = next_order_id_ + 1 /\ next_order_id_ <= MaxCalls /\ call.remaining = 0
  BY DEF TakeOrderId, NoCall
<1>3. Issued = n * w /\ Issued' = (n + 1) * w
  <2>1. (n + 1) = next_order_id_' - 1
    BY <1>1, <1>2
  <2> QED BY <2>1 DEF Issued
<1>4. Issued \in Nat /\ Issued' = Issued + w
  BY <1>1, <1>3, OneMoreOrder
<1>5. Issued - call.remaining = Issued
  BY <1>2, <1>4
<1>6. LevelsFit(bids_, Issued) /\ LevelsFit(asks_, Issued)
  BY <1>5 DEF VInv, Volume
<1> HIDE DEF n
<1> QED BY <1>1, <1>2, <1>4, <1>6

\* cancel_order leaves the levels as they are, since none is empty.
LEMMA CancelFits ==
    ASSUME VInv, NEW id \in Int, CancelFound(id) \/ CancelNotFound(id), NEW m,
           LevelsFit(bids_, m), LevelsFit(asks_, m)
    PROVE  LevelsFit(bids_', m) /\ LevelsFit(asks_', m)
<1>1. TypeOK /\ bids_ \in Ladder /\ asks_ \in Ladder
      /\ StrictlySorted(bids_) /\ StrictlySorted(asks_)
  BY DEF VInv, IInv, TypeOK, LaddersSorted
<1>2. PICK p \in Int : /\ bids_' = bids_ \/ bids_' = RemoveIfEmpty(bids_, p)
                       /\ asks_' = asks_ \/ asks_' = RemoveIfEmpty(asks_, p)
  BY <1>1, CancelLadders
<1> QED BY <1>1, <1>2, FitsRemove, Zenon

\* The volume in one step of each action.
LEMMA CancelOrderVolume ==
    ASSUME VInv, NEW id \in Int, CancelOrder(id)
    PROVE  Volume'
<1>1. call' = call /\ next_order_id_' = next_order_id_ /\ (CancelFound(id) \/ CancelNotFound(id))
  BY DEF CancelOrder
<1>2. Issued' = Issued
  BY <1>1 DEF Issued
<1>3. LevelsFit(bids_', Issued - call.remaining) /\ LevelsFit(asks_', Issued - call.remaining)
  BY <1>1, CancelFits DEF VInv, Volume
<1> QED BY <1>1, <1>2, <1>3 DEF VInv, Volume

LEMMA AddOrderCancelVolume ==
    ASSUME VInv, NEW id \in Int, AddOrderCancel(id)
    PROVE  Volume'
<1>1. call' = call /\ call = NoCall /\ call.remaining = 0 /\ TakeOrderId
      /\ (CancelFound(id) \/ CancelNotFound(id))
  BY DEF AddOrderCancel, TakeOrderId, NoCall
<1>2. call'.remaining \in 0 .. U32 - 1
  BY <1>1, WidthAssumption
<1>3. /\ next_order_id_' <= MaxCalls + 1 /\ call'.remaining <= Issued'
      /\ Issued \in Nat /\ Issued' - call'.remaining \in Nat /\ Issued <= Issued' - call'.remaining
      /\ LevelsFit(bids_, Issued) /\ LevelsFit(asks_, Issued)
  BY <1>1, <1>2, TakeIdVolume
<1>4. LevelsFit(bids_', Issued) /\ LevelsFit(asks_', Issued)
  BY <1>1, <1>3, CancelFits
<1>5. LevelsFit(bids_', Issued' - call'.remaining) /\ LevelsFit(asks_', Issued' - call'.remaining)
  BY <1>3, <1>4, FitsMore
<1> QED BY <1>1, <1>3, <1>5, Zenon DEF Volume

LEMMA AddOrderExhaustedVolume ==
    ASSUME VInv, AddOrderExhausted
    PROVE  Volume'
<1>1. /\ call' = call /\ call = NoCall /\ call.remaining = 0 /\ TakeOrderId
      /\ bids_' = bids_ /\ asks_' = asks_
  BY DEF AddOrderExhausted, TakeOrderId, NoCall, book
<1>2. call'.remaining \in 0 .. U32 - 1
  BY <1>1, WidthAssumption
<1>3. /\ next_order_id_' <= MaxCalls + 1 /\ call'.remaining <= Issued'
      /\ Issued \in Nat /\ Issued' - call'.remaining \in Nat /\ Issued <= Issued' - call'.remaining
      /\ LevelsFit(bids_, Issued) /\ LevelsFit(asks_, Issued)
  BY <1>1, <1>2, TakeIdVolume
<1>4. LevelsFit(bids_', Issued' - call'.remaining) /\ LevelsFit(asks_', Issued' - call'.remaining)
  BY <1>1, <1>3, FitsMore
<1> QED BY <1>1, <1>3, <1>4, Zenon DEF Volume

LEMMA AddOrderAllocateVolume ==
    ASSUME VInv, NEW side \in {"Buy", "Sell"}, NEW p \in Prices, NEW quantity \in Quantities,
           AddOrderAllocate(side, p, quantity)
    PROVE  Volume'
<1>1. /\ call'.remaining = quantity /\ call'.price_ticks = p /\ TakeOrderId
      /\ bids_' = bids_ /\ asks_' = asks_
  BY DEF AddOrderAllocate, book
<1>2. call'.remaining \in 0 .. U32 - 1
  BY <1>1, ClientAssumption
<1>3. /\ next_order_id_' <= MaxCalls + 1 /\ call'.remaining <= Issued'
      /\ Issued \in Nat /\ Issued' - call'.remaining \in Nat /\ Issued <= Issued' - call'.remaining
      /\ LevelsFit(bids_, Issued) /\ LevelsFit(asks_, Issued)
  BY <1>1, <1>2, TakeIdVolume
<1>4. LevelsFit(bids_', Issued' - call'.remaining) /\ LevelsFit(asks_', Issued' - call'.remaining)
  BY <1>1, <1>3, FitsMore
<1> QED BY <1>1, <1>3, <1>4, Zenon DEF Volume

\* A turn of a matching loop: the fill leaves the level and the order alike.
LEMMA FillVolume ==
    ASSUME VInv, call \in Call, NEW f \in Nat, f <= call.remaining,
           call' = [call EXCEPT !.remaining = @ - f], next_order_id_' = next_order_id_,
           LevelsFit(bids_', Issued - call.remaining), LevelsFit(asks_', Issued - call.remaining)
    PROVE  Volume'
<1>1. Issued \in Nat /\ call.remaining \in Nat /\ Issued - call.remaining \in Nat
  BY VolumeTypes
<1>2. Issued' = Issued
  BY DEF Issued
<1>3. call'.remaining = call.remaining - f /\ call'.price_ticks = call.price_ticks
  BY DEF Call
<1>4. Issued - (call.remaining - f) \in Nat /\ Issued - call.remaining <= Issued - (call.remaining - f)
      /\ call.remaining - f <= Issued
  BY <1>1
<1>5. LevelsFit(bids_', Issued - (call.remaining - f)) /\ LevelsFit(asks_', Issued - (call.remaining - f))
  BY <1>1, <1>4, FitsMore
<1>6. call # NoCall
  BY DEF Call, NoCall
<1> QED BY <1>2, <1>3, <1>4, <1>5, <1>6 DEF VInv, Volume

LEMMA MatchAggressiveBuyVolume ==
    ASSUME VInv, MatchAggressiveBuy
    PROVE  Volume'
<1> DEFINE i == WorstIndex(asks_)
<1>0. asks_ \in Ladder /\ StrictlySorted(asks_)
  BY DEF VInv, IInv, TypeOK, LaddersSorted
<1>1. PICK f \in 0 .. U32 - 1 :
         /\ call.remaining - f \in 0 .. U32 - 1
         /\ asks_[i].total_quantity - f \in 0 .. U64 - 1
         /\ call' = [call EXCEPT !.remaining = @ - f]
         /\ asks_' = TakeFrom(asks_, i, f)
         /\ bids_' = bids_ /\ UNCHANGED pool /\ UNCHANGED <<live, dropped, late>>
  BY BuyFill DEF VInv
<1>2. call \in Call /\ i \in 1 .. Len(asks_)
  BY BuyFill DEF VInv
<1> HIDE DEF i
<1>3. Issued - call.remaining \in Nat /\ call.remaining \in Nat
  BY VolumeTypes
<1>4. f \in Nat /\ f <= call.remaining
  BY <1>1, <1>3, WidthAssumption
<1>5. LevelsFit(asks_', Issued - call.remaining) /\ LevelsFit(bids_', Issued - call.remaining)
  BY <1>0, <1>1, <1>2, <1>3, <1>4, FitsTake, Zenon DEF VInv, Volume
<1>6. next_order_id_' = next_order_id_
  BY <1>1 DEF pool
<1> QED BY <1>1, <1>2, <1>4, <1>5, <1>6, FillVolume, Zenon

LEMMA MatchAggressiveSellVolume ==
    ASSUME VInv, MatchAggressiveSell
    PROVE  Volume'
<1> DEFINE i == BestIndex(bids_)
<1>0. bids_ \in Ladder /\ StrictlySorted(bids_)
  BY DEF VInv, IInv, TypeOK, LaddersSorted
<1>1. PICK f \in 0 .. U32 - 1 :
         /\ call.remaining - f \in 0 .. U32 - 1
         /\ bids_[i].total_quantity - f \in 0 .. U64 - 1
         /\ call' = [call EXCEPT !.remaining = @ - f]
         /\ bids_' = TakeFrom(bids_, i, f)
         /\ asks_' = asks_ /\ UNCHANGED pool /\ UNCHANGED <<live, dropped, late>>
  BY SellFill, Zenon DEF VInv
<1>2. call \in Call /\ i \in 1 .. Len(bids_)
  BY SellFill, Zenon DEF VInv
<1> HIDE DEF i
<1>3. Issued - call.remaining \in Nat /\ call.remaining \in Nat
  BY VolumeTypes, Zenon
<1>4. f \in Nat /\ f <= call.remaining
  BY <1>1, <1>3, WidthAssumption
<1>5. LevelsFit(asks_', Issued - call.remaining) /\ LevelsFit(bids_', Issued - call.remaining)
  BY <1>0, <1>1, <1>2, <1>3, <1>4, FitsTake, Zenon DEF VInv, Volume
<1>6. next_order_id_' = next_order_id_
  BY <1>1, Zenon DEF pool
<1> QED BY <1>1, <1>2, <1>4, <1>5, <1>6, FillVolume, Zenon

LEMMA AddOrderFilledVolume ==
    ASSUME VInv, AddOrderFilled
    PROVE  Volume'
<1>1. /\ call.remaining = 0 /\ call' = NoCall /\ next_order_id_' = next_order_id_
      /\ bids_' = bids_ /\ asks_' = asks_
  BY DEF AddOrderFilled, book
<1>2. Issued' = Issued /\ call'.remaining = call.remaining
  BY <1>1 DEF Issued, NoCall
<1> QED BY <1>1, <1>2 DEF VInv, Volume

LEMMA AddOrderRestVolume ==
    ASSUME VInv, TotalsFit, AddOrderRest
    PROVE  Volume'
<1> DEFINE p == call.price_ticks
           q == call.remaining
           m == Issued - q
<1>0. /\ bids_ \in Ladder /\ asks_ \in Ladder
      /\ StrictlySorted(bids_) /\ StrictlySorted(asks_)
  BY DEF VInv, IInv, TypeOK, LaddersSorted
<1>1. Issued \in Nat /\ q \in Nat /\ m \in Nat /\ Issued < U64 /\ U64 \in Nat
  BY VolumeTypes, U64Assumption, Zenon
<1>2. /\ p \in Prices /\ q > 0 /\ call' = NoCall /\ call'.remaining = 0
      /\ next_order_id_' = next_order_id_
  BY Zenon DEF AddOrderRest, VInv, Volume, NoCall, pool
<1>3. /\ \/ bids_' = Upsert(bids_, p, q) /\ asks_' = asks_
         \/ asks_' = Upsert(asks_, p, q) /\ bids_' = bids_
      /\ LevelsFit(bids_, m) /\ LevelsFit(asks_, m)
  BY DEF AddOrderRest, VInv, Volume
<1> HIDE DEF p, q
<1>4. q \in 1 .. U64 - 1 /\ m + q = Issued /\ m + q < U64 /\ m <= Issued
  BY <1>1, <1>2 DEF m
<1> HIDE DEF m
<1>5. LevelsFit(bids_, Issued) /\ LevelsFit(asks_, Issued)
  BY <1>1, <1>3, <1>4, FitsMore, Zenon
<1>6. LevelsFit(Upsert(bids_, p, q), Issued) /\ LevelsFit(Upsert(asks_, p, q), Issued)
  BY <1>0, <1>1, <1>2, <1>3, <1>4, FitsUpsert, Zenon
<1>7. LevelsFit(bids_', Issued) /\ LevelsFit(asks_', Issued)
  BY <1>3, <1>5, <1>6
<1>8. Issued' = Issued /\ Issued - 0 = Issued /\ 0 <= Issued
  BY <1>1, <1>2 DEF Issued
<1> QED BY <1>2, <1>7, <1>8 DEF VInv, Volume

\* No step of any client takes the volume out of its bounds.
LEMMA VolumeNext == TotalsFit => (VInv /\ [Next]_vars => VInv')
<1> SUFFICES ASSUME TotalsFit, VInv, [Next]_vars PROVE VInv'
  OBVIOUS
<1>0. IInv'
  BY NextInv DEF VInv
<1> SUFFICES Volume'
  BY <1>0 DEF VInv
<1>1. CASE AddOrder
  BY <1>1, AddOrderAllocateVolume, AddOrderExhaustedVolume DEF AddOrder
<1>2. CASE InsideAddOrder
  BY <1>2, MatchAggressiveBuyVolume, MatchAggressiveSellVolume, AddOrderFilledVolume,
     AddOrderRestVolume, Zenon DEF InsideAddOrder
<1>3. ASSUME NEW id \in 0 .. MaxCalls, CancelOrder(id) \/ AddOrderCancel(id)
      PROVE  Volume'
  BY <1>3, CancelOrderVolume, AddOrderCancelVolume
<1>4. CASE UNCHANGED vars
  <2>1. bids_' = bids_ /\ asks_' = asks_ /\ call' = call /\ next_order_id_' = next_order_id_
    BY <1>4 DEF vars, book, pool
  <2>2. Issued' = Issued
    BY <2>1 DEF Issued
  <2> QED BY <2>1, <2>2 DEF VInv, Volume
<1> QED BY <1>1, <1>2, <1>3, <1>4 DEF Next

\* A level of a ladder that fits holds something, at a price of a client.
LEMMA FitsLevel ==
    ASSUME NEW levels_ \in Ladder, NEW m, LevelsFit(levels_, m), NEW i \in 1 .. Len(levels_)
    PROVE  levels_[i].price_ticks \in Prices /\ levels_[i].total_quantity > 0
<1>1. levels_[i] \in PriceLevel /\ Holds(levels_, levels_[i])
  BY LadderFacts DEF Holds
<1> QED BY <1>1, Zenon DEF LevelsFit, PriceLevel

\* No empty level stays in a ladder, whatever clients add and cancel, as long
\* as no total wraps.
THEOREM LevelsHoldSomething ==
    ASSUME TotalsFit
    PROVE  Spec => []NoEmptyLevels
<1>1. Init => VInv
  BY VolumeInit
<1>2. VInv /\ [Next]_vars => VInv'
  BY VolumeNext, Zenon
<1>3. VInv => NoEmptyLevels
  BY FitsLevel, Zenon DEF VInv, IInv, TypeOK, Volume, NoEmptyLevels
<1> QED BY <1>1, <1>2, <1>3, PTL DEF Spec

-----------------------------------------------------------------------------
(* The engine implements LimitOrderBook.                                   *)

\* The refinement mapping: what rests at each price, the orders that rest, and the
\* order in progress.
RestingBids == [p \in Prices |-> QuantityAt(bids_, p)]
RestingAsks == [p \in Prices |-> QuantityAt(asks_, p)]
RestingOrders == {OrderOf(o) : o \in live}
Taker == OrderOf(call)

\* Ids are issued in order, so that the next one is fresh.
Numbered ==
    /\ \A o \in live : o.order_id < next_order_id_
    /\ call # NoCall => call.order_id < next_order_id_

\* No order has an id at first.
LEMMA NumberedInit ==
    ASSUME Init
    PROVE  Numbered
BY DEF Init, Numbered

\* Only a fresh id is given out, and only an order in progress comes to rest.
LEMMA NumberedNext ==
    ASSUME IInv, Numbered, [Next]_vars
    PROVE  Numbered'
<1>0. /\ next_order_id_ \in Nat /\ live \in SUBSET Call /\ \A o \in live : o.order_id \in Nat
      /\ call \in Call \cup {NoCall}
  <2>1. next_order_id_ \in Nat /\ live \in SUBSET Call /\ call \in Call \cup {NoCall}
    BY DEF IInv, TypeOK
  <2> QED BY <2>1 DEF Call
<1>1. ASSUME TakeOrderId, live' \subseteq live, call' = NoCall \/ call'.order_id = next_order_id_
      PROVE  Numbered'
  BY <1>0, <1>1 DEF Numbered, TakeOrderId
<1>2. ASSUME live' \subseteq live, UNCHANGED next_order_id_,
             call' = NoCall \/ (call # NoCall /\ call'.order_id = call.order_id)
      PROVE  Numbered'
  BY <1>0, <1>2 DEF Numbered
<1>3. CASE AddOrder
  <2>1. ASSUME NEW side \in {"Buy", "Sell"}, NEW p \in Prices, NEW q \in Quantities,
               AddOrderAllocate(side, p, q)
        PROVE  Numbered'
    BY <1>1, <2>1 DEF AddOrderAllocate
  <2>2. ASSUME AddOrderExhausted PROVE Numbered'
    BY <1>1, <2>2 DEF AddOrderExhausted, TakeOrderId
  <2> QED BY <1>3, <2>1, <2>2, Zenon DEF AddOrder
<1>4. CASE MatchAggressiveBuy \/ MatchAggressiveSell
  <2>1. /\ live' = live /\ next_order_id_' = next_order_id_ /\ call.side \in {"Buy", "Sell"}
        /\ \E rest : call' = [call EXCEPT !.remaining = rest]
    BY <1>4 DEF MatchAggressiveBuy, MatchAggressiveSell, pool
  <2>2. call # NoCall
    BY <2>1 DEF NoCall
  <2>3. call'.order_id = call.order_id
    BY <1>0, <2>1, <2>2 DEF Call
  <2> QED BY <1>2, <2>1, <2>2, <2>3
<1>5. CASE AddOrderFilled
  BY <1>2, <1>5, Zenon DEF AddOrderFilled
<1>6. CASE AddOrderRest
  BY <1>6 DEF AddOrderRest, Numbered, pool
<1>7. ASSUME NEW id \in 0 .. MaxCalls, CancelOrder(id) \/ AddOrderCancel(id)
      PROVE  Numbered'
  <2>1. live' \subseteq live /\ call' = NoCall
    BY <1>7 DEF CancelOrder, AddOrderCancel, CancelFound, CancelNotFound, TakeOrderId
  <2>2. TakeOrderId \/ UNCHANGED next_order_id_
    BY <1>7, Zenon DEF CancelOrder, AddOrderCancel
  <2> QED BY <1>1, <1>2, <2>1, <2>2, Zenon
<1>8. CASE UNCHANGED vars
  BY <1>8 DEF Numbered, vars, pool
<1> QED BY <1>3, <1>4, <1>5, <1>6, <1>7, <1>8 DEF Next, InsideAddOrder

\* Quantities per price are natural numbers, and positive only at levels.
LEMMA Resting ==
    ASSUME IInv
    PROVE  \A p \in Prices :
              /\ p \in Int
              /\ RestingBids[p] = QuantityAt(bids_, p) /\ RestingBids[p] \in Nat
              /\ RestingBids[p] > 0 => Priced(bids_, p)
              /\ RestingAsks[p] = QuantityAt(asks_, p) /\ RestingAsks[p] \in Nat
              /\ RestingAsks[p] > 0 => Priced(asks_, p)
<1> SUFFICES ASSUME NEW p \in Prices
             PROVE  /\ p \in Int
                    /\ RestingBids[p] = QuantityAt(bids_, p) /\ RestingBids[p] \in Nat
                    /\ RestingBids[p] > 0 => Priced(bids_, p)
                    /\ RestingAsks[p] = QuantityAt(asks_, p) /\ RestingAsks[p] \in Nat
                    /\ RestingAsks[p] > 0 => Priced(asks_, p)
  OBVIOUS
<1>1. /\ bids_ \in Ladder /\ asks_ \in Ladder
      /\ StrictlySorted(bids_) /\ StrictlySorted(asks_) /\ p \in Int
  BY ClientAssumption DEF IInv, TypeOK, LaddersSorted
<1>2. /\ QuantityAt(bids_, p) \in 0 .. U64 - 1 /\ (QuantityAt(bids_, p) > 0 => Priced(bids_, p))
      /\ QuantityAt(asks_, p) \in 0 .. U64 - 1 /\ (QuantityAt(asks_, p) > 0 => Priced(asks_, p))
  BY <1>1, QuantityAtType
<1>3. RestingBids[p] = QuantityAt(bids_, p) /\ RestingAsks[p] = QuantityAt(asks_, p)
  BY Zenon DEF RestingBids, RestingAsks
<1> QED BY <1>1, <1>2, <1>3, U64Assumption

\* A fill takes its quantity from one price.
LEMMA TakeFromQuantity ==
    ASSUME NEW levels_ \in Ladder, StrictlySorted(levels_), NEW i \in 1 .. Len(levels_),
           NEW f, levels_[i].total_quantity - f \in 0 .. U64 - 1, NEW x \in Int
    PROVE  QuantityAt(TakeFrom(levels_, i, f), x) =
              IF x = levels_[i].price_ticks THEN levels_[i].total_quantity - f
              ELSE QuantityAt(levels_, x)
<1> DEFINE q == levels_[i].total_quantity - f
           new == WithQuantity(levels_, i, q)
           p == levels_[i].price_ticks
<1>1. TakeFrom(levels_, i, f) = RemoveIfEmpty(new, p)
  BY DEF TakeFrom, WithQuantity
<1>2. p \in Int
  BY LadderFacts, Zenon
<1>3. new \in Ladder /\ StrictlySorted(new)
  BY QuantityProperties, Zenon
<1>4. QuantityAt(new, x) = IF x = p THEN q ELSE QuantityAt(levels_, x)
  BY QuantityQuantity
<1> HIDE DEF new
<1>5. QuantityAt(RemoveIfEmpty(new, p), x) = QuantityAt(new, x)
  BY <1>2, <1>3, RemoveIfEmptyQuantity, Zenon
<1> QED BY <1>1, <1>4, <1>5

\* Calls that leave the order in progress and the quantities alone.
LEMMA SameBookRefines ==
    ASSUME UNCHANGED <<bids_, asks_, call, live>>
    PROVE  UNCHANGED Book!lvars
BY Zenon DEF Book!lvars

\* A cancel changes no quantity, so one that finds no resting order changes nothing.
LEMMA CancelRefines ==
    ASSUME VInv, NEW id \in Int, CancelFound(id) \/ CancelNotFound(id), call' = call,
           live' = live
    PROVE  UNCHANGED Book!lvars
<1>1. TypeOK /\ bids_ \in Ladder /\ asks_ \in Ladder
      /\ StrictlySorted(bids_) /\ StrictlySorted(asks_)
  BY DEF VInv, IInv, TypeOK, LaddersSorted
<1>2. PICK p \in Int : /\ bids_' = bids_ \/ bids_' = RemoveIfEmpty(bids_, p)
                       /\ asks_' = asks_ \/ asks_' = RemoveIfEmpty(asks_, p)
  BY <1>1, CancelLadders, Zenon
<1>3. \A x \in Prices : QuantityAt(bids_', x) = QuantityAt(bids_, x)
                        /\ QuantityAt(asks_', x) = QuantityAt(asks_, x)
  BY <1>1, <1>2, RemoveIfEmptyQuantity, ClientAssumption
<1> QED BY <1>3, Zenon DEF Book!lvars

\* The start of add_order is the arrival of an order.
LEMMA AddOrderAllocateRefines ==
    ASSUME VInv, Numbered, NEW side \in {"Buy", "Sell"}, NEW p \in Prices, NEW quantity \in Quantities,
           AddOrderAllocate(side, p, quantity)
    PROVE  Book!Arrive
<1>1. /\ call = NoCall /\ bids_' = bids_ /\ asks_' = asks_
      /\ call'.side = side /\ call'.price_ticks = p /\ call'.remaining = quantity
      /\ call'.order_id = next_order_id_ /\ live' = live
  BY DEF AddOrderAllocate, TakeOrderId, book
<1>2. quantity \in Nat
  BY ClientAssumption, WidthAssumption
<1>3. next_order_id_ \in Nat /\ \A o \in live : o.order_id # next_order_id_
  <2>1. next_order_id_ \in Nat /\ \A o \in live : o.order_id \in Nat
    BY DEF VInv, IInv, TypeOK, Call
  <2> QED BY <2>1 DEF Numbered
<1>4. /\ OrderOf(call) = Book!NoTaker /\ OrderOf(call)'.id = next_order_id_
      /\ OrderOf(call)'.side = side /\ OrderOf(call)'.price = p /\ OrderOf(call)'.left = quantity
  BY <1>1 DEF OrderOf, Book!NoTaker, NoCall
<1>5. \A o \in live : OrderOf(o).id = o.order_id
  BY DEF OrderOf
<1> QED BY <1>1, <1>2, <1>3, <1>4, <1>5, Zenon DEF Book!Arrive

\* A fill of a buy is a trade at the best price on the other side, or changes nothing
\* when the cast makes it 0.
LEMMA MatchAggressiveBuyRefines ==
    ASSUME VInv, MatchAggressiveBuy
    PROVE  (\E p \in Prices : Book!TradeAtAsk(p)) \/ UNCHANGED Book!lvars
<1> DEFINE i == WorstIndex(asks_)
           p == asks_[i].price_ticks
<1>0. asks_ \in Ladder /\ StrictlySorted(asks_) /\ IInv
  BY DEF VInv, IInv, TypeOK, LaddersSorted
<1>1. PICK f \in 0 .. U32 - 1 :
         /\ call.remaining - f \in 0 .. U32 - 1
         /\ asks_[i].total_quantity - f \in 0 .. U64 - 1
         /\ call' = [call EXCEPT !.remaining = @ - f]
         /\ asks_' = TakeFrom(asks_, i, f)
         /\ bids_' = bids_ /\ UNCHANGED pool /\ UNCHANGED <<live, dropped, late>>
  BY <1>0, BuyFill
<1>2. call \in Call /\ i \in 1 .. Len(asks_)
  BY <1>0, BuyFill
<1>3. p \in Prices /\ p \in Int /\ asks_[i].total_quantity > 0
  BY <1>0, <1>2, FitsLevel, ClientAssumption, Zenon DEF VInv, Volume
<1>4. call.side = "Buy" /\ p <= call.price_ticks
  BY DEF MatchAggressiveBuy, BuyMatches, BestAsk
<1>5. \A q \in Prices : RestingAsks[q] > 0 => p <= q
  <2> SUFFICES ASSUME NEW q \in Prices, RestingAsks[q] > 0 PROVE p <= q
    OBVIOUS
  <2>1. q \in Int /\ Priced(asks_, q)
    BY <1>0, Resting, Zenon
  <2>2. PICK j \in 1 .. Len(asks_) : asks_[j].price_ticks = q
    BY <2>1, Zenon DEF Priced
  <2>3. Len(asks_) \in Nat /\ (i = j \/ i < j)
    BY <1>0, LadderFacts DEF WorstIndex
  <2> HIDE DEF i
  <2>4. i < j => p < q
    BY <1>0, <1>2, <2>2, Zenon DEF StrictlySorted
  <2> QED BY <1>3, <2>1, <2>2, <2>3, <2>4
<1>6. RestingAsks[p] = asks_[i].total_quantity
  BY <1>0, <1>2, <1>3, Resting, QuantityAtLevel, Zenon
<1> HIDE DEF i
<1>7. \A x \in Prices : QuantityAt(asks_', x) = IF x = p THEN RestingAsks[p] - f ELSE RestingAsks[x]
  BY <1>0, <1>1, <1>2, <1>6, TakeFromQuantity, Resting
<1> HIDE DEF p
<1>8. RestingAsks' = [RestingAsks EXCEPT ![p] = @ - f]
  <2>1. RestingAsks' = [x \in Prices |-> QuantityAt(asks_', x)]
    BY DEF RestingAsks
  <2>2. [RestingAsks EXCEPT ![p] = @ - f] = [x \in Prices |-> IF x = p THEN RestingAsks[p] - f ELSE RestingAsks[x]]
    BY DEF RestingAsks
  <2> QED BY <1>7, <2>1, <2>2
<1>9. RestingBids' = RestingBids
  BY <1>1 DEF RestingBids
<1>10. Taker' = [Taker EXCEPT !.left = @ - f]
  BY <1>1, <1>2 DEF Taker, OrderOf, Call
<1>11. CASE f = 0
  <2>1. RestingAsks' = RestingAsks
    <3>0. RestingAsks[p] \in Int
      BY <1>0, <1>3, Resting
    <3>1. RestingAsks[p] - f = RestingAsks[p]
      BY <1>11, <3>0
    <3>2. \A x \in Prices : QuantityAt(asks_', x) = RestingAsks[x]
      BY <1>7, <3>1
    <3> QED BY <3>2, Zenon DEF RestingAsks
  <2>2. Taker' = Taker
    BY <1>2, <1>10, <1>11, WidthAssumption DEF Taker, OrderOf, Call
  <2> QED BY <1>1, <1>9, <2>1, <2>2, Zenon DEF Book!lvars, RestingBids, RestingAsks, Taker
<1>12. CASE f > 0
  <2>1. f \in 1 .. Taker.left /\ f <= RestingAsks[p] /\ RestingAsks[p] > 0
    <3>1. asks_[i].total_quantity \in Int /\ call.remaining \in Int /\ Taker.left = call.remaining
      BY <1>0, <1>2, LadderFacts DEF Taker, OrderOf, Call
    <3>2. f <= asks_[i].total_quantity /\ f <= call.remaining
      BY <1>1, <3>1, WidthAssumption, U64Assumption
    <3> QED BY <1>1, <1>3, <1>6, <1>12, <3>1, <3>2
  <2>2. Taker.side = "Buy" /\ p <= Taker.price
    BY <1>4 DEF Taker, OrderOf
  <2>3. Book!TradeAtAsk(p)
    BY <1>1, <1>5, <1>8, <1>9, <1>10, <2>1, <2>2, Zenon
       DEF Book!TradeAtAsk, Book!BestAsk, RestingBids, RestingAsks, Taker
  <2> QED BY <1>3, <2>3
<1> QED BY <1>1, <1>11, <1>12, WidthAssumption

\* A fill of a sell is a trade at the best price on the other side, or changes nothing
\* when the cast makes it 0.
LEMMA MatchAggressiveSellRefines ==
    ASSUME VInv, MatchAggressiveSell
    PROVE  (\E p \in Prices : Book!TradeAtBid(p)) \/ UNCHANGED Book!lvars
<1> DEFINE i == BestIndex(bids_)
           p == bids_[i].price_ticks
<1>0. bids_ \in Ladder /\ StrictlySorted(bids_) /\ IInv
  BY Zenon DEF VInv, IInv, TypeOK, LaddersSorted
<1>1. PICK f \in 0 .. U32 - 1 :
         /\ call.remaining - f \in 0 .. U32 - 1
         /\ bids_[i].total_quantity - f \in 0 .. U64 - 1
         /\ call' = [call EXCEPT !.remaining = @ - f]
         /\ bids_' = TakeFrom(bids_, i, f)
         /\ asks_' = asks_ /\ UNCHANGED pool /\ UNCHANGED <<live, dropped, late>>
  BY <1>0, SellFill, Zenon
<1>2. call \in Call /\ i \in 1 .. Len(bids_)
  BY <1>0, SellFill, Zenon
<1>3. p \in Prices /\ p \in Int /\ bids_[i].total_quantity > 0
  BY <1>0, <1>2, FitsLevel, ClientAssumption, Zenon DEF VInv, Volume
<1>4. call.side = "Sell" /\ p >= call.price_ticks
  BY Zenon DEF MatchAggressiveSell, SellMatches, BestBid
<1>5. \A q \in Prices : RestingBids[q] > 0 => p >= q
  <2> SUFFICES ASSUME NEW q \in Prices, RestingBids[q] > 0 PROVE p >= q
    OBVIOUS
  <2>1. q \in Int /\ Priced(bids_, q)
    BY <1>0, Resting
  <2>2. PICK j \in 1 .. Len(bids_) : bids_[j].price_ticks = q
    BY <2>1, Zenon DEF Priced
  <2>3. Len(bids_) \in Nat /\ (i = j \/ j < i)
    BY <1>0, LadderFacts DEF BestIndex
  <2> HIDE DEF i
  <2>4. j < i => p > q
    BY <1>0, <1>2, <2>2, Zenon DEF StrictlySorted
  <2> QED BY <1>3, <2>1, <2>2, <2>3, <2>4
<1>6. RestingBids[p] = bids_[i].total_quantity
  BY <1>0, <1>2, <1>3, Resting, QuantityAtLevel, Zenon
<1> HIDE DEF i
<1>7. \A x \in Prices : QuantityAt(bids_', x) = IF x = p THEN RestingBids[p] - f ELSE RestingBids[x]
  BY <1>0, <1>1, <1>2, <1>6, TakeFromQuantity, Resting
<1> HIDE DEF p
<1>8. RestingBids' = [RestingBids EXCEPT ![p] = @ - f]
  <2>1. RestingBids' = [x \in Prices |-> QuantityAt(bids_', x)]
    BY Zenon DEF RestingBids
  <2>2. [RestingBids EXCEPT ![p] = @ - f] = [x \in Prices |-> IF x = p THEN RestingBids[p] - f ELSE RestingBids[x]]
    BY Zenon DEF RestingBids
  <2> QED BY <1>7, <2>1, <2>2, Zenon
<1>9. RestingAsks' = RestingAsks
  BY <1>1, Zenon DEF RestingAsks
<1>10. Taker' = [Taker EXCEPT !.left = @ - f]
  BY <1>1, <1>2 DEF Taker, OrderOf, Call
<1>11. CASE f = 0
  <2>1. RestingBids' = RestingBids
    <3>0. RestingBids[p] \in Int
      BY <1>0, <1>3, Resting
    <3>1. RestingBids[p] - f = RestingBids[p]
      BY <1>11, <3>0
    <3>2. \A x \in Prices : QuantityAt(bids_', x) = RestingBids[x]
      BY <1>7, <3>1, Zenon
    <3> QED BY <3>2, Zenon DEF RestingBids
  <2>2. Taker' = Taker
    BY <1>2, <1>10, <1>11, WidthAssumption DEF Taker, OrderOf, Call
  <2> QED BY <1>1, <1>9, <2>1, <2>2, Zenon DEF Book!lvars, RestingBids, RestingAsks, Taker
<1>12. CASE f > 0
  <2>1. f \in 1 .. Taker.left /\ f <= RestingBids[p] /\ RestingBids[p] > 0
    <3>1. bids_[i].total_quantity \in Int /\ call.remaining \in Int /\ Taker.left = call.remaining
      BY <1>0, <1>2, LadderFacts DEF Taker, OrderOf, Call
    <3>2. f <= bids_[i].total_quantity /\ f <= call.remaining
      BY <1>1, <3>1, WidthAssumption, U64Assumption
    <3> QED BY <1>1, <1>3, <1>6, <1>12, <3>1, <3>2
  <2>2. Taker.side = "Sell" /\ p >= Taker.price
    BY <1>4 DEF Taker, OrderOf
  <2>3. Book!TradeAtBid(p)
    BY <1>1, <1>5, <1>8, <1>9, <1>10, <2>1, <2>2, Zenon
       DEF Book!TradeAtBid, Book!BestBid, RestingBids, RestingAsks, Taker
  <2> QED BY <1>3, <2>3, Zenon
<1> QED BY <1>1, <1>11, <1>12, WidthAssumption

\* The end of add_order for a filled order: nothing is left to rest.
LEMMA AddOrderFilledRefines ==
    ASSUME VInv, AddOrderFilled
    PROVE  Book!Depart
<1>1. /\ call \in Call /\ call.remaining = 0 /\ call' = NoCall
      /\ bids_' = bids_ /\ asks_' = asks_ /\ live' = live
  BY DEF VInv, IInv, TypeOK, AddOrderFilled, book
<1>2. Taker.side \in {"Buy", "Sell"} /\ Taker.left = 0 /\ Taker.price \in Prices
  <2>0. call.side \in {"Buy", "Sell"}
    BY <1>1 DEF Call
  <2>1. call # NoCall
    BY DEF AddOrderFilled
  <2>2. call.price_ticks \in Prices
    BY <2>1, Zenon DEF VInv, Volume
  <2> QED BY <1>1, <2>0, <2>2 DEF Taker, OrderOf
<1>3. Taker # Book!NoTaker /\ Taker' = Book!NoTaker
  BY <1>1, <1>2 DEF Taker, OrderOf, Book!NoTaker, NoCall
<1>4. RestingBids' = RestingBids /\ RestingAsks' = RestingAsks
  BY <1>1 DEF RestingBids, RestingAsks
<1>5. /\ [RestingBids EXCEPT ![Taker.price] = @ + Taker.left] = RestingBids
      /\ [RestingAsks EXCEPT ![Taker.price] = @ + Taker.left] = RestingAsks
  <2>1. \A x \in Prices : RestingBids[x] + 0 = RestingBids[x] /\ RestingAsks[x] + 0 = RestingAsks[x]
    BY Resting DEF VInv
  <2> QED BY <1>2, <2>1, Zenon DEF RestingBids, RestingAsks
<1>6. ~(Taker.left > 0)
  BY <1>2
<1> QED BY <1>1, <1>3, <1>4, <1>5, <1>6, Zenon DEF Book!Depart, RestingBids, RestingAsks, Taker

\* upsert on one side adds what is left of the taker to what rests there.
LEMMA UpsertRefines ==
    ASSUME NEW l \in Ladder, StrictlySorted(l), NEW p \in Prices, NEW q \in 1 .. U64 - 1,
           NEW m \in Nat, m + q < U64, LevelsFit(l, m)
    PROVE  [x \in Prices |-> QuantityAt(Upsert(l, p, q), x)]
              = [[x \in Prices |-> QuantityAt(l, x)] EXCEPT ![p] = @ + q]
<1>1. (QuantityAt(l, p) + q) % U64 = QuantityAt(l, p) + q
  BY FitsUpsert
<1>2. p \in Int /\ q \in 0 .. U64 - 1 /\ \A x \in Prices : x \in Int
  BY ClientAssumption, U64Assumption
<1>3. \A x \in Prices : QuantityAt(Upsert(l, p, q), x) =
          IF x = p THEN QuantityAt(l, p) + q ELSE QuantityAt(l, x)
  BY <1>1, <1>2, UpsertQuantity
<1> QED BY <1>3, Zenon

\* The end of add_order for an order that rests: nothing it could trade with is left.
LEMMA AddOrderRestRefines ==
    ASSUME VInv, TotalsFit, AddOrderRest
    PROVE  Book!Depart
<1> DEFINE p == call.price_ticks
           q == call.remaining
           m == Issued - q
<1>0. /\ bids_ \in Ladder /\ asks_ \in Ladder /\ IInv
      /\ StrictlySorted(bids_) /\ StrictlySorted(asks_)
  BY Zenon DEF VInv, IInv, TypeOK, LaddersSorted
<1>1. Issued \in Nat /\ q \in Nat /\ m \in Nat /\ Issued < U64 /\ U64 \in Nat
  BY VolumeTypes, U64Assumption, Zenon
<1>2. call \in Call /\ p \in Prices /\ p \in Int /\ q > 0 /\ call' = NoCall
  BY ClientAssumption, Zenon DEF AddOrderRest, VInv, Volume, IInv, TypeOK
<1>3. LevelsFit(bids_, m) /\ LevelsFit(asks_, m)
  BY DEF VInv, Volume
<1>4. q \in 1 .. U64 - 1 /\ m + q < U64
  BY <1>1, <1>2 DEF m
<1>5. Taker.side = call.side /\ Taker.price = p /\ Taker.left = q
  BY DEF Taker, OrderOf
<1>6. Taker # Book!NoTaker /\ Taker' = Book!NoTaker
  BY <1>2 DEF Taker, OrderOf, Book!NoTaker, NoCall, Call
<1>9. RestingOrders' = IF Taker.left > 0 THEN RestingOrders \cup {Taker} ELSE RestingOrders
  <2>1. live' = live \cup {call}
    BY Zenon DEF AddOrderRest
  <2>2. RestingOrders' = RestingOrders \cup {Taker}
    BY <2>1, Zenon DEF RestingOrders, Taker
  <2> QED BY <1>2, <1>5, <2>2
<1> HIDE DEF m, q
<1>7. CASE call.side = "Buy" /\ ~BuyMatches /\ bids_' = Upsert(bids_, p, q) /\ asks_' = asks_
  <2>1. RestingBids' = [RestingBids EXCEPT ![p] = @ + q] /\ RestingAsks' = RestingAsks
    <3>1. [x \in Prices |-> QuantityAt(Upsert(bids_, p, q), x)]
             = [[x \in Prices |-> QuantityAt(bids_, x)] EXCEPT ![p] = @ + q]
      BY <1>0, <1>1, <1>2, <1>3, <1>4, UpsertRefines
    <3>2. RestingBids' = [x \in Prices |-> QuantityAt(Upsert(bids_, p, q), x)]
      BY <1>7 DEF RestingBids
    <3>3. RestingAsks' = RestingAsks
      BY <1>7 DEF RestingAsks
    <3> QED BY <3>1, <3>2, <3>3, Zenon DEF RestingBids
  <2>2. ASSUME NEW x \in Prices, RestingAsks[x] > 0, x <= p PROVE FALSE
    <3>1. x \in Int /\ Priced(asks_, x)
      BY <1>0, <2>2, Resting
    <3>2. p < x
      BY <1>0, <1>2, <1>7, <3>1, RestsBelowAsks, Zenon DEF q
    <3> QED BY <1>2, <2>2, <3>1, <3>2
  <2>3. \A x \in Prices : ~Book!BestAsk(x) /\ ~Book!BestBid(x)
    BY <1>5, <1>7, <2>2 DEF Book!BestAsk, Book!BestBid, RestingAsks, Taker
  <2> QED BY <1>5, <1>6, <1>7, <1>9, <2>1, <2>3, Zenon
             DEF Book!Depart, RestingBids, RestingAsks, RestingOrders, Taker
<1>8. CASE call.side = "Sell" /\ ~SellMatches /\ asks_' = Upsert(asks_, p, q) /\ bids_' = bids_
  <2>1. RestingAsks' = [RestingAsks EXCEPT ![p] = @ + q] /\ RestingBids' = RestingBids
    <3>1. [x \in Prices |-> QuantityAt(Upsert(asks_, p, q), x)]
             = [[x \in Prices |-> QuantityAt(asks_, x)] EXCEPT ![p] = @ + q]
      BY <1>0, <1>1, <1>2, <1>3, <1>4, UpsertRefines
    <3>2. RestingAsks' = [x \in Prices |-> QuantityAt(Upsert(asks_, p, q), x)]
      BY <1>8 DEF RestingAsks
    <3>3. RestingBids' = RestingBids
      BY <1>8 DEF RestingBids
    <3> QED BY <3>1, <3>2, <3>3, Zenon DEF RestingAsks
  <2>2. ASSUME NEW x \in Prices, RestingBids[x] > 0, x >= p PROVE FALSE
    <3>1. x \in Int /\ Priced(bids_, x)
      BY <1>0, <2>2, Resting
    <3>2. x < p
      BY <1>0, <1>2, <1>8, <3>1, RestsAboveBids, Zenon DEF q
    <3> QED BY <1>2, <2>2, <3>1, <3>2
  <2>3. \A x \in Prices : ~Book!BestAsk(x) /\ ~Book!BestBid(x)
    BY <1>5, <1>8, <2>2 DEF Book!BestAsk, Book!BestBid, RestingBids, Taker
  <2> QED BY <1>5, <1>6, <1>8, <1>9, <2>1, <2>3, Zenon
             DEF Book!Depart, RestingBids, RestingAsks, RestingOrders, Taker
<1> QED BY <1>7, <1>8 DEF AddOrderRest, q

\* The steps inside add_order, in terms of the book.
LEMMA InsideRefines ==
    ASSUME VInv, TotalsFit, InsideAddOrder
    PROVE  Book!Match \/ UNCHANGED Book!lvars
BY MatchAggressiveBuyRefines, MatchAggressiveSellRefines, AddOrderFilledRefines,
   AddOrderRestRefines, Zenon DEF InsideAddOrder, Book!Match

\* A fill of nothing, the fill of a level whose low 32 bits are zero, leaves the
\* ladder as it is.
LEMMA FillOfNothing ==
    ASSUME NEW levels_ \in Ladder, NEW m, LevelsFit(levels_, m), NEW i \in 1 .. Len(levels_)
    PROVE  TakeFrom(levels_, i, 0) = levels_
<1> DEFINE p == levels_[i].price_ticks
           it == LowerBound(levels_, p)
<1>1. p \in Int /\ levels_[i] \in PriceLevel /\ levels_[i].total_quantity \in Int
  BY LadderFacts DEF PriceLevel
<1>2. [levels_ EXCEPT ![i].total_quantity = @ - 0] = levels_
  <2>1. [levels_[i] EXCEPT !.total_quantity = @ - 0] = levels_[i]
    BY <1>1 DEF PriceLevel
  <2> QED BY <2>1 DEF Ladder
<1>3. TakeFrom(levels_, i, 0) = RemoveIfEmpty(levels_, p)
  BY <1>2 DEF TakeFrom
<1>4. it \in 1 .. Len(levels_) + 1 /\ Len(levels_) \in Nat
  BY <1>1, LowerBoundProperties, LadderFacts, Zenon
<1>5. Hit(levels_, it, p) => levels_[it].total_quantity # 0
  <2> HIDE DEF it
  <2> SUFFICES ASSUME Hit(levels_, it, p) PROVE levels_[it].total_quantity # 0
    OBVIOUS
  <2>1. it \in 1 .. Len(levels_)
    BY <1>4 DEF Hit
  <2>2. levels_[it].total_quantity > 0
    BY <2>1, FitsLevel, Zenon
  <2>3. levels_[it].total_quantity \in Int
    BY <2>1, LadderFacts
  <2> QED BY <2>2, <2>3
<1> QED BY <1>3, <1>5, Zenon DEF RemoveIfEmpty

\* A step inside add_order that changes nothing of the book changes nothing.
LEMMA InsideIdles ==
    ASSUME VInv, InsideAddOrder, UNCHANGED Book!lvars
    PROVE  UNCHANGED vars
<1>1. call # NoCall /\ call \in Call
  <2>1. call \in Call \cup {NoCall}
    BY DEF VInv, IInv, TypeOK
  <2>2. call # NoCall
    BY DEF InsideAddOrder, MatchAggressiveBuy, MatchAggressiveSell, AddOrderFilled,
           AddOrderRest, NoCall
  <2> QED BY <2>1, <2>2
<1>2. OrderOf(call)' = OrderOf(call)
  BY Zenon DEF Book!lvars
<1>3. call'.side = call.side /\ call'.remaining = call.remaining
  BY <1>2 DEF OrderOf
<1>4. ~AddOrderFilled /\ ~AddOrderRest
  BY <1>1, <1>3 DEF AddOrderFilled, AddOrderRest, NoCall, Call
<1>5. CASE MatchAggressiveBuy
  <2> DEFINE i == WorstIndex(asks_)
  <2>0. asks_ \in Ladder /\ StrictlySorted(asks_) /\ IInv
    BY DEF VInv, IInv, TypeOK, LaddersSorted
  <2>1. PICK f \in 0 .. U32 - 1 :
           /\ asks_[i].total_quantity - f \in 0 .. U64 - 1
           /\ call' = [call EXCEPT !.remaining = @ - f]
           /\ asks_' = TakeFrom(asks_, i, f)
           /\ bids_' = bids_ /\ UNCHANGED pool /\ UNCHANGED <<live, dropped, late>>
    BY <1>5, <2>0, BuyFill
  <2>2. i \in 1 .. Len(asks_)
    BY <1>5, <2>0, BuyFill
  <2>3. f = 0 /\ call' = call
    BY <1>1, <1>3, <2>1, WidthAssumption DEF Call
  <2>4. asks_' = asks_
    BY <2>0, <2>1, <2>2, <2>3, FillOfNothing, Zenon DEF VInv, Volume
  <2> QED BY <2>1, <2>3, <2>4, Zenon DEF vars, book
<1>6. CASE MatchAggressiveSell
  <2> DEFINE i == BestIndex(bids_)
  <2>0. bids_ \in Ladder /\ StrictlySorted(bids_) /\ IInv
    BY DEF VInv, IInv, TypeOK, LaddersSorted
  <2>1. PICK f \in 0 .. U32 - 1 :
           /\ bids_[i].total_quantity - f \in 0 .. U64 - 1
           /\ call' = [call EXCEPT !.remaining = @ - f]
           /\ bids_' = TakeFrom(bids_, i, f)
           /\ asks_' = asks_ /\ UNCHANGED pool /\ UNCHANGED <<live, dropped, late>>
    BY <1>6, <2>0, SellFill
  <2>2. i \in 1 .. Len(bids_)
    BY <1>6, <2>0, SellFill
  <2>3. f = 0 /\ call' = call
    BY <1>1, <1>3, <2>1, WidthAssumption DEF Call
  <2>4. bids_' = bids_
    BY <2>0, <2>1, <2>2, <2>3, FillOfNothing, Zenon DEF VInv, Volume
  <2> QED BY <2>1, <2>3, <2>4, Zenon DEF vars, book
<1> QED BY <1>4, <1>5, <1>6 DEF InsideAddOrder
\* MatchesByPriority: whatever clients add and cancel, what add_order does between
\* two calls of a client is a trade at the best price the order can get, or the end
\* of the order once there is none, as long as no total wraps.
THEOREM MatchesInPriority ==
    ASSUME TotalsFit
    PROVE  Spec => MatchesByPriority
<1>1. Init => VInv
  BY VolumeInit, Zenon
<1>2. VInv /\ [Next]_vars => VInv'
  BY VolumeNext, Zenon
<1>3. VInv /\ [Next]_vars => [call # NoCall => Book!Match]_vars
  <2> SUFFICES ASSUME VInv, [Next]_vars, call # NoCall, ~UNCHANGED vars
               PROVE  Book!Match
    OBVIOUS
  <2>1. InsideAddOrder
    BY Zenon DEF Next, AddOrder, AddOrderAllocate, AddOrderExhausted, CancelOrder, AddOrderCancel,
                 TakeOrderId
  <2> QED BY <2>1, InsideRefines, InsideIdles, Zenon
<1> QED BY <1>1, <1>2, <1>3, PTL DEF Spec, MatchesByPriority

\* ImplementsBook: as long as no client cancels an order that rests and no total
\* wraps, every step of the engine is a step of a price-priority limit order book or
\* changes nothing of it.  A cancelled order is where the two part: it leaves the
\* abstract book with its quantity, and leaves its quantity in the engine's ladder.
THEOREM RefinesBook ==
    ASSUME TotalsFit
    PROVE  Spec /\ KeepsOrders => ImplementsBook
<1>1. Init => Book!LInit /\ VInv /\ Numbered
  <2> SUFFICES ASSUME Init PROVE Book!LInit
    BY VolumeInit, NumberedInit, Zenon
  <2>1. /\ bids_ \in Ladder /\ asks_ \in Ladder /\ \A x : ~Priced(bids_, x) /\ ~Priced(asks_, x)
    BY DEF Init, Ladder, Priced
  <2>2. \A x \in Prices : QuantityAt(bids_, x) = 0 /\ QuantityAt(asks_, x) = 0
    BY <2>1, QuantityAtNone, ClientAssumption, Zenon
  <2>3. {OrderOf(o) : o \in live} = {} /\ OrderOf(call) = Book!NoTaker
    BY DEF Init, OrderOf, Book!NoTaker, NoCall
  <2> QED BY <2>2, <2>3 DEF Book!LInit
<1>2. VInv /\ Numbered /\ [Next]_vars => VInv' /\ Numbered'
  BY VolumeNext, NumberedNext, Zenon DEF VInv
<1>3. VInv /\ Numbered /\ [Next]_vars /\ [live \subseteq live']_vars
        => [Book!LNext]_(Book!lvars)
  <2> SUFFICES ASSUME VInv, Numbered, [Next]_vars, [live \subseteq live']_vars
               PROVE  [Book!LNext]_(Book!lvars)
    OBVIOUS
  <2>1. CASE AddOrder
    <3>1. AddOrderExhausted => UNCHANGED Book!lvars
      BY SameBookRefines, Zenon DEF AddOrderExhausted, book
    <3> QED BY <2>1, <3>1, AddOrderAllocateRefines, Zenon DEF AddOrder, Book!LNext
  <2>2. CASE InsideAddOrder
    BY <2>2, InsideRefines, Zenon DEF Book!LNext
  <2>3. ASSUME NEW id \in 0 .. MaxCalls, CancelOrder(id) \/ AddOrderCancel(id)
        PROVE  UNCHANGED Book!lvars
    <3>1. live' \subseteq live /\ call' = call
      BY <2>3 DEF CancelOrder, AddOrderCancel, CancelFound, CancelNotFound, TakeOrderId
    <3>2. live' = live
      BY <3>1 DEF vars
    <3>3. id \in Int /\ (CancelFound(id) \/ CancelNotFound(id))
      BY <2>3, ClientAssumption DEF CancelOrder, AddOrderCancel
    <3> QED BY <3>1, <3>2, <3>3, CancelRefines, Zenon
  <2>4. CASE UNCHANGED vars
    BY <2>4, SameBookRefines DEF vars, book
  <2> QED BY <2>1, <2>2, <2>3, <2>4, Zenon DEF Next
<1> QED BY <1>1, <1>2, <1>3, PTL DEF Spec, KeepsOrders, ImplementsBook, Book!LSpec
=============================================================================
