------------------------ MODULE HazardPointersProofs ------------------------
(***************************************************************************)
(* Proofs about HazardPointers, for any readers, objects, array sizes,     *)
(* scan threshold and number of stores in flight.                          *)
(*                                                                         *)
(* The list side (Listed) needs nothing of the readers: every retired      *)
(* object is once in retired_ or deleted once.  The protection side needs  *)
(* thread ids that differ.  A slot then has one writer, so that the last   *)
(* store of a reader to a slot (Latest) tells what the slot will hold,     *)
(* a handle keeps its slot for itself (Slots), and a scan cannot have      *)
(* passed by the slot of a published handle without noticing (Scanned).    *)
(***************************************************************************)
EXTENDS HazardPointers, TLAPS

-----------------------------------------------------------------------------
(* The inductive invariant                                                 *)

Store == [slot : Index, ptr : Ptrs \cup {Null}]

\* TypeOK, and what the two program counters say of the locals.
Types ==
    /\ TypeOK
    /\ \A r \in Readers : rpc[r] = "store" => rptr[r] \in Ptrs
    /\ si >= 1
    /\ spc # "scan" => si = 1 /\ sj = 0 /\ is_hazardous = {}
    /\ is_hazardous \subseteq 1 .. Len(retired_)

Waiting(p) == \E i \in 1 .. Len(retired_) : retired_[i] = p

\* No object is listed twice; a retired one is listed or deleted.
Listed ==
    /\ \A i, k \in 1 .. Len(retired_) : retired_[i] = retired_[k] => i = k
    /\ \A p \in reachable : deletions[p] = 0 /\ ~Waiting(p)
    /\ \A p \in Ptrs \ reachable :
          deletions[p] = IF spc # "destroyed" /\ Waiting(p) THEN 0 ELSE 1

\* Reader r has no store to slot j in flight.
Quiet(r, j) == \A k \in 1 .. Len(buffer[r]) : buffer[r][k].slot # j

\* The last store of reader r to slot j wrote v.
Latest(r, j, v) ==
    \/ hazard_ptrs_[j] = v /\ Quiet(r, j)
    \/ \E k \in 1 .. Len(buffer[r]) :
          /\ buffer[r][k].slot = j /\ buffer[r][k].ptr = v
          /\ \A l \in 1 .. Len(buffer[r]) : l > k => buffer[r][l].slot # j

\* Reader r writes only to slots of its own thread id.
OwnSlots(r) ==
    \A k \in 1 .. Len(buffer[r]) :
        \E i \in 0 .. MAX_HAZARD_PTRS - 1 : buffer[r][k].slot = SlotIndex(r, i)

\* What r stored last in the slot it is about to use, and in those of its
\* handles, no two of which share a slot.
OwnHandles(r) ==
    /\ rpc[r] = "store" => Latest(r, SlotIndex(r, rslot[r]), Null)
    /\ \A h \in held[r] : Latest(r, SlotIndex(r, h.slot), h.ptr)
    /\ \A h, g \in held[r] : h.slot = g.slot => h = g
    /\ \A h \in held[r] : h.published => Quiet(r, SlotIndex(r, h.slot))

Slots == \A r \in Readers : OwnSlots(r) /\ OwnHandles(r)

\* A scan has found the object of a published handle, or has its slot ahead.
Scanned ==
    \A r \in Readers : \A h \in held[r] : h.published /\ spc = "scan" =>
        \A i \in 1 .. Len(retired_) : retired_[i] = h.ptr =>
            /\ i < si => i \in is_hazardous
            /\ i = si => sj <= SlotIndex(r, h.slot)

ListInv == Types /\ Listed
HazardInv == ListInv /\ Slots /\ Scanned /\ PublishedProtects

\* What PublishedProtects needs of get_thread_id.
DistinctThreadIds == \A r, q \in Readers : ThreadId[r] = ThreadId[q] => r = q

-----------------------------------------------------------------------------
(* Slots and sequences                                                     *)

\* Elements of a sequence are in the set the sequence is over.
LEMMA SeqFacts ==
    ASSUME NEW S, NEW s \in Seq(S)
    PROVE  /\ Len(s) \in Nat
           /\ \A i \in 1 .. Len(s) : s[i] \in S
OBVIOUS

\* A function on 1 .. n is a sequence of length n.
LEMMA FunctionIsSeq ==
    ASSUME NEW S, NEW n \in Nat, NEW f \in [1 .. n -> S]
    PROVE  f \in Seq(S) /\ Len(f) = n
OBVIOUS

\* Append puts its element last and keeps the others.
LEMMA AppendFacts ==
    ASSUME NEW S, NEW s \in Seq(S), NEW x \in S
    PROVE  /\ Append(s, x) \in Seq(S)
           /\ Len(Append(s, x)) = Len(s) + 1
           /\ \A i \in 1 .. Len(s) : Append(s, x)[i] = s[i]
           /\ Append(s, x)[Len(s) + 1] = x
OBVIOUS

\* Tail moves the elements down by one.
LEMMA TailFacts ==
    ASSUME NEW S, NEW s \in Seq(S), s # <<>>
    PROVE  /\ Tail(s) \in Seq(S) /\ Head(s) \in S /\ Head(s) = s[1]
           /\ Len(s) \in Nat \ {0}
           /\ Len(Tail(s)) = Len(s) - 1
           /\ \A i \in 1 .. Len(s) - 1 : Tail(s)[i] = s[i + 1]
OBVIOUS

\* A longer interval contains a shorter one.
LEMMA IntervalGrows ==
    ASSUME NEW a \in Nat, NEW b \in Nat, a <= b
    PROVE  1 .. a - 1 \subseteq 1 .. b - 1
OBVIOUS

\* Positions after the first, moved down by one.
LEMMA ShiftedPositions ==
    ASSUME NEW n \in Nat \ {0}, NEW k \in 1 .. n - 1
    PROVE  k + 1 \in 1 .. n /\ k + 1 \in 2 .. n
OBVIOUS

\* thread_id * MAX_HAZARD_PTRS + slot is an index of the array.
LEMMA SlotInIndex ==
    ASSUME NEW r \in Readers, NEW i \in 0 .. MAX_HAZARD_PTRS - 1
    PROVE  SlotIndex(r, i) \in Index
<1> DEFINE t == ThreadId[r]
           m == MAX_HAZARD_PTRS
           n == num_threads_
<1>1. t \in 0 .. n - 1 /\ n \in Nat /\ m \in Nat
      BY ThreadIdAssumption, SizesAssumption
<1>2. t * m + i \in 0 .. n * m - 1
  <2> HIDE DEF t, m, n
  <2>1. i \in 0 .. m - 1
        BY DEF m
  <2>2. t * m \in Nat /\ n * m \in Nat /\ (n - t - 1) * m \in Nat
        BY <1>1, SMT
  <2>3. n * m = t * m + m + (n - t - 1) * m
        BY <1>1, SMT
  <2> QED BY <1>1, <2>1, <2>2, <2>3, SMT
<1> QED BY <1>2 DEF SlotIndex, Index

\* The slots of one reader differ, and with distinct thread ids those of two.
LEMMA SlotInjective ==
    ASSUME NEW r \in Readers, NEW q \in Readers,
           NEW i \in 0 .. MAX_HAZARD_PTRS - 1, NEW k \in 0 .. MAX_HAZARD_PTRS - 1,
           SlotIndex(r, i) = SlotIndex(q, k)
    PROVE  ThreadId[r] = ThreadId[q] /\ i = k
<1> DEFINE t == ThreadId[r]
           u == ThreadId[q]
           m == MAX_HAZARD_PTRS
<1>1. t \in Nat /\ u \in Nat /\ m \in Nat
      BY ThreadIdAssumption, SizesAssumption
<1>2. t * m + i = u * m + k
      BY DEF SlotIndex
<1> HIDE DEF t, u, m
<1>3. i \in 0 .. m - 1 /\ k \in 0 .. m - 1
      BY DEF m
<1>4. ~(t < u)
  <2> SUFFICES ASSUME t < u PROVE FALSE
      OBVIOUS
  <2>1. (u - t - 1) * m \in Nat /\ t * m \in Nat /\ u * m \in Nat
        BY <1>1, SMT
  <2>2. u * m = t * m + m + (u - t - 1) * m
        BY <1>1, SMT
  <2> QED BY <1>1, <1>2, <1>3, <2>1, <2>2, SMT
<1>5. ~(u < t)
  <2> SUFFICES ASSUME u < t PROVE FALSE
      OBVIOUS
  <2>1. (t - u - 1) * m \in Nat /\ t * m \in Nat /\ u * m \in Nat
        BY <1>1, SMT
  <2>2. t * m = u * m + m + (t - u - 1) * m
        BY <1>1, SMT
  <2> QED BY <1>1, <1>2, <1>3, <2>1, <2>2, SMT
<1>6. t = u
      BY <1>1, <1>4, <1>5
<1>7. t * m \in Nat
      BY <1>1, SMT
<1> QED BY <1>2, <1>3, <1>6, <1>7 DEF t, u


-----------------------------------------------------------------------------
(* Types                                                                   *)

\* What TypeOK says of a reader's buffer and locals.
LEMMA ReaderTypes ==
    ASSUME Types, NEW r \in Readers
    PROVE  /\ buffer[r] \in Seq(Store) /\ Len(buffer[r]) \in Nat
           /\ \A k \in 1 .. Len(buffer[r]) : buffer[r][k] \in Store
           /\ rslot[r] \in 0 .. MAX_HAZARD_PTRS - 1
           /\ held[r] \in SUBSET Handle
<1>1. buffer[r] \in Seq(Store)
      BY Zenon DEF Types, TypeOK, Store
<1> QED BY <1>1, SeqFacts DEF Types, TypeOK

\* Types survives every step but the destructor's, for which see below.
LEMMA TypesStep ==
    ASSUME Types, [Next]_vars, ~Destroy
    PROVE  Types'
<1>1. retired_ \in Seq(Ptrs) /\ Len(retired_) \in Nat
      BY SeqFacts DEF Types, TypeOK
<1>2. ASSUME NEW r \in Readers, NEW ptr \in Ptrs, AcquireFind(r, ptr) PROVE Types'
  <2>1. rslot' \in [Readers -> 0 .. MAX_HAZARD_PTRS - 1]
        BY <1>2 DEF AcquireFind, FreeSlots, Types, TypeOK
  <2> QED BY <1>2, <2>1, Zenon DEF AcquireFind, scanVars, Types, TypeOK
<1>3. ASSUME NEW r \in Readers, NEW ptr \in Ptrs, Release(r, ptr) PROVE Types'
  <2>1. PICK h \in held[r] :
           /\ held' = [held EXCEPT ![r] = @ \ {h}]
           /\ buffer' = [buffer EXCEPT ![r] =
                           Append(@, [slot |-> SlotIndex(r, h.slot), ptr |-> Null])]
        BY <1>3, Zenon DEF Release
  <2>2. h.slot \in 0 .. MAX_HAZARD_PTRS - 1
        BY ReaderTypes DEF Handle
  <2>3. [slot |-> SlotIndex(r, h.slot), ptr |-> Null] \in Store
        BY <2>2, SlotInIndex DEF Store
  <2>4. Append(buffer[r], [slot |-> SlotIndex(r, h.slot), ptr |-> Null]) \in Seq(Store)
        BY <2>3, ReaderTypes, AppendFacts
  <2>5. buffer' \in [Readers -> Seq(Store)]
        BY <2>1, <2>4, Zenon DEF Types, TypeOK, Store
  <2>6. held' \in [Readers -> SUBSET Handle]
        BY <2>1 DEF Types, TypeOK
  <2> QED BY <1>3, <2>5, <2>6, Zenon DEF Release, readerVars, scanVars, Types, TypeOK, Store
<1>4. ASSUME NEW r \in Readers, AcquireStore(r) PROVE Types'
  <2> DEFINE st == [slot |-> SlotIndex(r, rslot[r]), ptr |-> rptr[r]]
             h == [slot |-> rslot[r], ptr |-> rptr[r], published |-> FALSE]
  <2>1. rptr[r] \in Ptrs /\ rslot[r] \in 0 .. MAX_HAZARD_PTRS - 1
        BY <1>4 DEF AcquireStore, Types, TypeOK
  <2>2. st \in Store
        BY <2>1, SlotInIndex DEF Store
  <2>3. h \in Handle
        BY <2>1 DEF Handle
  <2>4. Append(buffer[r], st) \in Seq(Store)
        BY <2>2, ReaderTypes, AppendFacts
  <2>5. buffer' \in [Readers -> Seq(Store)]
        BY <1>4, <2>4, Zenon DEF AcquireStore, Types, TypeOK, Store
  <2>6. held' \in [Readers -> SUBSET Handle]
        BY <1>4, <2>3, Zenon DEF AcquireStore, Types, TypeOK
  <2>7. rslot' \in [Readers -> 0 .. MAX_HAZARD_PTRS - 1]
        BY <1>4, SizesAssumption DEF AcquireStore, Types, TypeOK
  <2>8. rptr' \in [Readers -> Ptrs \cup {Null}]
        BY <1>4 DEF AcquireStore, Types, TypeOK
  <2>9. /\ rpc' \in [Readers -> {"idle", "store"}]
        /\ \A q \in Readers : rpc'[q] = "store" => rptr'[q] \in Ptrs
        BY <1>4 DEF AcquireStore, Types, TypeOK
  <2> QED BY <1>4, <2>5, <2>6, <2>7, <2>8, <2>9, Zenon
             DEF AcquireStore, scanVars, Types, TypeOK, Store
<1>5. ASSUME NEW r \in Readers, Flush(r) PROVE Types'
  <2>1. buffer[r] # <<>> /\ buffer[r] \in Seq(Store)
        BY <1>5, ReaderTypes DEF Flush
  <2>2. Head(buffer[r]) \in Store /\ Tail(buffer[r]) \in Seq(Store)
        BY <2>1, TailFacts
  <2>3. hazard_ptrs_' \in [Index -> Ptrs \cup {Null}]
        BY <1>5, <2>2 DEF Flush, Types, TypeOK, Store
  <2>4. buffer' \in [Readers -> Seq(Store)]
        BY <1>5, <2>2, Zenon DEF Flush, Types, TypeOK, Store
  <2>5. \A h \in Handle : [h EXCEPT !.published = TRUE] \in Handle
        BY Zenon DEF Handle
  <2>6. held' \in [Readers -> SUBSET Handle]
        BY <1>5, <2>5 DEF Flush, Types, TypeOK
  <2> QED BY <1>5, <2>3, <2>4, <2>6, Zenon
             DEF Flush, readerVars, scanVars, Types, TypeOK, Store
<1>6. ASSUME NEW ptr \in Ptrs, Retire(ptr) PROVE Types'
  <2>1. retired_' \in Seq(Ptrs) /\ Len(retired_') = Len(retired_) + 1
        BY <1>1, <1>6, AppendFacts DEF Retire
  <2>2. spc' \in {"idle", "scan"} /\ UNCHANGED <<si, sj, is_hazardous>> /\ spc = "idle"
        BY <1>6 DEF Retire, StartScan, scanVars
  <2>3. is_hazardous' = {} /\ si' = 1 /\ sj' = 0
        BY <2>2 DEF Types
  <2> QED BY <1>6, <2>1, <2>2, <2>3, Zenon DEF Retire, readerVars, Types, TypeOK
<1>7. CASE ScanAndReclaim
  <2>1. spc' \in {"idle", "scan"} /\ UNCHANGED <<si, sj, is_hazardous>> /\ spc = "idle"
        BY <1>7 DEF ScanAndReclaim, StartScan, scanVars
  <2>2. is_hazardous' = {} /\ si' = 1 /\ sj' = 0
        BY <2>1 DEF Types
  <2> QED BY <1>7, <2>1, <2>2, Zenon DEF ScanAndReclaim, readerVars, Types, TypeOK
<1>8. CASE ScanLoad
  <2>1. si \in Nat /\ si >= 1 /\ sj \in Index /\ si <= Len(retired_)
        BY <1>8 DEF ScanLoad, Types, TypeOK
  <2>2. num_threads_ * MAX_HAZARD_PTRS \in Nat
        BY ThreadIdAssumption, SizesAssumption, SMT
  <2>3. /\ si' \in {si, si + 1}
        /\ sj' = 0 \/ (sj' = sj + 1 /\ sj + 1 # num_threads_ * MAX_HAZARD_PTRS)
        /\ is_hazardous' = is_hazardous \/ (is_hazardous' = is_hazardous \cup {si} /\ si' = si + 1)
        BY <1>8 DEF ScanLoad
  <2>4. sj' \in Index
        BY <2>1, <2>2, <2>3 DEF Index
  <2>5. is_hazardous' \subseteq 1 .. si' - 1 /\ is_hazardous' \subseteq 1 .. Len(retired_)
    <3>1. is_hazardous \subseteq 1 .. si - 1 /\ is_hazardous \subseteq 1 .. Len(retired_)
          BY DEF Types, TypeOK
    <3>2. CASE is_hazardous' = is_hazardous
      <4>1. si <= si' /\ si' \in Nat
            BY <2>1, <2>3
      <4>2. 1 .. si - 1 \subseteq 1 .. si' - 1
            BY <2>1, <4>1, IntervalGrows, Zenon
      <4> QED BY <3>1, <3>2, <4>2, Zenon
    <3>3. CASE is_hazardous' = is_hazardous \cup {si} /\ si' = si + 1
          BY <1>1, <2>1, <3>1, <3>3
    <3> QED BY <2>3, <3>2, <3>3
  <2>6. si' \in Nat /\ si' >= 1
        BY <2>1, <2>3
  <2> QED BY <1>8, <2>4, <2>5, <2>6, Zenon DEF ScanLoad, readerVars, Types, TypeOK
<1>9. CASE Reclaim
  <2>1. deletions' \in [Ptrs -> Nat]
        BY <1>9 DEF Reclaim, Types, TypeOK
  <2>2. retired_' \in Seq(Ptrs)
    <3>1. PICK n \in 0 .. Len(retired_) : \E new_retired \in [1 .. n -> is_hazardous] :
             retired_' = [i \in 1 .. n |-> retired_[new_retired[i]]]
          BY <1>9, Zenon DEF Reclaim
    <3>2. PICK new_retired \in [1 .. n -> is_hazardous] :
             retired_' = [i \in 1 .. n |-> retired_[new_retired[i]]]
          BY <3>1
    <3>3. \A i \in 1 .. n : retired_[new_retired[i]] \in Ptrs
          BY <1>1, <3>1, SeqFacts DEF Types
    <3> QED BY <1>1, <3>1, <3>2, <3>3
  <2>3. /\ spc' = "idle" /\ si' = 1 /\ sj' = 0 /\ is_hazardous' = {}
        /\ UNCHANGED <<hazard_ptrs_, buffer, readerVars, held, reachable>>
        BY <1>9, Zenon DEF Reclaim, EndScan
  <2>4. 0 \in Index
    <3>1. num_threads_ * MAX_HAZARD_PTRS \in Nat
          BY ThreadIdAssumption, SizesAssumption, SMT
    <3>2. sj \in Index
          BY DEF Types, TypeOK
    <3> QED BY <3>1, <3>2 DEF Index
  <2>5. TypeOK'
        BY <2>1, <2>2, <2>3, <2>4, Zenon DEF readerVars, Types, TypeOK
  <2> QED BY <2>3, <2>5 DEF readerVars, Types
<1>10. UNCHANGED vars \/ (\E r \in Readers : AcquireFull(r)) => Types'
  <2>1. UNCHANGED vars => Types'
        BY Zenon DEF vars, readerVars, scanVars, Types, TypeOK
  <2> QED BY <2>1 DEF AcquireFull
<1> QED BY <1>2, <1>3, <1>4, <1>5, <1>6, <1>7, <1>8, <1>9, <1>10 DEF Next, Reader, Reclaimer
-----------------------------------------------------------------------------
(* The list of retired objects                                             *)

\* Readers, and a scan that only looks, leave the list side alone.
LEMMA ListedFrame ==
    ASSUME Listed, UNCHANGED <<retired_, reachable, deletions>>,
           spc' = "destroyed" <=> spc = "destroyed"
    PROVE  Listed'
BY DEF Listed, Waiting

\* retire(ptr) lists an object that was not listed.
LEMMA RetireListed ==
    ASSUME Types, Listed, NEW ptr \in Ptrs, Retire(ptr)
    PROVE  Listed'
<1>1. retired_ \in Seq(Ptrs) /\ Len(retired_) \in Nat
      BY SeqFacts DEF Types, TypeOK
<1>2. /\ retired_' = Append(retired_, ptr) /\ reachable' = reachable \ {ptr}
      /\ deletions' = deletions /\ ptr \in reachable
      /\ spc # "destroyed" /\ spc' # "destroyed"
      BY DEF Retire, StartScan, scanVars
<1>3. /\ Len(retired_') = Len(retired_) + 1
      /\ \A i \in 1 .. Len(retired_) : retired_'[i] = retired_[i]
      /\ retired_'[Len(retired_) + 1] = ptr
      BY <1>1, <1>2, AppendFacts
<1>4. \A p \in Ptrs : Waiting(p)' <=> Waiting(p) \/ p = ptr
      BY <1>1, <1>3 DEF Waiting
<1>5. ~Waiting(ptr) /\ deletions[ptr] = 0
      BY <1>2 DEF Listed
<1>6. \A i, k \in 1 .. Len(retired_') : retired_'[i] = retired_'[k] => i = k
  <2> SUFFICES ASSUME NEW i \in 1 .. Len(retired_) + 1, NEW k \in 1 .. Len(retired_) + 1,
                      retired_'[i] = retired_'[k]
               PROVE  i = k
      BY <1>3
  <2>1. CASE i \in 1 .. Len(retired_) /\ k \in 1 .. Len(retired_)
        BY <2>1, <1>3 DEF Listed
  <2>2. CASE i = Len(retired_) + 1 /\ k \in 1 .. Len(retired_)
        BY <2>2, <1>3, <1>5 DEF Waiting
  <2>3. CASE k = Len(retired_) + 1 /\ i \in 1 .. Len(retired_)
        BY <2>3, <1>3, <1>5 DEF Waiting
  <2> QED BY <1>1, <2>1, <2>2, <2>3
<1>7. reachable \subseteq Ptrs
      BY DEF Types, TypeOK
<1>8. \A p \in reachable' : deletions'[p] = 0 /\ ~Waiting(p)'
      BY <1>2, <1>4, <1>7 DEF Listed
<1>9. \A p \in Ptrs \ reachable' :
         deletions'[p] = IF spc' # "destroyed" /\ Waiting(p)' THEN 0 ELSE 1
      BY <1>2, <1>4, <1>5, <1>7 DEF Listed
<1> QED BY <1>6, <1>8, <1>9 DEF Listed

\* The second loop of the scan takes an object off the list as it deletes it.
LEMMA ReclaimListed ==
    ASSUME Types, Listed, Reclaim
    PROVE  Listed'
<1> DEFINE gone == {retired_[i] : i \in DOMAIN retired_ \ is_hazardous}
<1>1. /\ retired_ \in Seq(Ptrs) /\ Len(retired_) \in Nat
      /\ DOMAIN retired_ = 1 .. Len(retired_)
      /\ is_hazardous \subseteq 1 .. Len(retired_)
      BY SeqFacts DEF Types, TypeOK
<1>2. PICK n \in 0 .. Len(retired_) : \E new_retired \in [1 .. n -> is_hazardous] :
         /\ \A k \in is_hazardous : \E i \in 1 .. n : new_retired[i] = k
         /\ \A i, k \in 1 .. n : i < k => new_retired[i] < new_retired[k]
         /\ retired_' = [i \in 1 .. n |-> retired_[new_retired[i]]]
      BY DEF Reclaim
<1>3. PICK new_retired \in [1 .. n -> is_hazardous] :
         /\ \A k \in is_hazardous : \E i \in 1 .. n : new_retired[i] = k
         /\ \A i, k \in 1 .. n : i < k => new_retired[i] < new_retired[k]
         /\ retired_' = [i \in 1 .. n |-> retired_[new_retired[i]]]
      BY <1>2, Zenon
<1>4. /\ deletions' = [p \in Ptrs |-> deletions[p] + IF p \in gone THEN 1 ELSE 0]
      /\ reachable' = reachable /\ spc = "scan" /\ spc' = "idle"
      BY DEF Reclaim, EndScan
<1>5. /\ Len(retired_') = n
      /\ \A i \in 1 .. n : new_retired[i] \in is_hazardous /\ retired_'[i] = retired_[new_retired[i]]
  <2>1. \A i \in 1 .. n : new_retired[i] \in is_hazardous
        BY <1>3
  <2>2. \A i \in 1 .. n : retired_[new_retired[i]] \in Ptrs
        BY <1>1, <2>1, SeqFacts, Zenon
  <2>3. retired_' \in [1 .. n -> Ptrs]
        BY <1>3, <2>2
  <2>4. Len(retired_') = n
        BY <1>1, <1>2, <2>3, FunctionIsSeq
  <2> QED BY <1>3, <2>1, <2>4
<1>6. \A i, k \in 1 .. Len(retired_') : retired_'[i] = retired_'[k] => i = k
  <2> SUFFICES ASSUME NEW i \in 1 .. n, NEW k \in 1 .. n, retired_'[i] = retired_'[k]
               PROVE  i = k
      BY <1>5
  <2>3. /\ new_retired[i] \in 1 .. Len(retired_) /\ new_retired[k] \in 1 .. Len(retired_)
        /\ retired_[new_retired[i]] = retired_[new_retired[k]]
        BY <1>1, <1>5, Zenon
  <2>1. new_retired[i] = new_retired[k]
        BY <2>3 DEF Listed
  <2>2. new_retired[i] \in Nat
        BY <1>1, <2>3
  <2> QED BY <1>3, <2>1, <2>2
<1>7. \A p : Waiting(p)' <=> \E k \in is_hazardous : retired_[k] = p
      BY <1>3, <1>5 DEF Waiting
<1>8. \A p : p \in gone <=> \E k \in 1 .. Len(retired_) : k \notin is_hazardous /\ retired_[k] = p
      BY <1>1
<1> HIDE DEF gone
<1>9. /\ reachable \subseteq Ptrs
      /\ \A p \in Ptrs : deletions[p] \in Nat
      BY DEF Types, TypeOK
<1>10. \A p \in reachable' : deletions'[p] = 0 /\ ~Waiting(p)'
  <2> SUFFICES ASSUME NEW p \in reachable PROVE deletions'[p] = 0 /\ ~Waiting(p)'
      BY <1>4
  <2>1. ~Waiting(p) /\ deletions[p] = 0
        BY DEF Listed
  <2>2. p \notin gone /\ ~Waiting(p)'
        BY <2>1, <1>1, <1>7, <1>8 DEF Waiting
  <2> QED BY <2>1, <2>2, <1>4, <1>9
<1>11. \A p \in Ptrs \ reachable' : deletions'[p] = IF Waiting(p)' THEN 0 ELSE 1
  <2> SUFFICES ASSUME NEW p \in Ptrs \ reachable
               PROVE  deletions'[p] = IF Waiting(p)' THEN 0 ELSE 1
      BY <1>4
  <2>1. deletions[p] = IF Waiting(p) THEN 0 ELSE 1
        BY <1>4 DEF Listed
  <2>2. CASE ~Waiting(p)
    <3>1. p \notin gone /\ ~Waiting(p)'
          BY <2>2, <1>1, <1>7, <1>8 DEF Waiting
    <3> QED BY <2>1, <2>2, <3>1, <1>4
  <2>3. ASSUME NEW k \in 1 .. Len(retired_), retired_[k] = p
        PROVE  deletions'[p] = IF Waiting(p)' THEN 0 ELSE 1
    <3>1. \A i \in 1 .. Len(retired_) : retired_[i] = p => i = k
          BY <2>3 DEF Listed
    <3>2. p \in gone <=> k \notin is_hazardous
          BY <2>3, <3>1, <1>8
    <3>3. Waiting(p)' <=> k \in is_hazardous
          BY <2>3, <3>1, <1>1, <1>7
    <3>4. deletions[p] = 0
          BY <2>1, <2>3 DEF Waiting
    <3> QED BY <3>2, <3>3, <3>4, <1>4
  <2> QED BY <2>2, <2>3 DEF Waiting
<1> QED BY <1>4, <1>6, <1>10, <1>11 DEF Listed
-----------------------------------------------------------------------------
(* A reader and its slots                                                  *)

\* A slot has one last store.
LEMMA LatestUnique ==
    ASSUME Types, NEW r \in Readers, NEW j, NEW v, NEW w,
           Latest(r, j, v), Latest(r, j, w)
    PROVE  v = w
<1>1. Len(buffer[r]) \in Nat
      BY ReaderTypes
<1> QED BY <1>1 DEF Latest, Quiet

\* What one more store st of reader r does to buffer.
Stores(r, st) ==
    /\ hazard_ptrs_' = hazard_ptrs_
    /\ buffer' = [buffer EXCEPT ![r] = Append(@, st)]

\* A store is the last one to its slot, and to its slot only.
LEMMA StoreLatest ==
    ASSUME Types, NEW r \in Readers, NEW st \in Store, Stores(r, st)
    PROVE  /\ Latest(r, st.slot, st.ptr)'
           /\ \A j, v : j # st.slot /\ Latest(r, j, v) => Latest(r, j, v)'
           /\ \A j : j # st.slot /\ Quiet(r, j) => Quiet(r, j)'
           /\ (\E i \in 0 .. MAX_HAZARD_PTRS - 1 : st.slot = SlotIndex(r, i))
              /\ OwnSlots(r) => OwnSlots(r)'
<1> DEFINE n == Len(buffer[r])
<1>1. n \in Nat /\ buffer[r] \in Seq(Store)
      BY ReaderTypes
<1>2. buffer'[r] = Append(buffer[r], st) /\ hazard_ptrs_' = hazard_ptrs_
      BY DEF Stores, Types, TypeOK
<1>3. /\ Len(buffer'[r]) = n + 1
      /\ \A i \in 1 .. n : buffer'[r][i] = buffer[r][i]
      /\ buffer'[r][n + 1] = st
      BY <1>1, <1>2, AppendFacts
<1> HIDE DEF n
<1>4. \A i \in 1 .. n + 1 : i \in 1 .. n \/ i = n + 1
      BY <1>1
<1>5. Latest(r, st.slot, st.ptr)'
      BY <1>1, <1>3 DEF Latest
<1>6. ASSUME NEW j, j # st.slot, Quiet(r, j) PROVE Quiet(r, j)'
      BY <1>3, <1>4, <1>6, Zenon DEF Quiet, n
<1>7. ASSUME NEW j, NEW v, j # st.slot, Latest(r, j, v) PROVE Latest(r, j, v)'
  <2>1. CASE hazard_ptrs_[j] = v /\ Quiet(r, j)
        BY <1>2, <1>6, <1>7, <2>1 DEF Latest
  <2>2. ASSUME NEW k \in 1 .. n, buffer[r][k].slot = j, buffer[r][k].ptr = v,
               \A l \in 1 .. n : l > k => buffer[r][l].slot # j
        PROVE  Latest(r, j, v)'
    <3>1. k \in 1 .. n + 1 /\ buffer'[r][k].slot = j /\ buffer'[r][k].ptr = v
          BY <1>1, <1>3, <2>2
    <3>2. \A l \in 1 .. n + 1 : l > k => buffer'[r][l].slot # j
          BY <1>3, <1>4, <1>7, <2>2
    <3> QED BY <1>3, <3>1, <3>2 DEF Latest
  <2> QED BY <1>7, <2>1, <2>2 DEF Latest, n
<1>8. ASSUME OwnSlots(r), NEW i \in 0 .. MAX_HAZARD_PTRS - 1, st.slot = SlotIndex(r, i)
      PROVE  OwnSlots(r)'
      BY <1>3, <1>4, <1>8, Zenon DEF OwnSlots, SlotIndex, n
<1> QED BY <1>5, <1>6, <1>7, <1>8

\* A reader whose locals, buffer and slots do not change.
LEMMA OtherReader ==
    ASSUME Types, NEW q \in Readers, OwnSlots(q), OwnHandles(q),
           buffer'[q] = buffer[q], rpc'[q] = rpc[q], rslot'[q] = rslot[q], held'[q] = held[q],
           \A i \in 0 .. MAX_HAZARD_PTRS - 1 :
               hazard_ptrs_'[SlotIndex(q, i)] = hazard_ptrs_[SlotIndex(q, i)]
    PROVE  OwnSlots(q)' /\ OwnHandles(q)'
<1>1. OwnSlots(q)'
      BY DEF OwnSlots, SlotIndex
<1>2. \A j : Quiet(q, j)' <=> Quiet(q, j)
      BY DEF Quiet
<1>3. ASSUME NEW i \in 0 .. MAX_HAZARD_PTRS - 1, NEW v, Latest(q, SlotIndex(q, i), v)
      PROVE  Latest(q, SlotIndex(q, i), v)'
  <2> DEFINE j == SlotIndex(q, i)
  <2>1. SlotIndex(q, i)' = j /\ hazard_ptrs_'[j] = hazard_ptrs_[j]
        BY DEF SlotIndex
  <2> HIDE DEF j
  <2>2. Latest(q, j, v)
        BY <1>3 DEF j
  <2>3. Latest(q, j, v)'
        BY <1>2, <2>1, <2>2 DEF Latest
  <2> QED BY <2>1, <2>3 DEF j
<1>4. rslot[q] \in 0 .. MAX_HAZARD_PTRS - 1 /\ \A h \in held[q] : h.slot \in 0 .. MAX_HAZARD_PTRS - 1
      BY ReaderTypes DEF Handle
<1>5. rpc'[q] = "store" => Latest(q, SlotIndex(q, rslot[q]), Null)'
  <2>1. rpc'[q] = "store" => Latest(q, SlotIndex(q, rslot[q]), Null)
        BY DEF OwnHandles
  <2>2. PICK i \in 0 .. MAX_HAZARD_PTRS - 1 : i = rslot[q]
        BY <1>4
  <2>3. rpc'[q] = "store" => Latest(q, SlotIndex(q, i), Null)'
        BY <1>3, <2>1, <2>2
  <2>4. rslot'[q] = i
        BY <2>2
  <2> QED BY <2>3, <2>4
<1>6. \A h \in held'[q] : Latest(q, SlotIndex(q, h.slot), h.ptr)'
      BY <1>3, <1>4 DEF OwnHandles
<1>7. \A h \in held'[q] : h.published => Quiet(q, SlotIndex(q, h.slot))'
      BY <1>2 DEF OwnHandles, SlotIndex
<1>8. \A h, g \in held'[q] : h.slot = g.slot => h = g
      BY Zenon DEF OwnHandles
<1>9. OwnHandles(q)'
      BY <1>5, <1>6, <1>7, <1>8 DEF OwnHandles
<1> QED BY <1>1, <1>9

\* The store of acquire(ptr) goes to a slot that no other handle uses.
LEMMA AcquireStoreSlots ==
    ASSUME Types, Slots, NEW r \in Readers, AcquireStore(r)
    PROVE  Slots'
<1>1. PICK i \in 0 .. MAX_HAZARD_PTRS - 1, p \in Ptrs : i = rslot[r] /\ p = rptr[r]
      BY Zenon DEF AcquireStore, Types, TypeOK
<1> DEFINE st == [slot |-> SlotIndex(r, i), ptr |-> p]
           new == [slot |-> i, ptr |-> p, published |-> FALSE]
<1>2. /\ Stores(r, st)
      /\ held'[r] = held[r] \cup {new} /\ rpc'[r] = "idle"
      /\ \A q \in Readers : q # r => /\ rpc'[q] = rpc[q] /\ rslot'[q] = rslot[q]
                                     /\ held'[q] = held[q] /\ buffer'[q] = buffer[q]
  <2>1. Stores(r, st)
        BY <1>1 DEF AcquireStore, Stores
  <2>2. held'[r] = held[r] \cup {new} /\ rpc'[r] = "idle"
        BY <1>1 DEF AcquireStore, Types, TypeOK
  <2>3. \A q \in Readers : q # r => /\ rpc'[q] = rpc[q] /\ rslot'[q] = rslot[q]
                                    /\ held'[q] = held[q] /\ buffer'[q] = buffer[q]
        BY Zenon DEF AcquireStore, Types, TypeOK
  <2> QED BY <2>1, <2>2, <2>3
<1>3. \A q \in Readers : q # r => OwnSlots(q)' /\ OwnHandles(q)'
      BY <1>2, OtherReader DEF Slots, Stores
<1>4. st \in Store /\ st.slot = SlotIndex(r, i) /\ st.ptr = p
      BY SlotInIndex DEF Store
<1>5. OwnSlots(r) /\ OwnHandles(r)
      BY Zenon DEF Slots
<1> HIDE DEF st
<1>6. OwnSlots(r)'
      BY <1>2, <1>4, <1>5, StoreLatest, Zenon
<1>7. Latest(r, SlotIndex(r, i), Null)
      BY <1>1, <1>5 DEF AcquireStore, OwnHandles
<1>8. \A h \in held[r] : h.slot \in 0 .. MAX_HAZARD_PTRS - 1 /\ h.ptr \in Ptrs
      BY ReaderTypes DEF Handle
<1>9. \A h \in held[r] : h.slot # i
  <2> SUFFICES ASSUME NEW h \in held[r], h.slot = i PROVE FALSE
      OBVIOUS
  <2>1. Latest(r, SlotIndex(r, i), h.ptr)
        BY <1>5 DEF OwnHandles
  <2>2. h.ptr = Null
        BY <1>7, <2>1, LatestUnique
  <2> QED BY <1>8, <2>2, NullAssumption, Zenon
<1>10. \A h \in held[r] : SlotIndex(r, h.slot) # st.slot
      BY <1>4, <1>8, <1>9, SlotInjective
<1>11. \A h \in held[r] : Latest(r, SlotIndex(r, h.slot), h.ptr)'
  <2> SUFFICES ASSUME NEW h \in held[r] PROVE Latest(r, SlotIndex(r, h.slot), h.ptr)'
      BY Zenon
  <2>1. Latest(r, SlotIndex(r, h.slot), h.ptr)
        BY <1>5, Zenon DEF OwnHandles
  <2> QED BY <1>2, <1>4, <1>10, <2>1, StoreLatest
<1>12. \A h \in held[r] : h.published => Quiet(r, SlotIndex(r, h.slot))'
  <2> SUFFICES ASSUME NEW h \in held[r], h.published PROVE Quiet(r, SlotIndex(r, h.slot))'
      BY Zenon
  <2>1. Quiet(r, SlotIndex(r, h.slot))
        BY <1>5 DEF OwnHandles
  <2> QED BY <1>2, <1>4, <1>10, <2>1, StoreLatest
<1>13. Latest(r, SlotIndex(r, i), p)'
  <2>1. Latest(r, st.slot, st.ptr)'
        BY <1>2, <1>4, StoreLatest, Zenon
  <2> QED BY <1>4, <2>1, Zenon
<1>14. \A h \in held'[r] : h \in held[r] \/ (h.slot = i /\ h.ptr = p /\ ~h.published /\ h = new)
      BY <1>2
<1> HIDE DEF new
<1>15. \A h \in held'[r] : Latest(r, SlotIndex(r, h.slot), h.ptr)'
      BY <1>11, <1>13, <1>14
<1>16. \A h, g \in held'[r] : h.slot = g.slot => h = g
      BY <1>5, <1>9, <1>14 DEF OwnHandles
<1>17. \A h \in held'[r] : h.published => Quiet(r, SlotIndex(r, h.slot))'
      BY <1>12, <1>14, Zenon
<1>18. OwnHandles(r)'
      BY <1>2, <1>15, <1>16, <1>17 DEF OwnHandles
<1> QED BY <1>3, <1>6, <1>18 DEF Slots
\* release(slot) clears the slot of the handle it gives up and no other.
LEMMA ReleaseSlots ==
    ASSUME Types, Slots, NEW r \in Readers, NEW ptr \in Ptrs, Release(r, ptr)
    PROVE  Slots'
<1>1. PICK h \in held[r] :
         /\ held' = [held EXCEPT ![r] = @ \ {h}]
         /\ buffer' = [buffer EXCEPT ![r] =
                         Append(@, [slot |-> SlotIndex(r, h.slot), ptr |-> Null])]
      BY Zenon DEF Release
<1> DEFINE st == [slot |-> SlotIndex(r, h.slot), ptr |-> Null]
<1>2. \A g \in held[r] : g.slot \in 0 .. MAX_HAZARD_PTRS - 1 /\ g.ptr \in Ptrs
      BY ReaderTypes DEF Handle
<1>3. /\ Stores(r, st)
      /\ held'[r] = held[r] \ {h} /\ rpc'[r] = "idle" /\ rpc' = rpc /\ rslot' = rslot
      /\ \A q \in Readers : q # r => held'[q] = held[q] /\ buffer'[q] = buffer[q]
      BY <1>1, Zenon DEF Release, Stores, readerVars, Types, TypeOK
<1>4. \A q \in Readers : q # r => OwnSlots(q)' /\ OwnHandles(q)'
      BY <1>3, OtherReader DEF Slots, Stores
<1>5. st \in Store /\ st.slot = SlotIndex(r, h.slot)
      BY <1>2, SlotInIndex, Zenon DEF Store
<1>6. OwnSlots(r) /\ OwnHandles(r)
      BY Zenon DEF Slots
<1> HIDE DEF st
<1>7. OwnSlots(r)'
      BY <1>2, <1>3, <1>5, <1>6, StoreLatest
<1>8. \A g \in held'[r] : g \in held[r] /\ SlotIndex(r, g.slot) # st.slot
  <2>1. \A g \in held'[r] : g \in held[r] /\ g.slot # h.slot
        BY <1>3, <1>6, Zenon DEF OwnHandles
  <2> SUFFICES ASSUME NEW g \in held'[r], SlotIndex(r, g.slot) = SlotIndex(r, h.slot) PROVE FALSE
      BY <1>5, <2>1
  <2>2. /\ g.slot \in 0 .. MAX_HAZARD_PTRS - 1 /\ h.slot \in 0 .. MAX_HAZARD_PTRS - 1
        /\ g.slot # h.slot
        BY <1>2, <2>1
  <2>3. g.slot = h.slot
        BY <2>2, SlotInjective
  <2> QED BY <2>2, <2>3, Zenon
<1>9. \A g \in held'[r] : Latest(r, SlotIndex(r, g.slot), g.ptr)'
  <2> SUFFICES ASSUME NEW g \in held'[r] PROVE Latest(r, SlotIndex(r, g.slot), g.ptr)'
      BY Zenon
  <2>1. Latest(r, SlotIndex(r, g.slot), g.ptr)
        BY <1>6, <1>8, Zenon DEF OwnHandles
  <2> QED BY <1>3, <1>5, <1>8, <2>1, StoreLatest
<1>10. \A g \in held'[r] : g.published => Quiet(r, SlotIndex(r, g.slot))'
  <2> SUFFICES ASSUME NEW g \in held'[r], g.published PROVE Quiet(r, SlotIndex(r, g.slot))'
      BY Zenon
  <2>1. Quiet(r, SlotIndex(r, g.slot))
        BY <1>6, <1>8, Zenon DEF OwnHandles
  <2> QED BY <1>3, <1>5, <1>8, <2>1, StoreLatest, Zenon
<1>11. \A g, f \in held'[r] : g.slot = f.slot => g = f
      BY <1>6, <1>8, Zenon DEF OwnHandles
<1>12. OwnHandles(r)'
      BY <1>3, <1>9, <1>10, <1>11 DEF OwnHandles
<1> QED BY <1>4, <1>7, <1>12, Zenon DEF Slots

\* The handle of reader r once its oldest store has reached memory.
Published(r, h) ==
    /\ SlotIndex(r, h.slot) = buffer[r][1].slot /\ h.ptr = buffer[r][1].ptr
    /\ h.ptr \in reachable
    /\ \A k \in 2 .. Len(buffer[r]) : buffer[r][k].slot # buffer[r][1].slot

\* What Flush does, by position.
LEMMA FlushEffect ==
    ASSUME Types, NEW r \in Readers, Flush(r)
    PROVE  /\ Len(buffer[r]) \in Nat \ {0} /\ Len(buffer'[r]) = Len(buffer[r]) - 1
           /\ \A k \in 1 .. Len(buffer[r]) - 1 : buffer'[r][k] = buffer[r][k + 1]
           /\ hazard_ptrs_' = [hazard_ptrs_ EXCEPT ![buffer[r][1].slot] = buffer[r][1].ptr]
           /\ buffer[r][1] \in Store
           /\ \A h \in held'[r] : \E g \in held[r] :
                 /\ h.slot = g.slot /\ h.ptr = g.ptr
                 /\ h = IF Published(r, g) THEN [g EXCEPT !.published = TRUE] ELSE g
                 /\ h.published => g.published \/ Published(r, g)
           /\ \A q \in Readers : q # r => held'[q] = held[q] /\ buffer'[q] = buffer[q]
           /\ UNCHANGED <<retired_, rpc, rslot, spc, si, sj, is_hazardous, reachable, deletions>>
<1>1. buffer[r] # <<>> /\ buffer[r] \in Seq(Store)
      BY ReaderTypes DEF Flush
<1>2. /\ Head(buffer[r]) = buffer[r][1] /\ buffer[r][1] \in Store
      /\ Len(buffer[r]) \in Nat \ {0} /\ Len(Tail(buffer[r])) = Len(buffer[r]) - 1
      /\ \A k \in 1 .. Len(buffer[r]) - 1 : Tail(buffer[r])[k] = buffer[r][k + 1]
      BY <1>1, TailFacts
<1>3. /\ buffer'[r] = Tail(buffer[r])
      /\ \A q \in Readers : q # r => held'[q] = held[q] /\ buffer'[q] = buffer[q]
      BY DEF Flush, Types, TypeOK
<1>4. hazard_ptrs_' = [hazard_ptrs_ EXCEPT ![buffer[r][1].slot] = buffer[r][1].ptr]
      BY <1>2, Zenon DEF Flush
<1>5. held'[r] = {IF Published(r, h) THEN [h EXCEPT !.published = TRUE] ELSE h : h \in held[r]}
  <2>1. \A h : /\ SlotIndex(r, h.slot) = Head(buffer[r]).slot /\ h.ptr = Head(buffer[r]).ptr
               /\ Head(buffer[r]).ptr \in reachable
               /\ \A k \in 2 .. Len(buffer[r]) : buffer[r][k].slot # Head(buffer[r]).slot
               <=> Published(r, h)
        BY <1>2 DEF Published
  <2> QED BY <2>1 DEF Flush, Types, TypeOK
<1>6. \A g \in held[r] : g \in Handle
      BY ReaderTypes
<1>7. \A h \in held'[r] : \E g \in held[r] :
                 /\ h.slot = g.slot /\ h.ptr = g.ptr
                 /\ h = IF Published(r, g) THEN [g EXCEPT !.published = TRUE] ELSE g
                 /\ h.published => g.published \/ Published(r, g)
      BY <1>5, <1>6 DEF Handle
<1>8. UNCHANGED <<retired_, rpc, rslot, spc, si, sj, is_hazardous, reachable, deletions>>
      BY Zenon DEF Flush, readerVars, scanVars
<1> QED BY <1>2, <1>3, <1>4, <1>7, <1>8
\* A store that reaches memory stays its reader's last store to the slot.
LEMMA FlushLatest ==
    ASSUME Types, NEW r \in Readers, Flush(r), NEW j \in Index, NEW v, Latest(r, j, v)
    PROVE  Latest(r, j, v)'
<1> DEFINE n == Len(buffer[r])
<1>1. /\ n \in Nat \ {0} /\ Len(buffer'[r]) = n - 1
      /\ \A k \in 1 .. n - 1 : buffer'[r][k] = buffer[r][k + 1]
      /\ hazard_ptrs_' = [hazard_ptrs_ EXCEPT ![buffer[r][1].slot] = buffer[r][1].ptr]
      BY FlushEffect, Zenon
<1>2. hazard_ptrs_'[j] = IF buffer[r][1].slot = j THEN buffer[r][1].ptr ELSE hazard_ptrs_[j]
      BY <1>1, Zenon DEF Types, TypeOK
<1>3. \A k \in 1 .. n - 1 : k + 1 \in 1 .. n
      BY <1>1, ShiftedPositions, Zenon
<1>4. CASE hazard_ptrs_[j] = v /\ Quiet(r, j)
  <2>1. buffer[r][1].slot # j
    <3>1. 1 \in 1 .. Len(buffer[r])
          BY <1>1
    <3> QED BY <1>4, <3>1, Zenon DEF Quiet
  <2>2. Quiet(r, j)'
        BY <1>1, <1>3, <1>4, Zenon DEF Quiet
  <2> QED BY <1>2, <1>4, <2>1, <2>2 DEF Latest
<1> HIDE DEF n
<1>5. ASSUME NEW k \in 1 .. n, buffer[r][k].slot = j, buffer[r][k].ptr = v,
             \A l \in 1 .. n : l > k => buffer[r][l].slot # j
      PROVE  Latest(r, j, v)'
  <2>1. CASE k = 1
    <3>1. hazard_ptrs_'[j] = v
          BY <1>2, <1>5, <2>1
    <3>2. Quiet(r, j)'
      <4>1. \A l \in 1 .. n - 1 : l + 1 \in 1 .. n /\ l + 1 > k
            BY <1>1, <2>1
      <4> QED BY <1>1, <1>5, <4>1, Zenon DEF Quiet
    <3> QED BY <3>1, <3>2 DEF Latest
  <2>2. CASE k # 1
    <3>0. n \in Nat
          BY <1>1
    <3>1. k - 1 \in 1 .. n - 1 /\ (k - 1) + 1 = k
          BY <2>2, <3>0
    <3>2. buffer'[r][k - 1] = buffer[r][k]
          BY <1>1, <3>1
    <3>3. \A l \in 1 .. n - 1 : l > k - 1 => l + 1 > k /\ l + 1 \in 1 .. n
          BY <1>1
    <3>4. \A l \in 1 .. n - 1 : l > k - 1 => buffer'[r][l].slot # j
          BY <1>1, <1>5, <3>3, Zenon
    <3> QED BY <1>1, <1>5, <3>1, <3>2, <3>4 DEF Latest
  <2> QED BY <2>1, <2>2
<1> QED BY <1>4, <1>5 DEF Latest, n

\* A store on its way to memory disturbs no slot of another thread id.
LEMMA FlushSlots ==
    ASSUME DistinctThreadIds, Types, Slots, NEW r \in Readers, Flush(r)
    PROVE  Slots'
<1> DEFINE n == Len(buffer[r])
<1>1. /\ n \in Nat \ {0} /\ Len(buffer'[r]) = n - 1
      /\ \A k \in 1 .. n - 1 : buffer'[r][k] = buffer[r][k + 1]
      /\ hazard_ptrs_' = [hazard_ptrs_ EXCEPT ![buffer[r][1].slot] = buffer[r][1].ptr]
      /\ UNCHANGED <<rpc, rslot>>
      BY FlushEffect
<1>2. /\ \A h \in held'[r] : \E g \in held[r] :
            /\ h.slot = g.slot /\ h.ptr = g.ptr
            /\ h = IF Published(r, g) THEN [g EXCEPT !.published = TRUE] ELSE g
            /\ h.published => g.published \/ Published(r, g)
      /\ \A q \in Readers : q # r => held'[q] = held[q] /\ buffer'[q] = buffer[q]
      BY FlushEffect
<1>3. OwnSlots(r) /\ OwnHandles(r)
      BY DEF Slots
<1>4. ASSUME NEW q \in Readers, q # r PROVE OwnSlots(q)' /\ OwnHandles(q)'
  <2>0. 1 \in 1 .. Len(buffer[r])
        BY <1>1
  <2>1. PICK i \in 0 .. MAX_HAZARD_PTRS - 1 : buffer[r][1].slot = SlotIndex(r, i)
        BY <1>3, <2>0 DEF OwnSlots
  <2>2. \A k \in 0 .. MAX_HAZARD_PTRS - 1 : SlotIndex(q, k) # SlotIndex(r, i)
        BY <1>4, SlotInjective DEF DistinctThreadIds
  <2>3. \A k \in 0 .. MAX_HAZARD_PTRS - 1 :
           hazard_ptrs_'[SlotIndex(q, k)] = hazard_ptrs_[SlotIndex(q, k)]
        BY <1>1, <2>1, <2>2, SlotInIndex DEF Types, TypeOK
  <2>4. OwnSlots(q) /\ OwnHandles(q)
        BY DEF Slots
  <2>5. /\ buffer'[q] = buffer[q] /\ rpc'[q] = rpc[q] /\ rslot'[q] = rslot[q]
        /\ held'[q] = held[q]
        BY <1>1, <1>2, <1>4, Zenon
  <2> QED BY <2>3, <2>4, <2>5, OtherReader
<1>5. \A k \in 1 .. n - 1 : k + 1 \in 1 .. n /\ k + 1 \in 2 .. n
      BY <1>1, ShiftedPositions
<1>6. OwnSlots(r)'
  <2>1. \A k \in 1 .. n : \E i \in 0 .. MAX_HAZARD_PTRS - 1 : buffer[r][k].slot = SlotIndex(r, i)
        BY <1>3 DEF OwnSlots
  <2>2. \A k \in 1 .. n - 1 :
           \E i \in 0 .. MAX_HAZARD_PTRS - 1 : buffer'[r][k].slot = SlotIndex(r, i)
        BY <1>1, <1>5, <2>1, Zenon
  <2> QED BY <1>1, <2>2 DEF OwnSlots, SlotIndex
<1>7. ASSUME NEW i \in 0 .. MAX_HAZARD_PTRS - 1, NEW v, Latest(r, SlotIndex(r, i), v)
      PROVE  Latest(r, SlotIndex(r, i), v)'
      BY <1>7, SlotInIndex, FlushLatest
<1>8. rslot[r] \in 0 .. MAX_HAZARD_PTRS - 1 /\ \A h \in held[r] : h.slot \in 0 .. MAX_HAZARD_PTRS - 1
      BY ReaderTypes DEF Handle
<1>9. rpc'[r] = "store" => Latest(r, SlotIndex(r, rslot[r]), Null)'
  <2>1. PICK i \in 0 .. MAX_HAZARD_PTRS - 1 : i = rslot[r]
        BY <1>8
  <2>2. rpc'[r] = "store" => Latest(r, SlotIndex(r, i), Null)'
        BY <1>1, <1>3, <1>7, <2>1 DEF OwnHandles
  <2>3. rslot'[r] = i
        BY <1>1, <2>1
  <2> QED BY <2>2, <2>3
<1>10. \A h \in held'[r] : Latest(r, SlotIndex(r, h.slot), h.ptr)'
  <2>1. \A g \in held[r] : Latest(r, SlotIndex(r, g.slot), g.ptr)'
        BY <1>3, <1>7, <1>8 DEF OwnHandles
  <2> QED BY <1>2, <2>1
<1>11. \A h, f \in held'[r] : h.slot = f.slot => h = f
  <2> SUFFICES ASSUME NEW h \in held'[r], NEW f \in held'[r], h.slot = f.slot PROVE h = f
      OBVIOUS
  <2>1. PICK g \in held[r] :
           h.slot = g.slot /\ h = IF Published(r, g) THEN [g EXCEPT !.published = TRUE] ELSE g
        BY <1>2, Zenon
  <2>2. PICK e \in held[r] :
           f.slot = e.slot /\ f = IF Published(r, e) THEN [e EXCEPT !.published = TRUE] ELSE e
        BY <1>2, Zenon
  <2>3. g = e
        BY <1>3, <2>1, <2>2, Zenon DEF OwnHandles
  <2> QED BY <2>1, <2>2, <2>3, Zenon
<1>12. \A h \in held'[r] : h.published => Quiet(r, SlotIndex(r, h.slot))'
  <2> SUFFICES ASSUME NEW h \in held'[r], h.published, NEW g \in held[r], h.slot = g.slot,
                      g.published \/ Published(r, g)
               PROVE  Quiet(r, SlotIndex(r, h.slot))'
      BY <1>2
  <2>1. PICK j \in Index : j = SlotIndex(r, h.slot) /\ j = SlotIndex(r, g.slot)
        BY <1>8, SlotInIndex
  <2>2. \A k \in 2 .. n : buffer[r][k].slot # j
    <3>1. CASE g.published
      <4>1. Quiet(r, j)
            BY <1>3, <2>1, <3>1, Zenon DEF OwnHandles
      <4> QED BY <1>1, <4>1 DEF Quiet
    <3>2. CASE Published(r, g)
          BY <2>1, <3>2 DEF Published
    <3> QED BY <3>1, <3>2
  <2>3. Quiet(r, j)'
        BY <1>1, <1>5, <2>2 DEF Quiet
  <2>4. SlotIndex(r, h.slot)' = j
        BY <2>1, Zenon DEF SlotIndex
  <2> QED BY <2>3, <2>4
<1>13. OwnHandles(r)'
      BY <1>9, <1>10, <1>11, <1>12, Zenon DEF OwnHandles
<1> QED BY <1>4, <1>6, <1>13 DEF Slots
\* The reclaiming thread writes to no slot.
LEMMA ReclaimerSlots ==
    ASSUME Types, Slots, UNCHANGED <<hazard_ptrs_, buffer, rpc, rslot, held>>
    PROVE  Slots'
BY OtherReader, Zenon DEF Slots

-----------------------------------------------------------------------------
(* The scan and the handles                                                *)

\* A reader's step publishes a handle only to a reachable object, which is
\* neither listed nor deleted.
LEMMA HandlesProtected ==
    ASSUME ListInv, Scanned, PublishedProtects,
           UNCHANGED <<retired_, spc, si, sj, is_hazardous, reachable, deletions>>,
           held' \in [Readers -> SUBSET Handle],
           \A r \in Readers : \A h \in held'[r] : h.published =>
               \/ h.ptr \in reachable
               \/ \E g \in held[r] : g.published /\ g.slot = h.slot /\ g.ptr = h.ptr
    PROVE  Scanned' /\ PublishedProtects'
<1>1. ASSUME NEW r \in Readers, NEW h \in held'[r], h.published
      PROVE  /\ deletions'[h.ptr] = 0
             /\ spc = "scan" =>
                  \A i \in 1 .. Len(retired_) : retired_[i] = h.ptr =>
                      /\ i < si => i \in is_hazardous
                      /\ i = si => sj <= SlotIndex(r, h.slot)
  <2>1. CASE h.ptr \in reachable
    <3>1. deletions[h.ptr] = 0 /\ ~Waiting(h.ptr)
          BY <2>1, Zenon DEF ListInv, Listed
    <3> QED BY <3>1 DEF Waiting
  <2>2. ASSUME NEW g \in held[r], g.published, g.slot = h.slot, g.ptr = h.ptr
        PROVE  /\ deletions'[h.ptr] = 0
               /\ spc = "scan" =>
                    \A i \in 1 .. Len(retired_) : retired_[i] = h.ptr =>
                        /\ i < si => i \in is_hazardous
                        /\ i = si => sj <= SlotIndex(r, h.slot)
    <3>1. deletions[g.ptr] = 0
          BY <2>2 DEF PublishedProtects
    <3>2. spc = "scan" =>
             \A i \in 1 .. Len(retired_) : retired_[i] = g.ptr =>
                 /\ i < si => i \in is_hazardous
                 /\ i = si => sj <= SlotIndex(r, g.slot)
          BY <2>2 DEF Scanned
    <3> QED BY <2>2, <3>1, <3>2
  <2> QED BY <1>1, <2>1, <2>2
<1> QED BY <1>1, Zenon DEF Scanned, PublishedProtects, SlotIndex

\* A scan starts before the first slot.
LEMMA ScanStarts ==
    ASSUME Types, PublishedProtects, spc = "idle", UNCHANGED <<si, sj, held, deletions>>
    PROVE  Scanned' /\ PublishedProtects'
<1>1. si' = 1 /\ sj' = 0
      BY DEF Types
<1>2. ASSUME NEW r \in Readers, NEW h \in held[r] PROVE sj' <= SlotIndex(r, h.slot)
  <2>1. h.slot \in 0 .. MAX_HAZARD_PTRS - 1
        BY ReaderTypes DEF Handle
  <2>2. SlotIndex(r, h.slot) \in Index
        BY <2>1, SlotInIndex
  <2>3. num_threads_ * MAX_HAZARD_PTRS \in Nat
        BY ThreadIdAssumption, SizesAssumption, SMT
  <2> QED BY <1>1, <2>2, <2>3 DEF Index
<1>3. Scanned'
      BY <1>1, <1>2 DEF Scanned, SlotIndex
<1> QED BY <1>3 DEF PublishedProtects

\* The scan does not pass by the slot of a published handle without finding
\* the object in it.
LEMMA ScanLoadScanned ==
    ASSUME Types, Slots, Scanned, ScanLoad
    PROVE  Scanned'
<1> SUFFICES ASSUME NEW r \in Readers, NEW h \in held[r], h.published,
                    NEW i \in 1 .. Len(retired_), retired_[i] = h.ptr
             PROVE  /\ i < si' => i \in is_hazardous'
                    /\ i = si' => sj' <= SlotIndex(r, h.slot)
    BY DEF ScanLoad, Scanned, SlotIndex
<1> DEFINE j == SlotIndex(r, h.slot)
           found == hazard_ptrs_[sj] = retired_[si]
           last == sj + 1 = num_threads_ * MAX_HAZARD_PTRS
<1>1. /\ is_hazardous' = IF found THEN is_hazardous \cup {si} ELSE is_hazardous
      /\ si' = IF found \/ last THEN si + 1 ELSE si
      /\ sj' = IF found \/ last THEN 0 ELSE sj + 1
      /\ spc = "scan"
      BY Zenon DEF ScanLoad
<1>2. /\ i < si => i \in is_hazardous
      /\ i = si => sj <= j
      BY <1>1 DEF Scanned
<1>3. h.slot \in 0 .. MAX_HAZARD_PTRS - 1
      BY ReaderTypes DEF Handle
<1>4. j \in Index
      BY <1>3, SlotInIndex
<1>5. num_threads_ * MAX_HAZARD_PTRS \in Nat
      BY ThreadIdAssumption, SizesAssumption, SMT
<1>6. j \in Nat /\ j < num_threads_ * MAX_HAZARD_PTRS
  <2> HIDE DEF j
  <2> QED BY <1>4, <1>5 DEF Index
<1>7. si \in Nat /\ sj \in Nat /\ i \in Nat
      BY <1>5, SeqFacts DEF Types, TypeOK, Index
<1>8. hazard_ptrs_[j] = h.ptr
  <2>1. Latest(r, j, h.ptr) /\ Quiet(r, j)
        BY DEF Slots, OwnHandles
  <2> HIDE DEF j
  <2> QED BY <2>1, Zenon DEF Latest, Quiet
<1>9. i = si /\ ~found => sj # j
      BY <1>8
<1> HIDE DEF j, found, last
<1>10. i = si /\ ~found => sj < j /\ ~last
      BY <1>2, <1>5, <1>6, <1>7, <1>9 DEF last
<1>11. CASE found
  <2>1. si' = si + 1 /\ sj' = 0 /\ is_hazardous' = is_hazardous \cup {si}
        BY <1>1, <1>11, Zenon
  <2> QED BY <1>2, <1>6, <1>7, <2>1 DEF j
<1>12. CASE ~found /\ last
  <2>1. si' = si + 1 /\ sj' = 0 /\ is_hazardous' = is_hazardous
        BY <1>1, <1>12
  <2> QED BY <1>2, <1>6, <1>7, <1>10, <1>12, <2>1 DEF j
<1>13. CASE ~found /\ ~last
  <2>1. si' = si /\ sj' = sj + 1 /\ is_hazardous' = is_hazardous
        BY <1>1, <1>13
  <2> QED BY <1>2, <1>6, <1>7, <1>10, <1>13, <2>1 DEF j
<1> QED BY <1>11, <1>12, <1>13, Zenon

\* What the second loop deletes is the object of no published handle.
LEMMA ReclaimProtects ==
    ASSUME Types, Scanned, PublishedProtects, Reclaim
    PROVE  Scanned' /\ PublishedProtects'
<1> DEFINE gone == {retired_[i] : i \in DOMAIN retired_ \ is_hazardous}
<1>1. /\ deletions' = [p \in Ptrs |-> deletions[p] + IF p \in gone THEN 1 ELSE 0]
      /\ held' = held /\ spc' = "idle" /\ spc = "scan" /\ si > Len(retired_)
      BY DEF Reclaim, EndScan
<1>2. retired_ \in Seq(Ptrs) /\ DOMAIN retired_ = 1 .. Len(retired_) /\ Len(retired_) \in Nat
      BY SeqFacts DEF Types, TypeOK
<1>3. si \in Nat
      BY DEF Types, TypeOK
<1>4. ASSUME NEW r \in Readers, NEW h \in held[r], h.published
      PROVE  deletions'[h.ptr] = 0
  <2>1. h.ptr \in Ptrs
        BY ReaderTypes DEF Handle
  <2>2. deletions[h.ptr] = 0
        BY <1>4 DEF PublishedProtects
  <2>3. \A i \in 1 .. Len(retired_) : retired_[i] = h.ptr => i \in is_hazardous
        BY <1>1, <1>2, <1>3, <1>4 DEF Scanned
  <2>4. h.ptr \notin gone
        BY <1>2, <2>3
  <2>5. deletions'[h.ptr] = deletions[h.ptr] + 0
        BY <1>1, <2>1, <2>4
  <2> QED BY <2>2, <2>5
<1>5. PublishedProtects'
      BY <1>1, <1>4, Zenon DEF PublishedProtects
<1>6. Scanned'
      BY <1>1 DEF Scanned
<1> QED BY <1>5, <1>6
-----------------------------------------------------------------------------
(* What needs the library's theorems: the last store, counting             *)

Sets == INSTANCE FiniteSetTheorems

\* A nonempty set of positions has a last one.
LEMMA LastPosition ==
    ASSUME NEW n \in Nat, NEW T \in SUBSET (1 .. n), T # {}
    PROVE  \E k \in T : \A l \in T : l <= k
<1> DEFINE D == {d \in Nat : n - d \in T}
<1>1. PICK x \in T : TRUE
      BY Zenon
<1>2. n - x \in Nat /\ n - (n - x) = x
      BY <1>1
<1>3. D \in SUBSET Nat /\ D # {}
      BY <1>1, <1>2
<1>4. PICK d \in D : \A e \in D : ~(<<e, d>> \in Sets!OpToRel(<, Nat))
  <2> HIDE DEF D
  <2> QED BY <1>3, Sets!WFMin, Sets!NatLessThanWellFounded, Zenon
<1>5. \A e \in D : ~(e < d)
  <2> HIDE DEF D
  <2> QED BY <1>3, <1>4, Zenon DEF Sets!OpToRel
<1>6. \A l \in T : n - l \in Nat /\ n - (n - l) = l
      OBVIOUS
<1>7. \A l \in T : l <= n - d
      BY <1>5, <1>6
<1> QED BY <1>4, <1>7, Zenon
\* A reader's load of a slot returns what it stored there last.
LEMMA SeesLatest ==
    ASSUME Types, NEW r \in Readers, NEW j
    PROVE  Latest(r, j, Sees(r, j))
<1> DEFINE own == {k \in DOMAIN buffer[r] : buffer[r][k].slot = j}
           last == CHOOSE k \in own : \A l \in own : l <= k
<1>1. Len(buffer[r]) \in Nat /\ DOMAIN buffer[r] = 1 .. Len(buffer[r])
      BY ReaderTypes
<1>2. CASE own = {}
  <2>1. Sees(r, j) = hazard_ptrs_[j] /\ Quiet(r, j)
        BY <1>1, <1>2, Zenon DEF Sees, Quiet
  <2> QED BY <2>1, Zenon DEF Latest
<1>3. CASE own # {}
  <2>1. own \in SUBSET (1 .. Len(buffer[r]))
        BY <1>1
  <2>2. \E k \in own : \A l \in own : l <= k
    <3> HIDE DEF own
    <3> QED BY <1>1, <1>3, <2>1, LastPosition, Zenon
  <2>3. last \in own /\ \A l \in own : l <= last
    <3> HIDE DEF own
    <3> QED BY <2>2
  <2>4. Sees(r, j) = buffer[r][last].ptr
        BY <1>3 DEF Sees
  <2> HIDE DEF last
  <2>5. /\ last \in 1 .. Len(buffer[r]) /\ buffer[r][last].slot = j
        /\ \A l \in 1 .. Len(buffer[r]) : l > last => buffer[r][l].slot # j
    <3>1. last \in 1 .. Len(buffer[r]) /\ buffer[r][last].slot = j
          BY <1>1, <2>3, Zenon
    <3>2. ASSUME NEW l \in 1 .. Len(buffer[r]), l > last, buffer[r][l].slot = j PROVE FALSE
      <4>1. l \in own
            BY <1>1, <3>2, Zenon
      <4>2. l <= last
            BY <2>3, <4>1
      <4> HIDE DEF own
      <4> QED BY <1>1, <3>1, <3>2, <4>2
    <3> QED BY <3>1, <3>2
  <2> QED BY <2>4, <2>5, Zenon DEF Latest
<1> QED BY <1>2, <1>3, Zenon

\* get_free_slot answers with a slot that the reader sees empty.
LEMMA AcquireFindSlots ==
    ASSUME Types, Slots, NEW r \in Readers, NEW ptr \in Ptrs, AcquireFind(r, ptr)
    PROVE  Slots'
<1>1. /\ buffer' = buffer /\ held' = held /\ hazard_ptrs_' = hazard_ptrs_
      /\ \A q \in Readers : q # r => rpc'[q] = rpc[q] /\ rslot'[q] = rslot[q]
      BY Zenon DEF AcquireFind, Types, TypeOK
<1>2. \A q \in Readers : q # r => OwnSlots(q)' /\ OwnHandles(q)'
      BY <1>1, OtherReader, Zenon DEF Slots
<1>3. PICK i \in FreeSlots(r) : rslot' = [rslot EXCEPT ![r] = i]
      BY Zenon DEF AcquireFind
<1>4. /\ rslot'[r] = i
      /\ Sees(r, SlotIndex(r, i)) = Null
      BY <1>3 DEF FreeSlots, Types, TypeOK
<1>5. Latest(r, SlotIndex(r, i), Null)
      BY <1>4, SeesLatest
<1>6. Latest(r, SlotIndex(r, i), Null)'
      BY <1>1, <1>5 DEF Latest, Quiet, SlotIndex
<1>7. rpc'[r] = "store" => Latest(r, SlotIndex(r, rslot[r]), Null)'
      BY <1>4, <1>6
<1>8. OwnSlots(r) /\ OwnHandles(r)
      BY Zenon DEF Slots
<1>9. OwnSlots(r)'
      BY <1>1, <1>8, Zenon DEF OwnSlots, SlotIndex
<1>10. OwnHandles(r)'
  <2>1. \A j : Quiet(r, j) => Quiet(r, j)'
        BY <1>1, Zenon DEF Quiet
  <2>2. \A j, v : Latest(r, j, v) => Latest(r, j, v)'
        BY <1>1, <2>1, Zenon DEF Latest
  <2>3. \A h \in held'[r] : Latest(r, SlotIndex(r, h.slot), h.ptr)'
        BY <1>1, <1>8, <2>2, Zenon DEF OwnHandles
  <2>4. \A h \in held'[r] : h.published => Quiet(r, SlotIndex(r, h.slot))'
        BY <1>1, <1>8, <2>1, Zenon DEF OwnHandles
  <2>5. \A h, g \in held'[r] : h.slot = g.slot => h = g
        BY <1>1, <1>8, Zenon DEF OwnHandles
  <2> QED BY <1>7, <2>3, <2>4, <2>5, Zenon DEF OwnHandles
<1> QED BY <1>2, <1>9, <1>10, Zenon DEF Slots

\* In a list without duplicates an object is counted once, or not at all; the
\* theorems are the library's, whose Cardinality is that of FiniteSets.
LEMMA CountInList ==
    ASSUME Types, Listed, NEW p
    PROVE  Cardinality({i \in DOMAIN retired_ : retired_[i] = p}) = IF Waiting(p) THEN 1 ELSE 0
<1> DEFINE S == {i \in DOMAIN retired_ : retired_[i] = p}
<1>1. DOMAIN retired_ = 1 .. Len(retired_)
      BY SeqFacts DEF Types, TypeOK
<1>2. Sets!Cardinality(S) = Cardinality(S)
      BY DEF Sets!Cardinality, Cardinality
<1>3. CASE ~Waiting(p)
  <2>1. S = {}
        BY <1>1, <1>3 DEF Waiting
  <2>2. Sets!Cardinality({}) = 0
        BY Sets!FS_EmptySet
  <2> QED BY <1>2, <1>3, <2>1, <2>2
<1>4. ASSUME NEW k \in 1 .. Len(retired_), retired_[k] = p PROVE Cardinality(S) = 1
  <2>1. S = {k}
        BY <1>1, <1>4 DEF Listed
  <2>2. Sets!Cardinality({k}) = 1
        BY Sets!FS_Singleton, Zenon
  <2> QED BY <1>2, <2>1, <2>2, Zenon
<1> QED BY <1>3, <1>4, Zenon DEF Waiting

\* The destructor deletes what is listed, and each object once.
LEMMA DestroyListInv ==
    ASSUME ListInv, Destroy
    PROVE  ListInv'
<1>1. Types /\ Listed
      BY DEF ListInv
<1>2. \A p \in Ptrs : deletions'[p] = deletions[p] + IF Waiting(p) THEN 1 ELSE 0
  <2>1. deletions' = [p \in Ptrs |->
            deletions[p] + Cardinality({i \in DOMAIN retired_ : retired_[i] = p})]
        BY DEF Destroy
  <2> QED BY <1>1, <2>1, CountInList
<1>3. /\ spc' = "destroyed" /\ spc = "idle"
      /\ UNCHANGED <<hazard_ptrs_, buffer, retired_, readerVars, held, si, sj, is_hazardous,
                     reachable>>
      BY DEF Destroy
<1>4. deletions \in [Ptrs -> Nat] /\ reachable \subseteq Ptrs
      BY <1>1, Zenon DEF Types, TypeOK
<1>5. deletions' \in [Ptrs -> Nat]
      BY <1>2, <1>4 DEF Destroy
<1>6. Types'
      BY <1>1, <1>3, <1>5, Zenon DEF readerVars, Types, TypeOK
<1>7. \A p : Waiting(p)' <=> Waiting(p)
      BY <1>3 DEF Waiting
<1>8. \A p \in reachable' : deletions'[p] = 0 /\ ~Waiting(p)'
  <2>1. \A p \in reachable : deletions[p] = 0 /\ ~Waiting(p)
        BY <1>1 DEF Listed
  <2>2. \A p \in reachable : deletions'[p] = 0
        BY <1>2, <1>4, <2>1
  <2> QED BY <1>3, <1>7, <2>1, <2>2, Zenon
<1>9. \A p \in Ptrs \ reachable' : deletions'[p] = 1
      BY <1>1, <1>2, <1>3, <1>4 DEF Listed
<1>10. Listed'
      BY <1>1, <1>3, <1>8, <1>9 DEF Listed
<1> QED BY <1>6, <1>10 DEF ListInv

-----------------------------------------------------------------------------
(* The invariants                                                          *)

\* Init satisfies both.
LEMMA InitInv == Init => ListInv /\ HazardInv
<1> SUFFICES ASSUME Init PROVE ListInv /\ HazardInv
    OBVIOUS
<1>1. 0 \in Index
  <2>1. num_threads_ * MAX_HAZARD_PTRS \in Nat \ {0}
        BY ThreadIdAssumption, SizesAssumption, SMT
  <2> QED BY <2>1 DEF Index
<1>2. TypeOK
      BY <1>1, SizesAssumption DEF Init, TypeOK
<1>3. Types
      BY <1>2 DEF Init, Types
<1>4. Listed
      BY DEF Init, Listed, Waiting
<1>5. Slots
  <2> SUFFICES ASSUME NEW r \in Readers PROVE OwnSlots(r) /\ OwnHandles(r)
      BY DEF Slots
  <2>1. buffer[r] = <<>> /\ rpc[r] = "idle" /\ held[r] = {}
        BY Zenon DEF Init
  <2>2. OwnSlots(r)
        BY <2>1 DEF OwnSlots
  <2> QED BY <2>1, <2>2 DEF OwnHandles
<1>6. Scanned /\ PublishedProtects
      BY DEF Init, Scanned, PublishedProtects
<1> QED BY <1>3, <1>4, <1>5, <1>6 DEF ListInv, HazardInv

\* The list side is inductive by itself, whatever the thread ids.
LEMMA ListInvStep == ListInv /\ [Next]_vars => ListInv'
<1> SUFFICES ASSUME ListInv, [Next]_vars PROVE ListInv'
    OBVIOUS
<1>1. Types /\ Listed
      BY DEF ListInv
<1>2. CASE Destroy
      BY <1>2, DestroyListInv
<1>3. CASE ~Destroy
  <2>1. Types'
        BY <1>1, <1>3, TypesStep
  <2>2. ASSUME NEW ptr \in Ptrs, Retire(ptr) PROVE Listed'
        BY <1>1, <2>2, RetireListed
  <2>3. Reclaim => Listed'
        BY <1>1, ReclaimListed
  <2>4. ASSUME NEW r \in Readers, Reader(r) PROVE Listed'
    <3>1. UNCHANGED <<retired_, reachable, deletions, spc>>
          BY <2>4 DEF Reader, AcquireFind, AcquireFull, AcquireStore, Release, Flush, scanVars, vars
    <3> QED BY <1>1, <3>1, ListedFrame, Zenon
  <2>5. ASSUME ScanAndReclaim \/ ScanLoad \/ UNCHANGED vars PROVE Listed'
    <3>1. UNCHANGED <<retired_, reachable, deletions>> /\ (spc' = "destroyed" <=> spc = "destroyed")
          BY <2>5 DEF ScanAndReclaim, ScanLoad, StartScan, scanVars, vars
    <3> QED BY <1>1, <3>1, ListedFrame, Zenon
  <2>6. Listed'
        BY <1>3, <2>2, <2>3, <2>4, <2>5, Zenon DEF Next, Reclaimer
  <2> QED BY <2>1, <2>6 DEF ListInv
<1> QED BY <1>2, <1>3
\* A reader's step, with thread ids that differ.
LEMMA ReaderHazardInv ==
    ASSUME DistinctThreadIds, HazardInv, ListInv', NEW r \in Readers, Reader(r)
    PROVE  HazardInv'
<1>1. ListInv /\ Types /\ Slots /\ Scanned /\ PublishedProtects
      BY DEF HazardInv, ListInv
<1>2. Slots'
  <2>1. ASSUME NEW ptr \in Ptrs, AcquireFind(r, ptr) PROVE Slots'
        BY <1>1, <2>1, AcquireFindSlots
  <2>2. ASSUME NEW ptr \in Ptrs, Release(r, ptr) PROVE Slots'
        BY <1>1, <2>2, ReleaseSlots
  <2>3. AcquireFull(r) => Slots'
        BY <1>1, ReclaimerSlots DEF AcquireFull, vars, readerVars
  <2>4. AcquireStore(r) => Slots'
        BY <1>1, AcquireStoreSlots
  <2>5. Flush(r) => Slots'
        BY <1>1, FlushSlots, Zenon
  <2> QED BY <2>1, <2>2, <2>3, <2>4, <2>5 DEF Reader
<1>3. UNCHANGED <<retired_, spc, si, sj, is_hazardous, reachable, deletions>>
      BY Zenon
         DEF Reader, AcquireFind, AcquireFull, AcquireStore, Release, Flush, scanVars, vars
<1>4. held' \in [Readers -> SUBSET Handle] /\ held \in [Readers -> SUBSET Handle]
      BY <1>1, Zenon DEF ListInv, Types, TypeOK
<1>5. ASSUME NEW q \in Readers, NEW h \in held'[q], h.published
      PROVE  \/ h.ptr \in reachable
             \/ \E g \in held[q] : g.published /\ g.slot = h.slot /\ g.ptr = h.ptr
  <2>1. CASE h \in held[q]
        BY <1>5, <2>1, Zenon
  <2>2. CASE AcquireStore(r) /\ h \notin held[q]
    <3>1. held' = [held EXCEPT ![r] = @ \cup
                      {[slot |-> rslot[r], ptr |-> rptr[r], published |-> FALSE]}]
          BY <2>2, Zenon DEF AcquireStore
    <3>2. h = [slot |-> rslot[r], ptr |-> rptr[r], published |-> FALSE]
          BY <1>4, <2>2, <3>1, Zenon
    <3> QED BY <1>5, <3>2, Zenon
  <2>3. CASE Flush(r) /\ h \notin held[q]
    <3>1. q = r
          BY <1>1, <2>3, FlushEffect
    <3>2. PICK g \in held[r] : /\ h.slot = g.slot /\ h.ptr = g.ptr
                               /\ h.published => g.published \/ Published(r, g)
          BY <1>1, <2>3, <3>1, FlushEffect, Zenon
    <3> QED BY <1>5, <3>1, <3>2, Zenon DEF Published
  <2>4. \/ held' = held \/ AcquireStore(r) \/ Flush(r)
        \/ \E g \in held[r] : held' = [held EXCEPT ![r] = @ \ {g}]
        BY Zenon DEF Reader, AcquireFind, AcquireFull, Release, vars
  <2>5. h \in held[q] \/ AcquireStore(r) \/ Flush(r)
        BY <1>4, <2>4
  <2> QED BY <2>1, <2>2, <2>3, <2>5, Zenon
<1>6. Scanned' /\ PublishedProtects'
      BY <1>1, <1>3, <1>4, <1>5, HandlesProtected
<1> QED BY <1>2, <1>6 DEF HazardInv

\* A step of the reclaiming thread.
LEMMA ReclaimerHazardInv ==
    ASSUME HazardInv, ListInv', Reclaimer
    PROVE  HazardInv'
<1>1. ListInv /\ Types /\ Slots /\ Scanned /\ PublishedProtects
      BY Zenon DEF HazardInv, ListInv
<1>2. UNCHANGED <<hazard_ptrs_, buffer, rpc, rslot, held>>
      BY DEF Reclaimer, Retire, ScanAndReclaim, ScanLoad, Reclaim, Destroy, readerVars
<1>3. Slots'
      BY <1>1, <1>2, ReclaimerSlots, Zenon
<1>4. ASSUME NEW ptr \in Ptrs, Retire(ptr) PROVE Scanned' /\ PublishedProtects'
  <2>1. spc = "idle" /\ UNCHANGED <<si, sj, held, deletions>>
        BY <1>4 DEF Retire, StartScan, scanVars
  <2> QED BY <1>1, <2>1, ScanStarts, Zenon
<1>5. ASSUME ScanAndReclaim PROVE Scanned' /\ PublishedProtects'
  <2>1. spc = "idle" /\ UNCHANGED <<si, sj, held, deletions>>
        BY <1>5 DEF ScanAndReclaim, StartScan, scanVars
  <2> QED BY <1>1, <2>1, ScanStarts, Zenon
<1>6. ASSUME ScanLoad PROVE Scanned' /\ PublishedProtects'
  <2>1. UNCHANGED <<held, deletions>>
        BY <1>6, Zenon DEF ScanLoad
  <2>2. PublishedProtects'
        BY <1>1, <2>1 DEF PublishedProtects
  <2> QED BY <1>1, <1>6, <2>2, ScanLoadScanned, Zenon
<1>7. Reclaim => Scanned' /\ PublishedProtects'
      BY <1>1, ReclaimProtects, Zenon
<1>8. Destroy => Scanned' /\ PublishedProtects'
      BY DEF Destroy, Scanned, PublishedProtects
<1> QED BY <1>3, <1>4, <1>5, <1>6, <1>7, <1>8, Zenon DEF Reclaimer, HazardInv

\* The whole invariant is inductive when thread ids differ.
LEMMA HazardInvStep ==
    ASSUME DistinctThreadIds
    PROVE  HazardInv /\ [Next]_vars => HazardInv'
<1> SUFFICES ASSUME HazardInv, [Next]_vars PROVE HazardInv'
    OBVIOUS
<1>1. ListInv'
      BY ListInvStep DEF HazardInv
<1>2. UNCHANGED vars => HazardInv'
  <2> SUFFICES ASSUME UNCHANGED vars PROVE HazardInv'
      OBVIOUS
  <2>1. Slots'
        BY ReclaimerSlots, Zenon DEF HazardInv, ListInv, vars, readerVars
  <2>2. Scanned' /\ PublishedProtects'
        BY Zenon DEF HazardInv, Scanned, PublishedProtects, vars, scanVars, SlotIndex
  <2> QED BY <1>1, <2>1, <2>2 DEF HazardInv
<1> QED BY <1>1, <1>2, ReaderHazardInv, ReclaimerHazardInv, Zenon DEF Next

-----------------------------------------------------------------------------
(* Theorems                                                                *)

\* Both invariants hold throughout.
LEMMA SpecListInv == Spec => []ListInv
<1>1. Init => ListInv
      BY InitInv
<1>2. ListInv /\ [Next]_vars => ListInv'
      BY ListInvStep
<1> QED BY <1>1, <1>2, PTL DEF Spec

\* TypeOK: acquire, release and the scan index hazard_ptrs_ inside its bounds
\* for every thread id below num_threads_, and the scan indexes retired_ and
\* is_hazardous inside theirs.
THEOREM TypeCorrect == Spec => []TypeOK
<1>1. ListInv => TypeOK
      BY Zenon DEF ListInv, Types
<1> QED BY <1>1, SpecListInv, PTL

\* DeletedOnce: whatever the thread ids and however scans interleave with the
\* readers, scan_and_reclaim and the destructor delete each retired object
\* exactly once between them, and nothing that is not retired.
THEOREM RetiredDeletedOnce == Spec => []DeletedOnce
<1>1. ListInv => DeletedOnce
  <2> SUFFICES ASSUME ListInv, NEW p \in Ptrs
               PROVE  LET waiting == Cardinality({i \in DOMAIN retired_ : retired_[i] = p})
                      IN  IF spc = "destroyed"
                          THEN deletions[p] = IF p \in reachable THEN 0 ELSE 1
                          ELSE deletions[p] + waiting = IF p \in reachable THEN 0 ELSE 1
      BY Zenon DEF DeletedOnce
  <2>1. Cardinality({i \in DOMAIN retired_ : retired_[i] = p}) = IF Waiting(p) THEN 1 ELSE 0
        BY CountInList DEF ListInv
  <2>2. p \in reachable => deletions[p] = 0 /\ ~Waiting(p)
        BY DEF ListInv, Listed
  <2>3. p \notin reachable =>
           deletions[p] = IF spc # "destroyed" /\ Waiting(p) THEN 0 ELSE 1
        BY DEF ListInv, Listed
  <2> QED BY <2>1, <2>2, <2>3
<1> QED BY <1>1, SpecListInv, PTL

\* PublishedProtects: when get_thread_id gives the threads different ids, no
\* scan deletes an object while a reader holds a handle to it whose slot was in
\* memory before the object was retired.
THEOREM PublishedProtected ==
    ASSUME DistinctThreadIds
    PROVE  Spec => []PublishedProtects
<1>1. Init => HazardInv
      BY InitInv
<1>2. HazardInv /\ [Next]_vars => HazardInv'
      BY HazardInvStep
<1>3. HazardInv => PublishedProtects
      BY DEF HazardInv
<1> QED BY <1>1, <1>2, <1>3, PTL DEF Spec
=============================================================================
