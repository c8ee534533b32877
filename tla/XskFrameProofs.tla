--------------------------- MODULE XskFrameProofs ---------------------------
(***************************************************************************)
(* What is proved of the frames of XskSocket for all sizes of the rings    *)
(* and of a pool that is large enough: every UMEM frame has one owner,     *)
(* submit passes on no address left in the FILL ring from an earlier       *)
(* round, and the packets are read as they were delivered.                 *)
(*                                                                         *)
(* OneOwner is not inductive.  Its proof counts: the frames that are out   *)
(* are those in the FILL ring, one the kernel may hold, and those of RX    *)
(* descriptors not processed.  Only fill_rx_ring takes frames from the     *)
(* allocator, and it runs again only when a batch came back or none was    *)
(* waiting, so that a bound on the frames out holds at each point of the   *)
(* loop.  With it the allocator always serves the whole batch that was     *)
(* reserved.                                                               *)
(***************************************************************************)
EXTENDS XskSocketProofs

\* The first descriptor whose frame has not been freed.
First == IF pc = "batch" THEN i + 1 ELSE 1

\* Frames that are not with the allocator.
Lent == FillLevel + (IF held = Null THEN 0 ELSE 1) + (Len(rx) + 1 - First)

\* The frames add up, and enough of them are back when the FILL ring is served.
Accounted ==
    /\ Len(free) + Lent = NumFrames
    /\ pc = "fill" => Lent <= FillSize + 1
    /\ pc = "poll" => Lent <= FillSize + 1 + Batch
    /\ pc = "batch" => Lent + i <= FillSize + 1 + n_pkts

\* The invariant behind OneOwner.
Owned == Alive => Owners(free, FillLevel, Entries, rx, First, held) /\ Accounted

\* The packets not yet read are in the RX ring as they were delivered.
Reading ==
    /\ ReadAsDelivered
    /\ pc \in {"start", "ready", "gone"} => got = <<>> /\ delivered = 0
    /\ Alive =>
          /\ Len(got) = delivered - (Len(rx) + 1 - First)
          /\ \A k \in First .. Len(rx) : content[rx[k]] = delivered - Len(rx) + k

-----------------------------------------------------------------------------
(* One owner                                                               *)

\* The pool is larger than the FILL ring, one frame for the kernel and a batch.
\* So it is with 4096 frames (XskConfig), the library's default of 2048 places in
\* the FILL ring, which load_bpf_program leaves as it is, and batches of 32.
EnoughFrames == NumFrames >= FillSize + Batch + 1

\* Every entry is in a slot of the ring.
LEMMA SlotInRing ==
  ASSUME TypeOK, NEW k \in Nat
  PROVE  (fill_cons + k) % FillSize \in Slots
<1>1. fill_cons + k \in Int
  BY Sizes DEF TypeOK
<1>2. (fill_cons + k) % FillSize \in 0 .. FillSize - 1
  BY <1>1, ModRange, Sizes, Zenon
<1> QED BY <1>2 DEF Slots

\* The entries of the FILL ring are frames.
LEMMA EntriesType == TypeOK => Entries \in [0 .. FillLevel - 1 -> Frames]
<1> SUFFICES ASSUME TypeOK PROVE Entries \in [0 .. FillLevel - 1 -> Frames]
  OBVIOUS
<1>1. FillLevel \in Nat
  BY FillLevelFacts
<1>2. ASSUME NEW k \in 0 .. FillLevel - 1 PROVE fill[(fill_cons + k) % FillSize] \in Frames
  <2>1. (fill_cons + k) % FillSize \in Slots
    BY <1>1, SlotInRing
  <2> QED BY <2>1 DEF TypeOK
<1> QED BY <1>2 DEF Entries

\* When the allocator serves the whole batch, the entries submitted are exactly
\* the frames it handed out: no slot with an old address is among them.
LEMMA FillRxRingEntries ==
  ASSUME TInv, FillRxRing, Allocated(Reserve(Batch)) = Reserve(Batch)
  PROVE  /\ \A k \in 0 .. FillLevel - 1 : Entries'[k] = Entries[k]
         /\ \A k \in FillLevel .. FillLevel + Reserve(Batch) - 1 :
               Entries'[k] = free[k - FillLevel + 1]
<1> DEFINE n == Reserve(Batch)
           L == FillLevel
           at(k) == (fill_cons + k) % FillSize
<1>1. L \in 0 .. FillSize /\ n \in Nat /\ L + n <= FillSize /\ Batch \in Nat
  <2>1. L \in 0 .. FillSize
    BY FillLevelFacts DEF TInv
  <2> QED BY <2>1, FillRxRingFacts, Sizes
<1>2. ASSUME NEW k \in 0 .. L + n - 1 PROVE Entries'[k] = fill'[at(k)]
  <2>1. FillLevel' = L + n /\ fill_cons' = fill_cons
    BY FillRxRingFacts DEF FillRxRing, kernelVars
  <2>2. PICK l : l = FillLevel'
    OBVIOUS
  <2>3. Entries' = [j \in 0 .. l - 1 |-> fill'[(fill_cons' + j) % FillSize]]
    BY <2>2 DEF Entries
  <2>4. l = L + n
    BY <2>1, <2>2
  <2>5. k \in 0 .. l - 1
    BY <1>1, <2>4
  <2> QED BY <2>1, <2>3, <2>5
<1>3. ASSUME NEW k \in 0 .. L + n - 1
      PROVE  /\ at(k) \in Slots
             /\ fill'[at(k)] = IF (k - L) % FillSize < n
                                 THEN free[((k - L) % FillSize) + 1] ELSE fill[at(k)]
  <2>1. k \in Nat
    BY <1>1
  <2>2. at(k) \in Slots
    BY <2>1, SlotInRing DEF TInv
  <2>3. fill_prod \in 0 .. IndexRange - 1 /\ fill_cons \in 0 .. IndexRange - 1
    BY DEF TInv, TypeOK
  <2>4. (at(k) - fill_prod) % FillSize = (k - L) % FillSize
    BY <2>1, <2>3, SlotFromProducer DEF FillLevel
  <2>5. \A s \in Slots :
           fill'[s] = IF (s - fill_prod) % FillSize < n
                        THEN free[((s - fill_prod) % FillSize) + 1] ELSE fill[s]
    BY FillRxRingFacts
  <2> HIDE DEF at, n, L
  <2> QED BY <2>2, <2>4, <2>5
<1>4. ASSUME NEW k \in 0 .. L - 1 PROVE Entries'[k] = Entries[k]
  <2>1. k \in 0 .. L + n - 1 /\ k - L \in -FillSize .. -1
    BY <1>1, Sizes
  <2>2. Mod(k - L, FillSize) = (k - L) + FillSize
    BY <2>1, ModSmall, Sizes
  <2>3. (k - L) % FillSize = (k - L) + FillSize
    BY <2>2 DEF Mod
  <2>4. ~((k - L) % FillSize < n)
    BY <1>1, <2>3, Sizes
  <2>5. fill'[at(k)] = fill[at(k)]
    BY <1>3, <2>1, <2>4
  <2> QED BY <1>2, <2>1, <2>5, Zenon DEF Entries
<1>5. ASSUME NEW k \in L .. L + n - 1 PROVE Entries'[k] = free[k - L + 1]
  <2>1. k \in 0 .. L + n - 1 /\ k - L \in 0 .. FillSize - 1 /\ k - L < n
    BY <1>1, Sizes
  <2>2. Mod(k - L, FillSize) = k - L
    BY <2>1, ModSmall, Sizes
  <2>3. (k - L) % FillSize = k - L
    BY <2>2 DEF Mod
  <2>4. fill'[at(k)] = free[k - L + 1]
    BY <1>3, <2>1, <2>3
  <2> QED BY <1>2, <2>1, <2>4
<1> QED BY <1>4, <1>5

\* What the kernel leaves in the FILL ring moves up by one.
LEMMA TakenEntries ==
  ASSUME TypeOK, FillLevel > 0, fill_prod' = fill_prod, fill' = fill,
         fill_cons' = (fill_cons + 1) % IndexRange
  PROVE  \A k \in 0 .. FillLevel - 2 : Entries'[k] = Entries[k + 1]
<1> TAKE k \in 0 .. FillLevel - 2
<1>1. FillLevel \in Nat /\ FillLevel' = FillLevel - 1
  BY Taken, FillLevelFacts
<1>2. k \in Nat /\ k \in 0 .. FillLevel' - 1 /\ k + 1 \in 0 .. FillLevel - 1
  BY <1>1
<1>3. fill_cons \in 0 .. IndexRange - 1
  BY DEF TypeOK
<1>4. (((fill_cons + 1) % IndexRange) + k) % FillSize = (fill_cons + (k + 1)) % FillSize
  BY <1>2, <1>3, SlotStep
<1>5. Entries'[k] = fill'[(fill_cons' + k) % FillSize]
  BY <1>2 DEF Entries
<1>6. Entries[k + 1] = fill[(fill_cons + (k + 1)) % FillSize]
  BY <1>2 DEF Entries
<1> QED BY <1>4, <1>5, <1>6

\* A step that leaves the rings, the allocator and the kernel alone moves no
\* frame.
LEMMA SameOwners ==
  ASSUME UNCHANGED <<free, fill, fill_prod, fill_cons, rx, held>>, First' = First
  PROVE  /\ Owners(free, FillLevel, Entries, rx, First, held)
               => Owners(free, FillLevel, Entries, rx, First, held)'
         /\ Lent' = Lent /\ Len(free') = Len(free)
<1>1. FillLevel' = FillLevel
  BY DEF FillLevel
<1>2. Entries' = Entries
  BY <1>1 DEF Entries
<1>3. Lent' = Lent
  BY <1>1 DEF Lent
<1> QED BY <1>1, <1>2, <1>3 DEF Owners

\* After the constructor every frame is with the allocator.
LEMMA ConstructOwned == ASSUME TInv, Construct PROVE Owned'
<1> SUFFICES ASSUME Alive' PROVE Owned'
  BY DEF Owned
<1>1. /\ pc' = "ready" /\ free' = [k \in 1 .. NumFrames |-> k - 1]
      /\ UNCHANGED <<fill_prod, fill_cons, rx, held>>
  BY DEF Construct, Alive, fillVars, kernelVars
<1>2. fill_prod = fill_cons /\ held = Null /\ rx = <<>>
  BY DEF TInv, Phases, Construct
<1>3. FillLevel' = 0
  BY <1>1, <1>2, FillLevelFacts DEF TInv, FillLevel
<1>4. Len(free') = NumFrames /\ First' = 1 /\ Len(rx') = 0
  BY <1>1, <1>2, Sizes DEF First
<1>5. Accounted'
  BY <1>1, <1>2, <1>3, <1>4, Sizes DEF Accounted, Lent
<1>6. OneEach(free', 1 .. NumFrames) /\ Of(free', 1 .. NumFrames) = Frames
  <2>1. \A k \in 1 .. NumFrames : free'[k] = k - 1
    BY <1>1
  <2>2. OneEach(free', 1 .. NumFrames)
    BY <2>1 DEF OneEach
  <2>3. ASSUME NEW x \in Of(free', 1 .. NumFrames) PROVE x \in Frames
    BY <2>1, Sizes DEF Of, Frames
  <2>4. ASSUME NEW x \in Frames PROVE x \in Of(free', 1 .. NumFrames)
    <3>1. x + 1 \in 1 .. NumFrames /\ free'[x + 1] = x
      BY <2>1, Sizes DEF Frames
    <3> QED BY <3>1 DEF Of
  <2> QED BY <2>2, <2>3, <2>4, Zenon
<1>7. \A f : OneEach(f, 1 .. 0) /\ Of(f, 1 .. 0) = {} /\ OneEach(f, 0 .. 0 - 1) /\ Of(f, 0 .. 0 - 1) = {}
  BY DEF OneEach, Of
<1>8. Owners(free', 0, Entries', rx', 1, held')
  BY <1>1, <1>2, <1>4, <1>6, <1>7, Zenon DEF Owners, Parted
<1> QED BY <1>3, <1>4, <1>5, <1>8 DEF Owned

\* Setting up, mapping and destroying the socket move no frame.
LEMMA SetupOwned ==
  ASSUME TInv, Owned, Destroy \/ MapSocket \/ \E failed \in 1 .. 7 : LoadBpfProgram(failed)
  PROVE  Owned'
<1>1. CASE Destroy
  BY <1>1 DEF Destroy, Owned, Alive
<1>2. CASE MapSocket \/ \E failed \in 1 .. 7 : LoadBpfProgram(failed)
  <2>1. UNCHANGED <<pc, free, fill, fill_prod, fill_cons, rx, held, i, n_pkts>> /\ Alive
    BY <1>2 DEF MapSocket, LoadBpfProgram, fillVars, kernelVars, loopVars, Alive
  <2>2. First' = First
    BY <2>1 DEF First
  <2> QED BY <2>1, <2>2, SameOwners, Zenon DEF Owned, Accounted, Alive
<1> QED BY <1>1, <1>2

\* Entering run_rx_loop moves no frame, and none is lent yet.
LEMMA RunRxLoopOwned == ASSUME TInv, Owned, RunRxLoop PROVE Owned'
<1>1. UNCHANGED <<free, fill, fill_prod, fill_cons, rx, held>> /\ pc = "ready" /\ pc' = "fill"
  BY DEF RunRxLoop, fillVars, kernelVars
<1>2. First' = First /\ First = 1
  BY <1>1 DEF First
<1>3. Owners(free, FillLevel, Entries, rx, First, held)' /\ Lent' = Lent
  BY <1>1, <1>2, SameOwners DEF Owned, Alive
<1>4. Lent = 0
  BY <1>1, <1>2, FillLevelFacts DEF TInv, Phases, Lent
<1>5. Accounted'
  BY <1>1, <1>3, <1>4, Sizes DEF Owned, Alive, Accounted
<1> QED BY <1>3, <1>5 DEF Owned

\* When fill_rx_ring runs at most FillSize + 1 frames are out, those of the FILL
\* ring's history and the one the kernel may hold, so the allocator has a batch
\* left and alloc_frame never answers UMEM_INVALID.
LEMMA EnoughLeft ==
  ASSUME EnoughFrames, TInv, Owned, FillRxRing
  PROVE  Len(free) >= Batch /\ Allocated(Reserve(Batch)) = Reserve(Batch)
<1>1. pc = "fill" /\ First = 1
  BY DEF FillRxRing, First
<1>2. Accounted
  BY <1>1 DEF Owned, Alive
<1>3. Reserve(Batch) \in Nat /\ Reserve(Batch) <= Batch /\ FillLevel \in Nat
  BY FillLevelFacts, FillRxRingFacts, Sizes DEF TInv
<1>4. Len(free) \in Nat /\ Len(rx) \in Nat
  BY DEF TInv, TypeOK
<1>5. Lent \in Int
  BY <1>1, <1>3, <1>4 DEF Lent
<1>6. Len(free) + Lent = NumFrames /\ Lent <= FillSize + 1
  BY <1>1, <1>2 DEF Accounted
<1>7. Len(free) >= Batch
  BY <1>4, <1>5, <1>6, Sizes DEF EnoughFrames
<1> QED BY <1>3, <1>4, <1>7, Sizes DEF Allocated

\* fill_rx_ring moves frames from the allocator to the FILL ring and leaves every
\* frame with one owner, provided there are enough of them.
LEMMA FillRxRingOwned == ASSUME EnoughFrames, TInv, Owned, FillRxRing PROVE Owned'
<1> DEFINE n == Reserve(Batch)
<1>1. /\ pc = "fill" /\ pc' = "poll" /\ rx' = rx /\ held' = held
      /\ free' = SubSeq(free, Allocated(n) + 1, Len(free))
  BY DEF FillRxRing, kernelVars
<1>2. Owners(free, FillLevel, Entries, rx, First, held) /\ Accounted
  BY <1>1 DEF Owned, Alive
<1>3. First = 1 /\ First' = 1
  BY <1>1 DEF First
<1>4. /\ FillLevel \in Nat /\ n \in Nat /\ FillLevel + n <= FillSize /\ n <= Batch
      /\ FillLevel' = FillLevel + n
  BY FillLevelFacts, FillRxRingFacts, Sizes DEF TInv
<1>5. free \in Seq(Frames) /\ Len(free) \in Nat /\ rx \in Seq(Frames) /\ Len(rx) \in Nat
  BY DEF TInv, TypeOK
<1>6. Len(free) >= Batch
  BY EnoughLeft
<1>7. Allocated(n) = n
  BY EnoughLeft
<1>8. /\ \A k \in 0 .. FillLevel - 1 : Entries'[k] = Entries[k]
      /\ \A k \in FillLevel .. FillLevel + n - 1 : Entries'[k] = free[k - FillLevel + 1]
  BY <1>7, FillRxRingEntries
<1> HIDE DEF n
<1>9. n \in 0 .. Len(free) /\ n <= Len(free)
  BY <1>4, <1>5, <1>6, Sizes
<1>10. Len(free') = Len(free) - n /\ \A k \in 1 .. Len(free) - n : free'[k] = free[k + n]
  BY <1>1, <1>5, <1>7, <1>9, SubSeqFacts
<1>11. Owners(free', FillLevel + n, Entries', rx, First, held)
  BY <1>2, <1>4, <1>5, <1>8, <1>9, <1>10, LendFrames, Zenon
<1>12. Lent' = Lent + n
  BY <1>1, <1>3, <1>4, <1>5 DEF Lent
<1>13. Accounted'
  <2>1. Lent \in Int
    BY <1>3, <1>4, <1>5 DEF Lent
  <2>2. Len(free) + Lent = NumFrames /\ Lent <= FillSize + 1
    BY <1>1, <1>2 DEF Accounted
  <2>3. Len(free') + Lent' = NumFrames /\ Lent' <= FillSize + 1 + Batch
    <3>1. Len(free') + Lent' = (Len(free) - n) + (Lent + n)
      BY <1>10, <1>12
    <3>2. (Len(free) - n) + (Lent + n) = NumFrames
      BY <1>4, <1>5, <2>1, <2>2
    <3>3. Lent + n <= FillSize + 1 + Batch
      BY <1>4, <2>1, <2>2, Sizes
    <3> QED BY <1>12, <3>1, <3>2, <3>3
  <2> QED BY <1>1, <2>3, Zenon DEF Accounted
<1> QED BY <1>1, <1>3, <1>4, <1>11, <1>13, Zenon DEF Owned

\* The peek at the RX ring moves no frame.
LEMMA PollRxRingOwned == ASSUME TInv, Owned, PollRxRing PROVE Owned'
<1>1. /\ UNCHANGED <<free, fill, fill_prod, fill_cons, rx, held>> /\ pc = "poll"
      /\ n_pkts' = Peek /\ i' = 0 /\ pc' = IF Peek > 0 THEN "batch" ELSE "fill"
  BY DEF PollRxRing, fillVars, kernelVars
<1>2. First' = First /\ First = 1
  BY <1>1 DEF First
<1>3. Owners(free, FillLevel, Entries, rx, First, held)' /\ Lent' = Lent
  BY <1>1, <1>2, SameOwners, Zenon DEF Owned, Alive
<1>4. FillLevel \in 0 .. FillSize /\ Len(rx) \in Nat
  BY FillLevelFacts DEF TInv, TypeOK
<1>5. /\ Len(free) + Lent = NumFrames /\ Lent <= FillSize + 1 + Batch
      /\ Lent = FillLevel + (IF held = Null THEN 0 ELSE 1) + Len(rx) /\ Lent \in Int
  <2>1. Lent = FillLevel + (IF held = Null THEN 0 ELSE 1) + Len(rx)
    BY <1>2, <1>4 DEF Lent
  <2>2. Lent \in Int
    BY <1>4, <2>1
  <2> QED BY <1>1, <2>1, <2>2 DEF Owned, Alive, Accounted
<1>6. Lent <= FillSize + 1 + Peek /\ Peek \in Nat
  <2>1. CASE Len(rx) < Batch
    BY <1>4, <1>5, <2>1, Sizes DEF Peek
  <2>2. CASE Len(rx) >= Batch
    <3>1. Peek = Batch
      BY <1>4, <2>2, Sizes DEF Peek
    <3> QED BY <1>5, <3>1, Sizes
  <2> QED BY <1>4, <2>1, <2>2, Sizes
<1>7. /\ Len(free') + Lent' = NumFrames
      /\ pc' = "fill" => Lent' <= FillSize + 1
      /\ Lent' + i' <= FillSize + 1 + n_pkts'
  <2>1. Peek = 0 => Lent <= FillSize + 1
    BY <1>5, <1>6, Sizes
  <2>2. pc' = "fill" => Peek = 0
    BY <1>1, <1>6
  <2>3. Lent + 0 <= FillSize + 1 + Peek
    BY <1>5, <1>6, Sizes
  <2> QED BY <1>1, <1>3, <1>5, <2>1, <2>2, <2>3
<1>8. Accounted'
  BY <1>1, <1>7 DEF Accounted
<1> QED BY <1>3, <1>8 DEF Owned

\* A turn of process_rx_batch finds its descriptor, reads the frame and frees it.
LEMMA ProcessPacketFacts ==
  ASSUME TInv, NEW parsed \in BOOLEAN, ProcessPacket(parsed)
  PROVE  /\ i + 1 \in 1 .. Len(rx) /\ i' = i + 1 /\ rx[i + 1] \in Frames
         /\ free' = Append(free, rx[i + 1]) /\ got' = Append(got, content[rx[i + 1]])
<1>1. rx \in Seq(Frames) /\ i + 1 \in 1 .. Len(rx) /\ i' = i + 1
  BY Sizes DEF TInv, TypeOK, Phases, ProcessPacket
<1>2. rx[i + 1] \in Frames
  BY <1>1
<1>3. GetFrame(rx[i + 1]) # Null
  BY <1>2, Sizes, BoundAssumption DEF Frames, GetFrame
<1> QED BY <1>1, <1>2, <1>3, Zenon DEF ProcessPacket, FreeFrame

\* A turn of process_rx_batch moves one frame from the RX ring to the allocator.
LEMMA ProcessPacketOwned ==
  ASSUME TInv, Owned, NEW parsed \in BOOLEAN, ProcessPacket(parsed)
  PROVE  Owned'
<1>1. /\ UNCHANGED <<pc, fill, fill_prod, fill_cons, rx, held, n_pkts>> /\ pc = "batch"
      /\ i + 1 \in 1 .. Len(rx) /\ i' = i + 1 /\ free' = Append(free, rx[i + 1])
      /\ rx[i + 1] \in Frames
  BY ProcessPacketFacts DEF ProcessPacket, fillVars, kernelVars
<1>2. free \in Seq(Frames) /\ rx \in Seq(Frames) /\ i \in Nat /\ Len(rx) \in Nat
      /\ FillLevel \in Nat /\ n_pkts \in Nat
  <2>1. free \in Seq(Frames) /\ rx \in Seq(Frames) /\ Len(rx) \in Nat
    BY DEF TInv, TypeOK
  <2>2. i \in Nat /\ n_pkts \in Nat
    BY Sizes DEF TInv, TypeOK
  <2>3. FillLevel \in Nat
    BY FillLevelFacts, Sizes DEF TInv
  <2> QED BY <2>1, <2>2, <2>3, Zenon
<1>3. Len(free') = Len(free) + 1 /\ Len(free) \in Nat
  BY <1>1, <1>2, AppendFacts
<1>4. FillLevel' = FillLevel
  BY <1>1 DEF FillLevel
<1>5. Entries' = Entries
  BY <1>1, <1>4 DEF Entries
<1>6. First = i + 1 /\ First' = (i + 1) + 1
  BY <1>1 DEF First
<1>7. Owners(free, FillLevel, Entries, rx, i + 1, held) /\ Accounted
  BY <1>1, <1>6 DEF Owned, Alive
<1>8. Owners(free', FillLevel, Entries, rx, (i + 1) + 1, held)
  BY <1>1, <1>2, <1>7, ReturnFrame
<1>9. Owners(free, FillLevel, Entries, rx, First, held)'
  BY <1>1, <1>4, <1>5, <1>6, <1>8
<1>10. Lent' = Lent - 1 /\ Lent \in Int
  <2> DEFINE h == IF held = Null THEN 0 ELSE 1
  <2>1. Lent = FillLevel + h + (Len(rx) + 1 - (i + 1))
    BY <1>6 DEF Lent
  <2>2. Lent' = FillLevel + h + (Len(rx) + 1 - ((i + 1) + 1))
    BY <1>1, <1>4, <1>6 DEF Lent
  <2>3. h \in Int
    OBVIOUS
  <2> HIDE DEF h
  <2> QED BY <1>2, <2>1, <2>2, <2>3
<1>11. Accounted'
  <2>1. Len(free) + Lent = NumFrames /\ Lent + i <= FillSize + 1 + n_pkts
    BY <1>1, <1>7 DEF Accounted
  <2>2. (Len(free) + 1) + (Lent - 1) = NumFrames /\ (Lent - 1) + (i + 1) <= FillSize + 1 + n_pkts
    BY <1>2, <1>3, <1>10, <2>1, Sizes
  <2>3. Len(free') + Lent' = NumFrames /\ Lent' + i' <= FillSize + 1 + n_pkts'
    BY <1>1, <1>3, <1>10, <2>2
  <2> QED BY <1>1, <2>3 DEF Accounted
<1> QED BY <1>9, <1>11, Zenon DEF Owned

\* The release moves no frame: those of the batch are with the allocator.
LEMMA ReleaseBatchOwned == ASSUME TInv, Owned, ReleaseBatch PROVE Owned'
<1>1. /\ UNCHANGED <<free, fill, fill_prod, fill_cons, held>> /\ pc = "batch" /\ pc' = "fill"
      /\ i = n_pkts /\ rx' = SubSeq(rx, n_pkts + 1, Len(rx))
  BY Zenon DEF ReleaseBatch, ReleaseCount, fillVars, kernelVars
<1>2. rx \in Seq(Frames) /\ Len(rx) \in Nat /\ FillLevel \in Nat /\ n_pkts \in 0 .. Len(rx)
      /\ Len(free) \in Nat
  <2>1. rx \in Seq(Frames) /\ free \in Seq(Frames) /\ n_pkts \in Nat /\ FillLevel \in Nat
    BY FillLevelFacts, Sizes DEF TInv, TypeOK
  <2>2. n_pkts <= Len(rx)
    BY <1>1 DEF TInv, Phases
  <2> QED BY <2>1, <2>2
<1>3. Len(rx') = Len(rx) - n_pkts
  BY <1>1, <1>2, SubSeqFacts
<1>4. FillLevel' = FillLevel
  BY <1>1 DEF FillLevel
<1>5. Entries' = Entries
  BY <1>1, <1>4 DEF Entries
<1>6. First = n_pkts + 1 /\ First' = 1
  BY <1>1 DEF First
<1>7. Owners(free, FillLevel, Entries, rx, n_pkts + 1, held) /\ Accounted
  BY <1>1, <1>6 DEF Owned, Alive
<1>8. Owners(free, FillLevel, Entries, rx', 1, held)
  BY <1>1, <1>2, <1>7, ReleaseDescriptors
<1>9. Owners(free, FillLevel, Entries, rx, First, held)'
  BY <1>1, <1>4, <1>5, <1>6, <1>8
<1>10. Lent' = Lent /\ Lent \in Int
  <2> DEFINE h == IF held = Null THEN 0 ELSE 1
  <2>1. Lent = FillLevel + h + (Len(rx) + 1 - (n_pkts + 1))
    BY <1>6 DEF Lent
  <2>2. Lent' = FillLevel + h + ((Len(rx) - n_pkts) + 1 - 1)
    BY <1>1, <1>3, <1>4, <1>6 DEF Lent
  <2>3. h \in Int
    OBVIOUS
  <2> HIDE DEF h
  <2>4. Lent \in Int /\ Lent = FillLevel + h + ((Len(rx) - n_pkts) + 1 - 1)
    BY <1>2, <2>1, <2>3
  <2> QED BY <2>2, <2>4
<1>11. Accounted'
  <2>1. Len(free) + Lent = NumFrames /\ Lent + n_pkts <= FillSize + 1 + n_pkts
    BY <1>1, <1>7 DEF Accounted
  <2>2. Lent <= FillSize + 1
    BY <1>2, <1>10, <2>1, Sizes
  <2> QED BY <1>1, <1>10, <2>1, <2>2 DEF Accounted
<1> QED BY <1>9, <1>11 DEF Owned

\* An arrival moves at most one frame, from the FILL ring or the kernel to the RX
\* ring or the kernel.
LEMMA ArriveOwned == ASSUME TInv, Owned, NEW p, Arrive(p) PROVE Owned'
<1> DEFINE h == IF held = Null THEN 0 ELSE 1
           h1 == IF held' = Null THEN 0 ELSE 1
<1>1. UNCHANGED <<pc, free, fill, fill_prod, n_pkts, i>>
  BY DEF Arrive, fillVars, loopVars
<1>2. First' = First
  BY <1>1, Zenon DEF First
<1>3. CASE UNCHANGED <<fill_cons, held, rx, content, delivered>>
  BY <1>1, <1>2, <1>3, SameOwners DEF Owned, Accounted, Alive
<1>4. CASE ~UNCHANGED <<fill_cons, held, rx, content, delivered>>
  <2> DEFINE K == KernelFrame
             e1 == Entries'
             L1 == FillLevel'
  <2>1. /\ pc \in {"fill", "poll", "batch"} /\ K \in Frames
        /\ \/ held # Null /\ K = held /\ fill_cons' = fill_cons
           \/ /\ held = Null /\ FillLevel > 0 /\ K = Entries[0]
              /\ fill_cons' = (fill_cons + 1) % IndexRange
        /\ \/ rx' = Append(rx, K) /\ held' = Null
           \/ held' = K /\ rx' = rx
    BY <1>4, ArriveCases, Zenon
  <2>2. /\ free \in Seq(Frames) /\ rx \in Seq(Frames) /\ Len(rx) \in Nat /\ Len(free) \in Nat
        /\ FillLevel \in Nat /\ i \in Nat /\ n_pkts \in Nat
    BY FillLevelFacts, Sizes DEF TInv, TypeOK
  <2>3. First \in 1 .. Len(rx) + 1
    <3>1. pc = "batch" => i <= n_pkts /\ n_pkts <= Len(rx)
      BY Sizes DEF TInv, TypeOK, Phases
    <3> QED BY <2>2, <3>1 DEF First
  <2>4. K # Null
    BY <2>1, Sizes, BoundAssumption DEF Frames
  <2>5. Owners(free, FillLevel, Entries, rx, First, held) /\ Accounted
    BY <2>1 DEF Owned, Alive
  <2>6. Owners(free, L1, e1, rx, First, K) /\ L1 + 1 = FillLevel + h /\ L1 \in Nat
    <3>1. CASE held # Null /\ K = held /\ fill_cons' = fill_cons
      <4>1. L1 = FillLevel
        BY <1>1, <3>1 DEF FillLevel
      <4>2. e1 = Entries
        BY <1>1, <3>1, <4>1 DEF Entries
      <4> QED BY <2>2, <2>5, <3>1, <4>1, <4>2
    <3>2. CASE /\ held = Null /\ FillLevel > 0 /\ K = Entries[0]
               /\ fill_cons' = (fill_cons + 1) % IndexRange
      <4>1. L1 = FillLevel - 1
        BY <1>1, <3>2, Taken, Zenon DEF TInv
      <4>2. \A k \in 0 .. FillLevel - 2 : e1[k] = Entries[k + 1]
        BY <1>1, <3>2, TakenEntries DEF TInv
      <4>3. FillLevel \in Nat \ {0} /\ Entries[0] # Null
        BY <2>2, <2>4, <3>2
      <4> HIDE DEF e1, L1
      <4>4. Owners(free, FillLevel - 1, e1, rx, First, Entries[0])
        BY <2>5, <3>2, <4>2, <4>3, TakeFrame, Zenon
      <4> QED BY <2>2, <3>2, <4>1, <4>3, <4>4
    <3> QED BY <2>1, <3>1, <3>2
  <2>7. Owners(free, L1, e1, rx', First, held') /\ L1 + h1 + Len(rx') = FillLevel + h + Len(rx)
    <3>1. CASE rx' = Append(rx, K) /\ held' = Null
      <4> HIDE DEF e1, L1, K, h
      <4>1. Owners(free, L1, e1, Append(rx, K), First, Null)
        BY <2>1, <2>2, <2>3, <2>4, <2>6, DeliverFrame, Zenon
      <4>2. Len(rx') = Len(rx) + 1
        BY <2>1, <2>2, <3>1, AppendFacts
      <4>3. h1 = 0
        BY <3>1
      <4>4. h \in Int
        BY DEF h
      <4> HIDE DEF h1
      <4>5. L1 + h1 + Len(rx') = FillLevel + h + Len(rx)
        BY <2>2, <2>6, <4>2, <4>3, <4>4
      <4> QED BY <3>1, <4>1, <4>5, Zenon
    <3>2. CASE held' = K /\ rx' = rx
      <4>1. h1 = 1
        BY <2>4, <3>2
      <4>2. h \in Int
        OBVIOUS
      <4> HIDE DEF e1, L1, K, h, h1
      <4> QED BY <2>2, <2>6, <3>2, <4>1, <4>2
    <3> QED BY <2>1, <3>1, <3>2
  <2>8. Lent' = Lent /\ Lent \in Int
    <3>1. Lent = FillLevel + h + (Len(rx) + 1 - First)
      BY DEF Lent
    <3>2. Lent' = L1 + h1 + (Len(rx') + 1 - First)
      BY <1>2 DEF Lent
    <3>3. h \in Int /\ h1 \in Int /\ Len(rx') \in Int /\ L1 \in Int /\ First \in Int
      <4>1. Len(rx') \in Int
        BY <2>1, <2>2, AppendFacts
      <4> QED BY <2>2, <2>3, <2>6, <4>1
    <3> HIDE DEF h, h1, L1
    <3> QED BY <2>2, <2>7, <3>1, <3>2, <3>3
  <2>9. Accounted'
    BY <1>1, <2>5, <2>8 DEF Accounted
  <2> QED BY <1>1, <1>2, <2>7, <2>9, Zenon DEF Owned
<1> QED BY <1>3, <1>4, Zenon

\* Every step leaves every frame with one owner.
LEMMA OwnedNext == ASSUME EnoughFrames, TInv, Owned, [Next]_vars PROVE Owned'
<1>1. CASE Setup
  BY <1>1, ConstructOwned, SetupOwned DEF Setup
<1>2. CASE RunRxLoop
  BY <1>2, RunRxLoopOwned
<1>3. CASE Loop
  BY <1>3, FillRxRingOwned, PollRxRingOwned, ProcessPacketOwned, ReleaseBatchOwned DEF Loop
<1>4. CASE \E p \in Packets : Arrive(p)
  BY <1>4, ArriveOwned, Zenon
<1>5. CASE UNCHANGED vars
  <2>1. UNCHANGED <<pc, free, fill, fill_prod, fill_cons, rx, held, i, n_pkts>>
    BY <1>5 DEF vars, setupVars, fillVars, kernelVars, loopVars
  <2>2. First' = First
    BY <2>1 DEF First
  <2> QED BY <2>1, <2>2, SameOwners DEF Owned, Accounted, Alive
<1> QED BY <1>1, <1>2, <1>3, <1>4, <1>5 DEF Next

\* A, the places of f in F, is empty or has one element.
Found(A, f, F) ==
    /\ A = {} \/ (f \in F /\ \E k : A = {k})
    /\ f \in F => A # {}

\* What is held once is found at one place.
LEMMA FoundOnce ==
  ASSUME NEW g, NEW S, NEW f, OneEach(g, S)
  PROVE  Found({k \in S : g[k] = f}, f, Of(g, S))
<1> DEFINE A == {k \in S : g[k] = f}
<1>1. ASSUME NEW k \in A PROVE f \in Of(g, S) /\ A = {k}
  BY DEF Of, OneEach
<1>2. ASSUME f \in Of(g, S) PROVE A # {}
  <2>1. PICK k \in S : f = g[k]
    BY <1>2 DEF Of
  <2> QED BY <2>1
<1>3. A = {} \/ \E k : k \in A
  OBVIOUS
<1> HIDE DEF A
<1>4. Found(A, f, Of(g, S))
  BY <1>1, <1>2, <1>3 DEF Found
<1> QED BY <1>4 DEF A

\* The invariant says of sets of frames what OneOwner says of places.
LEMMA OwnedOnce ==
  ASSUME TypeOK, Owned, Alive, NEW f \in Frames
  PROVE  \E q : Places(f) = {q}
<1> DEFINE A == {k \in DOMAIN free : free[k] = f}
           B == {k \in 0 .. FillLevel - 1 : fill[(fill_cons + k) % FillSize] = f}
           C == {held} \cap {f}
           D == {k \in Pending : rx[k] = f}
           F == Of(free, 1 .. Len(free))
           E == Of(Entries, 0 .. FillLevel - 1)
           R == Of(rx, First .. Len(rx))
           H == {held} \ {Null}
<1>1. /\ OneEach(free, 1 .. Len(free)) /\ OneEach(Entries, 0 .. FillLevel - 1)
      /\ OneEach(rx, First .. Len(rx)) /\ Parted(F, E, R, H)
  BY DEF Owned, Owners
<1>2. DOMAIN free = 1 .. Len(free) /\ Pending = First .. Len(rx)
  BY DEF TypeOK, Pending, First
<1>3. \A k \in 0 .. FillLevel - 1 : Entries[k] = fill[(fill_cons + k) % FillSize]
  BY DEF Entries
<1>4. Found(A, f, F)
  BY <1>1, <1>2, FoundOnce
<1>5. Found(B, f, E)
  <2>1. B = {k \in 0 .. FillLevel - 1 : Entries[k] = f}
    BY <1>3
  <2> QED BY <1>1, <2>1, FoundOnce, Zenon
<1>6. Found(D, f, R)
  BY <1>1, <1>2, FoundOnce, Zenon
<1>7. f # Null
  BY Sizes, BoundAssumption DEF Frames
<1>8. /\ C = {} \/ (f \in H /\ C = {f})
      /\ f \in H => C # {}
  BY <1>7, Zenon
<1>9. Places(f) = {<<"free", k>> : k \in A} \cup {<<"fill", k>> : k \in B}
                    \cup {<<"kernel", 0>> : x \in C} \cup {<<"rx", k>> : k \in D}
  BY DEF Places
<1> HIDE DEF A, B, C, D, F, E, R, H
<1>10. \/ /\ \E k : A = {k}
          /\ B = {} /\ C = {} /\ D = {}
       \/ /\ \E k : B = {k}
          /\ A = {} /\ C = {} /\ D = {}
       \/ C = {f} /\ A = {} /\ B = {} /\ D = {}
       \/ /\ \E k : D = {k}
          /\ A = {} /\ B = {} /\ C = {}
  <2>1. f \in F \/ f \in E \/ f \in R \/ f \in H
    BY <1>1 DEF Parted
  <2>2. /\ ~(f \in F /\ f \in E) /\ ~(f \in F /\ f \in R) /\ ~(f \in F /\ f \in H)
        /\ ~(f \in E /\ f \in R) /\ ~(f \in E /\ f \in H) /\ ~(f \in R /\ f \in H)
    BY <1>1 DEF Parted
  <2> QED BY <1>4, <1>5, <1>6, <1>8, <2>1, <2>2, Zenon DEF Found
<1>11. CASE (\E k : A = {k}) /\ B = {} /\ C = {} /\ D = {}
  <2>1. PICK k : A = {k}
    BY <1>11
  <2>2. Places(f) = {<<"free", k>>}
    BY <1>9, <1>11, <2>1
  <2> QED BY <2>2, Zenon
<1>12. CASE (\E k : B = {k}) /\ A = {} /\ C = {} /\ D = {}
  <2>1. PICK k : B = {k}
    BY <1>12
  <2>2. Places(f) = {<<"fill", k>>}
    BY <1>9, <1>12, <2>1
  <2> QED BY <2>2, Zenon
<1>13. CASE C = {f} /\ A = {} /\ B = {} /\ D = {}
  <2>1. Places(f) = {<<"kernel", 0>>}
    BY <1>9, <1>13
  <2> QED BY <2>1, Zenon
<1>14. CASE (\E k : D = {k}) /\ A = {} /\ B = {} /\ C = {}
  <2>1. PICK k : D = {k}
    BY <1>14
  <2>2. Places(f) = {<<"rx", k>>}
    BY <1>9, <1>14, <2>1
  <2> QED BY <2>2, Zenon
<1> QED BY <1>10, <1>11, <1>12, <1>13, <1>14, Zenon

\* fill_rx_ring writes a frame of the allocator into every entry it submits.
SubmitsFreshFrames == FillRxRing => Allocated(Reserve(Batch)) = Reserve(Batch)

\* With enough frames alloc_frame never fails in fill_rx_ring, so its `break' is
\* not taken and submit hands no stale entry of the ring to the kernel.
THEOREM NoStaleEntries == ASSUME EnoughFrames PROVE Spec => [][SubmitsFreshFrames]_vars
<1>1. Init => TInv /\ Owned
  BY TypeInit DEF Init, Owned, Alive
<1>2. TInv /\ Owned /\ [Next]_vars => (TInv /\ Owned)'
  BY TypeNext, OwnedNext
<1>3. TInv /\ Owned => [SubmitsFreshFrames]_vars
  BY EnoughLeft DEF SubmitsFreshFrames
<1> QED BY <1>1, <1>2, <1>3, PTL DEF Spec

-----------------------------------------------------------------------------
(* Packets read as delivered                                               *)

\* Nothing has been delivered or read before the constructor.
LEMMA ReadingInit == Init => Reading
  BY DEF Init, Reading, ReadAsDelivered, Alive

\* A step that neither delivers nor reads keeps what is known of the packets.
LEMMA SameReading ==
  ASSUME Reading, Alive' => Alive, First' = First, UNCHANGED <<rx, content, delivered, got>>,
         pc' \in {"start", "ready", "gone"} => pc \in {"start", "ready", "gone"}
  PROVE  Reading'
  BY DEF Reading, ReadAsDelivered

\* Setting up and destroying the socket deliver and read nothing.
LEMMA SetupReading == ASSUME TInv, Reading, Setup PROVE Reading'
<1>1. UNCHANGED <<rx, content, delivered, got>>
  BY Zenon DEF Setup, Construct, Destroy, MapSocket, LoadBpfProgram, kernelVars, loopVars
<1>2. CASE Construct
  <2>1. /\ got = <<>> /\ delivered = 0 /\ rx = <<>> /\ pc' \in {"ready", "gone"}
    BY <1>2 DEF Construct, Reading, TInv, Phases
  <2>2. First' = 1
    BY <2>1 DEF First
  <2>3. ReadAsDelivered'
    BY <1>1, <2>1 DEF ReadAsDelivered
  <2>4. Len(got') = delivered' - (Len(rx') + 1 - First')
    <3>1. Len(got') = 0 /\ Len(rx') = 0 /\ delivered' = 0
      BY <1>1, <2>1
    <3> QED BY <2>2, <3>1
  <2>5. First' .. Len(rx') = {}
    BY <1>1, <2>1, <2>2
  <2> QED BY <1>1, <2>1, <2>3, <2>4, <2>5, Zenon DEF Reading
<1>3. CASE Destroy
  <2>1. got = <<>> /\ delivered = 0 /\ pc' = "gone"
    BY <1>3 DEF Destroy, Reading
  <2> QED BY <1>1, <2>1, Zenon DEF Reading, ReadAsDelivered, Alive
<1>4. CASE MapSocket \/ \E failed \in 1 .. 7 : LoadBpfProgram(failed)
  <2>1. pc' = pc /\ i' = i
    BY <1>4 DEF MapSocket, LoadBpfProgram, loopVars
  <2>2. First' = First
    BY <2>1 DEF First
  <2> QED BY <1>1, <2>1, <2>2, SameReading, Zenon DEF Alive
<1> QED BY <1>2, <1>3, <1>4, Zenon DEF Setup

\* Filling and polling deliver and read nothing.
LEMMA PollReading ==
  ASSUME Reading, RunRxLoop \/ FillRxRing \/ PollRxRing
  PROVE  Reading'
<1>1. /\ UNCHANGED <<rx, content, delivered, got>> /\ pc \in {"ready", "fill", "poll"}
      /\ pc' \in {"fill", "poll"} \/ (pc' = "batch" /\ i' = 0)
  BY Zenon DEF RunRxLoop, FillRxRing, PollRxRing, kernelVars, loopVars
<1>2. First = 1 /\ First' = 1
  BY <1>1 DEF First
<1> QED BY <1>1, <1>2, SameReading, Zenon DEF Alive

\* A turn of process_rx_batch reads the oldest packet not read yet.
LEMMA ProcessPacketReading ==
  ASSUME TInv, Reading, NEW parsed \in BOOLEAN, ProcessPacket(parsed)
  PROVE  Reading'
<1> DEFINE c == content[rx[i + 1]]
<1>1. /\ UNCHANGED <<pc, rx, content, delivered>> /\ pc = "batch"
      /\ i + 1 \in 1 .. Len(rx) /\ i' = i + 1 /\ got' = Append(got, c) /\ rx[i + 1] \in Frames
  BY ProcessPacketFacts DEF ProcessPacket, kernelVars
<1>2. /\ got \in Seq(Nat) /\ Len(rx) \in Nat /\ i \in Nat /\ delivered \in Nat
      /\ content \in [Frames -> Nat]
  <2>1. got \in Seq(Nat) /\ rx \in Seq(Frames) /\ content \in [Frames -> Nat]
    BY Zenon DEF TInv, TypeOK
  <2>2. n_pkts \in Nat /\ delivered \in Nat
    BY BoundAssumption, Sizes DEF TInv, TypeOK
  <2>3. i \in Nat
    BY <2>2 DEF TInv, TypeOK
  <2> QED BY <2>1, <2>2, <2>3
<1>3. First = i + 1 /\ First' = i + 2
  BY <1>1, <1>2 DEF First
<1>4. /\ Len(got) = delivered - (Len(rx) + 1 - (i + 1))
      /\ \A k \in i + 1 .. Len(rx) : content[rx[k]] = delivered - Len(rx) + k
      /\ \A k \in DOMAIN got : got[k] = k
  BY <1>1, <1>3 DEF Reading, Alive, ReadAsDelivered
<1>5. c = Len(got) + 1 /\ c \in Nat
  <2>1. i + 1 \in i + 1 .. Len(rx)
    BY <1>1, <1>2
  <2>2. c = delivered - Len(rx) + (i + 1) /\ c \in Nat
    BY <1>1, <1>2, <1>4, <2>1, Zenon
  <2> HIDE DEF c
  <2> QED BY <1>2, <1>4, <2>2
<1> HIDE DEF c
<1>6. /\ Len(got') = Len(got) + 1 /\ DOMAIN got' = 1 .. Len(got) + 1
      /\ \A k \in 1 .. Len(got) : got'[k] = got[k]
      /\ got'[Len(got) + 1] = c
  <2>1. got' = Append(got, c)
    BY <1>1, Zenon
  <2>2. /\ got' \in Seq(Nat) /\ Len(got') = Len(got) + 1 /\ got'[Len(got) + 1] = c
        /\ \A k \in 1 .. Len(got) : got'[k] = got[k]
    <3>1. got \in Seq(Nat) /\ c \in Nat
      BY <1>2, <1>5, Zenon
    <3> QED BY <2>1, <3>1, AppendFacts
  <2> QED BY <2>2
<1>7. ReadAsDelivered'
  <2>1. DOMAIN got = 1 .. Len(got) /\ Len(got) \in Nat
    BY <1>2
  <2>2. \A k \in 1 .. Len(got) + 1 : k \in 1 .. Len(got) \/ k = Len(got) + 1
    BY <2>1
  <2>3. \A k \in 1 .. Len(got) + 1 : got'[k] = k
    BY <1>4, <1>5, <1>6, <2>1, <2>2, Zenon
  <2> QED BY <1>6, <2>3 DEF ReadAsDelivered
<1>8. Len(got') = delivered' - (Len(rx') + 1 - First')
  BY <1>1, <1>2, <1>3, <1>4, <1>6
<1>9. \A k \in First' .. Len(rx') : content'[rx'[k]] = delivered' - Len(rx') + k
  <2>1. \A k \in i + 2 .. Len(rx) : k \in i + 1 .. Len(rx)
    BY <1>2
  <2>2. \A k \in i + 2 .. Len(rx) : content[rx[k]] = delivered - Len(rx) + k
    BY <1>4, <2>1, Zenon
  <2> QED BY <1>1, <1>3, <2>2
<1> QED BY <1>1, <1>7, <1>8, <1>9, Zenon DEF Reading

\* The release drops only descriptors of packets that were read.
LEMMA ReleaseBatchReading == ASSUME TInv, Reading, ReleaseBatch PROVE Reading'
<1>1. /\ UNCHANGED <<content, delivered, got>> /\ pc = "batch" /\ pc' = "fill"
      /\ i = n_pkts /\ rx' = SubSeq(rx, n_pkts + 1, Len(rx))
  BY Zenon DEF ReleaseBatch, ReleaseCount, kernelVars, loopVars
<1>2. rx \in Seq(Frames) /\ Len(rx) \in Nat /\ n_pkts \in 0 .. Len(rx) /\ delivered \in Nat
  BY <1>1, BoundAssumption, Sizes DEF TInv, TypeOK, Phases
<1>3. Len(rx') = Len(rx) - n_pkts /\ \A k \in 1 .. Len(rx) - n_pkts : rx'[k] = rx[k + n_pkts]
  BY <1>1, <1>2, SubSeqFacts, Zenon
<1>4. First = n_pkts + 1 /\ First' = 1
  BY <1>1 DEF First
<1>5. /\ Len(got) = delivered - (Len(rx) + 1 - (n_pkts + 1)) /\ ReadAsDelivered
      /\ \A k \in n_pkts + 1 .. Len(rx) : content[rx[k]] = delivered - Len(rx) + k
  BY <1>1, <1>4 DEF Reading, Alive
<1>6. Len(got') = delivered' - (Len(rx') + 1 - First')
  BY <1>1, <1>2, <1>3, <1>4, <1>5
<1>7. ASSUME NEW k \in First' .. Len(rx')
      PROVE  content'[rx'[k]] = delivered' - Len(rx') + k
  <2>1. k \in 1 .. Len(rx) - n_pkts /\ k + n_pkts \in n_pkts + 1 .. Len(rx)
    BY <1>2, <1>3, <1>4
  <2>2. content[rx[k + n_pkts]] = delivered - Len(rx) + (k + n_pkts)
    BY <1>5, <2>1
  <2>3. delivered - Len(rx) + (k + n_pkts) = delivered - (Len(rx) - n_pkts) + k
    BY <1>2, <2>1
  <2> QED BY <1>1, <1>3, <2>1, <2>2, <2>3, Zenon
<1>8. ReadAsDelivered'
  BY <1>1, <1>5 DEF ReadAsDelivered
<1> QED BY <1>1, <1>6, <1>7, <1>8, Zenon DEF Reading

\* The kernel writes a new packet into a frame no unread packet is in.
LEMMA ArriveReading == ASSUME TInv, Owned, Reading, NEW p, Arrive(p) PROVE Reading'
<1>1. UNCHANGED <<pc, i, got>>
  BY DEF Arrive, loopVars
<1>2. First' = First
  BY <1>1 DEF First
<1>3. CASE UNCHANGED <<rx, content, delivered>>
  BY <1>1, <1>2, <1>3, SameReading, Zenon DEF Alive
<1>4. CASE ~UNCHANGED <<rx, content, delivered>>
  <2> DEFINE K == KernelFrame
  <2>1. /\ pc \in {"fill", "poll", "batch"} /\ K \in Frames
        /\ \/ held # Null /\ K = held
           \/ FillLevel > 0 /\ K = Entries[0]
        /\ rx' = Append(rx, K) /\ delivered' = delivered + 1
        /\ content' = [content EXCEPT ![K] = delivered + 1]
    BY <1>4, ArriveCases, Zenon
  <2>2. /\ rx \in Seq(Frames) /\ Len(rx) \in Nat /\ FillLevel \in Nat /\ delivered \in Nat
        /\ content \in [Frames -> Nat]
    <3>1. rx \in Seq(Frames) /\ delivered \in Nat /\ content \in [Frames -> Nat]
      BY BoundAssumption DEF TInv, TypeOK
    <3>2. FillLevel \in Nat
      BY FillLevelFacts DEF TInv
    <3> QED BY <3>1, <3>2
  <2>3. First \in 1 .. Len(rx) + 1
    <3>1. n_pkts \in Nat /\ i \in 0 .. n_pkts /\ (pc = "batch" => n_pkts <= Len(rx))
      BY Sizes DEF TInv, TypeOK, Phases
    <3> QED BY <2>2, <3>1 DEF First
  <2>4. K \notin Of(rx, First .. Len(rx))
    <3>1. Parted(Of(free, 1 .. Len(free)), Of(Entries, 0 .. FillLevel - 1),
                 Of(rx, First .. Len(rx)), {held} \ {Null})
      BY <2>1, Zenon DEF Owned, Owners, Alive
    <3>2. CASE held # Null /\ K = held
      BY <3>1, <3>2, Zenon DEF Parted
    <3>3. CASE FillLevel > 0 /\ K = Entries[0]
      <4>1. 0 \in 0 .. FillLevel - 1
        BY <2>2, <3>3
      <4>2. K \in Of(Entries, 0 .. FillLevel - 1)
        BY <3>3, <4>1, Zenon DEF Of
      <4> QED BY <3>1, <4>2 DEF Parted
    <3> QED BY <2>1, <3>2, <3>3, Zenon
  <2> HIDE DEF K
  <2>5. /\ Len(rx') = Len(rx) + 1 /\ rx'[Len(rx) + 1] = K
        /\ \A k \in 1 .. Len(rx) : rx'[k] = rx[k]
    <3>1. rx' = Append(rx, K) /\ K \in Frames
      BY <2>1, Zenon
    <3>2. rx \in Seq(Frames)
      BY <2>2, Zenon
    <3> QED BY <3>1, <3>2, AppendFacts
  <2>6. /\ Len(got) = delivered - (Len(rx) + 1 - First) /\ ReadAsDelivered
        /\ \A k \in First .. Len(rx) : content[rx[k]] = delivered - Len(rx) + k
    BY <2>1, Zenon DEF Reading, Alive
  <2>7. Len(got') = delivered' - (Len(rx') + 1 - First')
    <3>1. delivered - (Len(rx) + 1 - First) = (delivered + 1) - ((Len(rx) + 1) + 1 - First)
      BY <2>2, <2>3
    <3> QED BY <1>1, <1>2, <2>1, <2>5, <2>6, <3>1, Zenon
  <2>8. ASSUME NEW k \in First .. Len(rx) + 1
        PROVE  content'[rx'[k]] = (delivered + 1) - (Len(rx) + 1) + k
    <3>1. CASE k = Len(rx) + 1
      <4>1. content'[K] = delivered + 1
        BY <2>1, <2>2, Zenon
      <4> QED BY <2>2, <2>5, <3>1, <4>1
    <3>2. CASE k # Len(rx) + 1
      <4>1. k \in First .. Len(rx) /\ k \in 1 .. Len(rx) /\ k \in Int
        BY <2>2, <2>3, <3>2
      <4>2. rx[k] \in Frames /\ rx[k] # K
        BY <2>2, <2>4, <4>1 DEF Of
      <4>3. content'[rx[k]] = content[rx[k]]
        BY <2>1, <2>2, <4>2, Zenon
      <4>4. content[rx[k]] = delivered - Len(rx) + k
        BY <2>6, <4>1
      <4>5. delivered - Len(rx) + k = (delivered + 1) - (Len(rx) + 1) + k
        BY <2>2, <4>1
      <4> QED BY <2>5, <4>1, <4>3, <4>4, <4>5
    <3> QED BY <3>1, <3>2, Zenon
  <2>9. \A k \in First' .. Len(rx') : content'[rx'[k]] = delivered' - Len(rx') + k
    BY <1>2, <2>1, <2>5, <2>8, Zenon
  <2>10. ReadAsDelivered'
    BY <1>1, <2>6 DEF ReadAsDelivered
  <2> QED BY <1>1, <2>1, <2>7, <2>9, <2>10, Zenon DEF Reading
<1> QED BY <1>3, <1>4, Zenon

\* Every step keeps what is known of the packets.
LEMMA ReadingNext == ASSUME TInv, Owned, Reading, [Next]_vars PROVE Reading'
<1>1. CASE Setup
  BY <1>1, SetupReading
<1>2. CASE RunRxLoop \/ Loop
  BY <1>2, PollReading, ProcessPacketReading, ReleaseBatchReading DEF Loop
<1>3. CASE \E p \in Packets : Arrive(p)
  BY <1>3, ArriveReading
<1>4. CASE UNCHANGED vars
  <2>1. UNCHANGED <<pc, rx, content, delivered, got, i>>
    BY <1>4 DEF vars, kernelVars, loopVars
  <2>2. First' = First
    BY <2>1 DEF First
  <2> QED BY <2>1, <2>2, SameReading, Zenon DEF Alive
<1> QED BY <1>1, <1>2, <1>3, <1>4 DEF Next

\* With enough frames process_rx_batch reads the packets the kernel delivered,
\* each once, in order and before its frame is written again.
THEOREM PacketsReadAsDelivered == ASSUME EnoughFrames PROVE Spec => []ReadAsDelivered
<1> DEFINE I == TInv /\ Owned /\ Reading
<1>1. Init => I
  BY TypeInit, ReadingInit DEF Init, Owned, Alive
<1>2. I /\ [Next]_vars => I'
  BY TypeNext, OwnedNext, ReadingNext, Zenon
<1>3. I => ReadAsDelivered
  BY DEF Reading
<1> QED BY <1>1, <1>2, <1>3, PTL DEF Spec

-----------------------------------------------------------------------------
(* A frame at one place has one owner                                      *)

Sets == INSTANCE FiniteSetTheorems

\* With enough frames every UMEM frame is, at every step, with the allocator, in
\* the FILL ring, with the kernel or in the RX ring, and at one place only: no
\* frame is lent twice and none is lost, whatever arrives and however the steps
\* of the loop and the kernel interleave.
THEOREM FramesHaveOneOwner == ASSUME EnoughFrames PROVE Spec => []OneOwner
<1>1. Init => TInv /\ Owned
  BY TypeInit, Zenon DEF Init, Owned, Alive
<1>2. TInv /\ Owned /\ [Next]_vars => (TInv /\ Owned)'
  BY TypeNext, OwnedNext, Zenon
<1>3. TInv /\ Owned => OneOwner
  <2> SUFFICES ASSUME TInv, Owned, Alive, NEW f \in Frames
               PROVE  Cardinality(Places(f)) = 1
    BY DEF OneOwner
  <2>1. PICK q : Places(f) = {q}
    BY OwnedOnce DEF TInv
  <2>2. Sets!Cardinality(Places(f)) = 1
    BY <2>1, Sets!FS_Singleton, Zenon
  <2> QED BY <2>2 DEF Sets!Cardinality, Cardinality
<1> QED BY <1>1, <1>2, <1>3, PTL DEF Spec
=============================================================================
