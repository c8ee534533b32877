--------------------------- MODULE HazardPointers ---------------------------
(***************************************************************************)
(* hft::HazardPointerDomain<T> (1_orderbook/include/hazard_pointers.hpp):  *)
(* readers announce the pointers they use in slots of a shared array; a    *)
(* retired pointer is deleted by a scan that finds it in no slot.          *)
(*                                                                         *)
(* Readers acquire and release concurrently with one reclaiming thread     *)
(* (retired_ is "thread-unsafe", line 110).  A store to a slot is a        *)
(* release store: it waits in its thread's buffer and reaches memory       *)
(* later, in order, so that the scan may miss it; the thread itself sees   *)
(* it at once.  Nothing in the repository uses the domain yet; its client  *)
(* is assumed to read a pointer while it is reachable, to retire it once,  *)
(* after making it unreachable, and to release what it acquired.           *)
(***************************************************************************)
EXTENDS Integers, Sequences, FiniteSets

CONSTANTS Readers,           \* threads that call acquire and release
          Ptrs,              \* objects
          Null,              \* nullptr
          num_threads_,      \* constructor argument
          ThreadId,          \* per reader: hash of its id % num_threads_
          MAX_HAZARD_PTRS,   \* slots per thread id
          RETIRED_THRESHOLD, \* retirements that trigger a scan
          BufferBound        \* bound: stores a thread has in flight

ASSUME ThreadIdAssumption ==
    num_threads_ \in Nat \ {0} /\ ThreadId \in [Readers -> 0 .. num_threads_ - 1]
ASSUME SizesAssumption ==
    MAX_HAZARD_PTRS \in Nat \ {0} /\ RETIRED_THRESHOLD \in Nat /\ BufferBound \in Nat
ASSUME NullAssumption == Null \notin Ptrs

VARIABLES
    hazard_ptrs_, \* the slots, in memory
    buffer,       \* per reader: stores on their way to memory, [slot, ptr]
    retired_,     \* the reclaimer's list
    rpc,          \* per reader: "idle", or "store" inside acquire
    rptr,         \* per reader: argument of acquire
    rslot,        \* per reader: slot found by get_free_slot
    held,         \* per reader: handles [slot, ptr, published]
    spc,          \* reclaimer: "idle", "scan" or "destroyed"
    si, sj,       \* reclaimer: loop variables i and j of the scan
    is_hazardous, \* reclaimer: positions of retired_ found in a slot
    reachable,    \* client: objects not yet retired
    deletions     \* history: how often each object was deleted

readerVars == <<rpc, rptr, rslot>>
scanVars == <<spc, si, sj, is_hazardous>>
vars == <<hazard_ptrs_, buffer, retired_, readerVars, held, scanVars, reachable, deletions>>

Index == 0 .. num_threads_ * MAX_HAZARD_PTRS - 1
SlotIndex(r, slot) == ThreadId[r] * MAX_HAZARD_PTRS + slot

Init ==
    /\ hazard_ptrs_ = [j \in Index |-> Null]
    /\ buffer = [r \in Readers |-> <<>>]
    /\ retired_ = <<>>
    /\ rpc = [r \in Readers |-> "idle"]
    /\ rptr = [r \in Readers |-> Null]
    /\ rslot = [r \in Readers |-> 0]
    /\ held = [r \in Readers |-> {}]
    /\ spc = "idle" /\ si = 1 /\ sj = 0 /\ is_hazardous = {}
    /\ reachable = Ptrs
    /\ deletions = [p \in Ptrs |-> 0]

-----------------------------------------------------------------------------
(* Readers                                                                 *)

\* What reader r's loads of slot j return: its own latest store, or memory.
Sees(r, j) ==
    LET own == {k \in DOMAIN buffer[r] : buffer[r][k].slot = j}
    IN  IF own = {} THEN hazard_ptrs_[j]
        ELSE buffer[r][CHOOSE k \in own : \A l \in own : l <= k].ptr

FreeSlots(r) == {i \in 0 .. MAX_HAZARD_PTRS - 1 : Sees(r, SlotIndex(r, i)) = Null}

\* acquire(ptr): get_free_slot picks the first free slot.  Its loads are one step: a
\* slot it has seen taken may be cleared meanwhile only by a reader with the same id.
AcquireFind(r, ptr) ==
    /\ spc # "destroyed" /\ rpc[r] = "idle" /\ ptr \in reachable
    /\ \E i \in FreeSlots(r) :
          /\ \A k \in FreeSlots(r) : i <= k
          /\ rslot' = [rslot EXCEPT ![r] = i]
    /\ rptr' = [rptr EXCEPT ![r] = ptr]
    /\ rpc' = [rpc EXCEPT ![r] = "store"]
    /\ UNCHANGED <<hazard_ptrs_, buffer, retired_, held, scanVars, reachable, deletions>>

\* acquire(ptr) answers -1; release(-1) does nothing.
AcquireFull(r) ==
    /\ spc # "destroyed" /\ rpc[r] = "idle"
    /\ FreeSlots(r) = {}
    /\ UNCHANGED vars

\* acquire(ptr): the store, and the return.
AcquireStore(r) ==
    /\ rpc[r] = "store"
    /\ Len(buffer[r]) < BufferBound
    /\ buffer' = [buffer EXCEPT ![r] =
                    Append(@, [slot |-> SlotIndex(r, rslot[r]), ptr |-> rptr[r]])]
    /\ held' = [held EXCEPT ![r] = @ \cup
                    {[slot |-> rslot[r], ptr |-> rptr[r], published |-> FALSE]}]
    /\ rpc' = [rpc EXCEPT ![r] = "idle"]
    /\ rptr' = [rptr EXCEPT ![r] = Null]
    /\ rslot' = [rslot EXCEPT ![r] = 0]
    /\ UNCHANGED <<hazard_ptrs_, retired_, scanVars, reachable, deletions>>

\* Faulty variant: the slot is not cleared.
ReleaseForgets(r, ptr) ==
    /\ rpc[r] = "idle"
    /\ Len(buffer[r]) < BufferBound
    /\ \E h \in held[r] : h.ptr = ptr /\ held' = [held EXCEPT ![r] = @ \ {h}]
    /\ UNCHANGED <<hazard_ptrs_, buffer, retired_, readerVars, scanVars, reachable, deletions>>

\* release(slot), for a slot that acquire(ptr) returned
Release(r, ptr) ==
    /\ rpc[r] = "idle"
    /\ Len(buffer[r]) < BufferBound
    /\ \E h \in held[r] :
          /\ h.ptr = ptr
          /\ held' = [held EXCEPT ![r] = @ \ {h}]
          /\ buffer' = [buffer EXCEPT ![r] =
                          Append(@, [slot |-> SlotIndex(r, h.slot), ptr |-> Null])]
    /\ UNCHANGED <<hazard_ptrs_, retired_, readerVars, scanVars, reachable, deletions>>

\* The oldest store of r reaches memory.  A handle whose store gets there
\* while the object is reachable is published: from now on it must count.
Flush(r) ==
    /\ buffer[r] # <<>>
    /\ LET s == Head(buffer[r])
       IN  /\ hazard_ptrs_' = [hazard_ptrs_ EXCEPT ![s.slot] = s.ptr]
           /\ held' = [held EXCEPT ![r] =
                {IF /\ SlotIndex(r, h.slot) = s.slot /\ h.ptr = s.ptr
                    /\ s.ptr \in reachable
                    /\ \A k \in 2 .. Len(buffer[r]) : buffer[r][k].slot # s.slot
                 THEN [h EXCEPT !.published = TRUE] ELSE h : h \in @}]
    /\ buffer' = [buffer EXCEPT ![r] = Tail(@)]
    /\ UNCHANGED <<retired_, readerVars, scanVars, reachable, deletions>>

-----------------------------------------------------------------------------
(* The reclaiming thread                                                   *)

\* Entering and leaving scan_and_reclaim; its locals are as good as new outside.
StartScan == spc' = "scan" /\ UNCHANGED <<si, sj, is_hazardous>>
EndScan == spc' = "idle" /\ si' = 1 /\ sj' = 0 /\ is_hazardous' = {}

\* The client has made ptr unreachable and calls retire(ptr).
Retire(ptr) ==
    /\ spc = "idle" /\ ptr \in reachable
    /\ reachable' = reachable \ {ptr}
    /\ retired_' = Append(retired_, ptr)
    /\ IF Len(retired_') >= RETIRED_THRESHOLD THEN StartScan ELSE UNCHANGED scanVars
    /\ UNCHANGED <<hazard_ptrs_, buffer, readerVars, held, deletions>>

\* scan_and_reclaim() called by the client; with nothing retired it returns.
ScanAndReclaim ==
    /\ spc = "idle"
    /\ IF retired_ = <<>> THEN UNCHANGED scanVars ELSE StartScan
    /\ UNCHANGED <<hazard_ptrs_, buffer, retired_, readerVars, held, reachable, deletions>>

\* Faulty variant: the scan goes one slot too far.
ScanLoadPastEnd ==
    /\ spc = "scan" /\ si <= Len(retired_)
    /\ LET found == hazard_ptrs_[sj] = retired_[si]
           last  == sj = num_threads_ * MAX_HAZARD_PTRS
       IN  /\ is_hazardous' = IF found THEN is_hazardous \cup {si} ELSE is_hazardous
           /\ si' = IF found \/ last THEN si + 1 ELSE si
           /\ sj' = IF found \/ last THEN 0 ELSE sj + 1
    /\ UNCHANGED <<hazard_ptrs_, buffer, retired_, readerVars, held, spc, reachable, deletions>>

\* Faulty variant: the scan looks at the slots of one thread only.
ScanLoadOneThread ==
    /\ spc = "scan" /\ si <= Len(retired_)
    /\ LET found == hazard_ptrs_[sj] = retired_[si]
           last  == sj + 1 = MAX_HAZARD_PTRS
       IN  /\ is_hazardous' = IF found THEN is_hazardous \cup {si} ELSE is_hazardous
           /\ si' = IF found \/ last THEN si + 1 ELSE si
           /\ sj' = IF found \/ last THEN 0 ELSE sj + 1
    /\ UNCHANGED <<hazard_ptrs_, buffer, retired_, readerVars, held, spc, reachable, deletions>>

\* One load of the scan: slot sj against retired_[si], breaking off when found.
ScanLoad ==
    /\ spc = "scan" /\ si <= Len(retired_)
    /\ LET found == hazard_ptrs_[sj] = retired_[si]
           last  == sj + 1 = num_threads_ * MAX_HAZARD_PTRS
       IN  /\ is_hazardous' = IF found THEN is_hazardous \cup {si} ELSE is_hazardous
           /\ si' = IF found \/ last THEN si + 1 ELSE si
           /\ sj' = IF found \/ last THEN 0 ELSE sj + 1
    /\ UNCHANGED <<hazard_ptrs_, buffer, retired_, readerVars, held, spc, reachable, deletions>>

\* Faulty variant: the list is not replaced by what was kept.
ReclaimKeepsList ==
    /\ spc = "scan" /\ si > Len(retired_)
    /\ LET gone == {retired_[i] : i \in DOMAIN retired_ \ is_hazardous}
       IN  deletions' = [p \in Ptrs |-> deletions[p] + IF p \in gone THEN 1 ELSE 0]
    /\ EndScan
    /\ UNCHANGED <<hazard_ptrs_, buffer, retired_, readerVars, held, reachable>>

\* The second loop: delete what no slot named, keep the rest (new_retired: their
\* positions) in order.
Reclaim ==
    /\ spc = "scan" /\ si > Len(retired_)
    /\ LET gone == {retired_[i] : i \in DOMAIN retired_ \ is_hazardous}
       IN  deletions' = [p \in Ptrs |-> deletions[p] + IF p \in gone THEN 1 ELSE 0]
    /\ \E n \in 0 .. Len(retired_) : \E new_retired \in [1 .. n -> is_hazardous] :
          /\ \A k \in is_hazardous : \E i \in 1 .. n : new_retired[i] = k
          /\ \A i, k \in 1 .. n : i < k => new_retired[i] < new_retired[k]
          /\ retired_' = [i \in 1 .. n |-> retired_[new_retired[i]]]
    /\ EndScan
    /\ UNCHANGED <<hazard_ptrs_, buffer, readerVars, held, reachable>>

\* ~HazardPointerDomain(), when no reader uses the domain any more.
Destroy ==
    /\ spc = "idle"
    /\ \A r \in Readers : rpc[r] = "idle" /\ held[r] = {} /\ buffer[r] = <<>>
    /\ deletions' = [p \in Ptrs |->
            deletions[p] + Cardinality({i \in DOMAIN retired_ : retired_[i] = p})]
    /\ spc' = "destroyed"
    /\ UNCHANGED <<hazard_ptrs_, buffer, retired_, readerVars, held, si, sj, is_hazardous,
                   reachable>>

-----------------------------------------------------------------------------

Reader(r) ==
    \/ \E ptr \in Ptrs : AcquireFind(r, ptr) \/ Release(r, ptr)
    \/ AcquireFull(r)
    \/ AcquireStore(r)
    \/ Flush(r)

Reclaimer ==
    \/ \E ptr \in Ptrs : Retire(ptr)
    \/ ScanAndReclaim
    \/ ScanLoad
    \/ Reclaim
    \/ Destroy

Next == (\E r \in Readers : Reader(r)) \/ Reclaimer

Spec == Init /\ [][Next]_vars

\* Stores reach memory in finite time and the reclaimer keeps scanning.
FairSpec ==
    /\ Spec
    /\ \A r \in Readers : WF_vars(Flush(r))
    /\ WF_vars(ScanAndReclaim) /\ WF_vars(ScanLoad \/ Reclaim)

-----------------------------------------------------------------------------
(* Properties                                                              *)

Handle == [slot : 0 .. MAX_HAZARD_PTRS - 1, ptr : Ptrs, published : BOOLEAN]

\* Slot numbers stay inside the array and the scan inside its lists.
TypeOK ==
    /\ hazard_ptrs_ \in [Index -> Ptrs \cup {Null}]
    /\ buffer \in [Readers -> Seq([slot : Index, ptr : Ptrs \cup {Null}])]
    /\ retired_ \in Seq(Ptrs)
    /\ rpc \in [Readers -> {"idle", "store"}]
    /\ rptr \in [Readers -> Ptrs \cup {Null}]
    /\ rslot \in [Readers -> 0 .. MAX_HAZARD_PTRS - 1]
    /\ held \in [Readers -> SUBSET Handle]
    /\ spc \in {"idle", "scan", "destroyed"}
    /\ si \in Nat /\ sj \in Index /\ is_hazardous \subseteq 1 .. si - 1
    /\ reachable \subseteq Ptrs
    /\ deletions \in [Ptrs -> Nat]

\* An object is not deleted while a reader holds a handle to it whose slot was
\* in memory before the object was retired, however the scan's loads interleave
\* with other acquires and releases.
PublishedProtects ==
    \A r \in Readers : \A h \in held[r] : h.published => deletions[h.ptr] = 0

\* Every retired object is deleted exactly once: it waits in retired_ or is
\* deleted, never both, and the destructor deletes what is still waiting.
DeletedOnce ==
    \A p \in Ptrs :
        LET waiting == Cardinality({i \in DOMAIN retired_ : retired_[i] = p})
        IN  IF spc = "destroyed"
            THEN deletions[p] = IF p \in reachable THEN 0 ELSE 1
            ELSE deletions[p] + waiting = IF p \in reachable THEN 0 ELSE 1

\* A retired object that no reader holds or is acquiring is deleted at last, if
\* scans go on: no slot keeps naming it.
Reclaimed ==
    LET Unused(p) == \A r \in Readers : rptr[r] # p /\ \A h \in held[r] : h.ptr # p
    IN  \A p \in Ptrs : (p \notin reachable /\ Unused(p)) ~> deletions[p] > 0
=============================================================================
