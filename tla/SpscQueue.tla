----------------------------- MODULE SpscQueue -----------------------------
(***************************************************************************)
(* hft::SpscQueue<T, Capacity> (1_orderbook/include/spsc_queue.hpp): the   *)
(* wait-free ring shared by one producer thread and one consumer thread.   *)
(*                                                                         *)
(* The threads interleave at every access to shared memory, under the C++  *)
(* release/acquire rules rather than sequential consistency.  An atomic    *)
(* index is the sequence of all stores made to it (its modification        *)
(* order); a load returns any store that is not older than the newest one  *)
(* its thread has already read.  A release store carries how many of its   *)
(* thread's accesses to data_ precede it; an acquire load that reads the   *)
(* store makes those accesses happen before everything that follows.  The  *)
(* cells of data_ are plain memory: an access that does not happen after   *)
(* the last conflicting one is a data race, and a racing read may return   *)
(* anything.                                                               *)
(***************************************************************************)
EXTENDS Naturals, Integers, Sequences

CONSTANTS Items,     \* the values of type T that are pushed
          Uninit,    \* what a cell of data_ holds before its first write
          Capacity,  \* template parameter, a power of two
          MaxPush    \* bound: successful pushes explored

ASSUME CapacityAssumption == Capacity \in Nat \ {0}
ASSUME MaxPushAssumption == MaxPush \in Nat
ASSUME UninitAssumption == Uninit \notin Items

VARIABLES
    head_,     \* stores to head_: [val: ring index, rel: writes released]
    tail_,     \* stores to tail_: [val: ring index, rel: reads released]
    data_,     \* the ring cells
    lastWrite, \* per cell, ordinal of the last write to it (0: none)
    lastRead,  \* per cell, ordinal of the last read of it (0: none)
    ppc,       \* where the producer is in push
    phead,     \* producer's locals: head, next, item
    pnext,
    pitem,
    pview,     \* newest store to tail_ the producer has read
    psync,     \* reads of data_ that happen before the producer's next step
    cpc,       \* where the consumer is in pop
    ctail,     \* consumer's locals: tail, item
    citem,
    cview,     \* newest store to head_ the consumer has read
    csync,     \* writes to data_ that happen before the consumer's next step
    sent,      \* history: items of the pushes that returned true
    received,  \* history: items returned by pop
    pushRet,   \* answer of the current or last push
    popRet,    \* answer of the current or last pop
    sizeRet    \* answer of the last size()

producerVars == <<ppc, phead, pnext, pitem, pview, psync, pushRet>>
consumerVars == <<cpc, ctail, citem, cview, csync, popRet>>
memory == <<head_, tail_, data_, lastWrite, lastRead>>
vars == <<memory, producerVars, consumerVars, sent, received, sizeRet>>

Index == 0 .. Capacity - 1

\* i & mask_: Capacity is a power of two, so masking is the remainder.
Mask(i) == i % Capacity

\* The value currently stored, which is what the only writer reads back.
Latest(atomic) == atomic[Len(atomic)].val

\* The stores a thread may read, given the newest one it has read so far.
Readable(atomic, view) == view .. Len(atomic)

\* What an acquire load of store k adds to what the thread is ordered after.
Acquire(atomic, k, sync) == IF atomic[k].rel > sync THEN atomic[k].rel ELSE sync

Init ==
    /\ head_ = <<[val |-> 0, rel |-> 0]>>
    /\ tail_ = <<[val |-> 0, rel |-> 0]>>
    /\ data_ = [i \in Index |-> Uninit]
    /\ lastWrite = [i \in Index |-> 0]
    /\ lastRead = [i \in Index |-> 0]
    /\ ppc = "idle" /\ phead = 0 /\ pnext = 0 /\ pitem = Uninit
    /\ pview = 1 /\ psync = 0 /\ pushRet = "none"
    /\ cpc = "idle" /\ ctail = 0 /\ citem = Uninit
    /\ cview = 1 /\ csync = 0 /\ popRet = "none"
    /\ sent = <<>>
    /\ received = <<>>
    /\ sizeRet = 0

-----------------------------------------------------------------------------
(* push(item)                                                              *)

\* Faulty variant: the index is not wrapped.
PushBeginUnmasked(item) ==
    /\ ppc = "idle"
    /\ Len(sent) < MaxPush
    /\ phead' = Latest(head_)
    /\ pnext' = Latest(head_) + 1
    /\ pitem' = item
    /\ ppc' = "check"
    /\ pushRet' = "none"
    /\ UNCHANGED <<memory, pview, psync, consumerVars, sent, received, sizeRet>>

\* The relaxed load of head_ by its only writer, and the index after it.
PushBegin(item) ==
    /\ ppc = "idle"
    /\ Len(sent) < MaxPush
    /\ phead' = Latest(head_)
    /\ pnext' = Mask(Latest(head_) + 1)
    /\ pitem' = item
    /\ ppc' = "check"
    /\ pushRet' = "none"
    /\ UNCHANGED <<memory, pview, psync, consumerVars, sent, received, sizeRet>>

\* Faulty variant: no full test.
PushCheckNeverFull(k) ==
    /\ ppc = "check"
    /\ k \in Readable(tail_, pview)
    /\ pview' = k
    /\ psync' = Acquire(tail_, k, psync)
    /\ ppc' = "write"
    /\ UNCHANGED <<memory, phead, pnext, pitem, pushRet, consumerVars, sent, received, sizeRet>>

\* Faulty variant: full is declared one cell too early.
PushCheckKeepsTwoFree(k) ==
    /\ ppc = "check"
    /\ k \in Readable(tail_, pview)
    /\ pview' = k
    /\ psync' = Acquire(tail_, k, psync)
    /\ \/ /\ tail_[k].val \in {pnext, Mask(pnext + 1)}
          /\ ppc' = "idle"
          /\ pushRet' = "false"
       \/ /\ tail_[k].val \notin {pnext, Mask(pnext + 1)}
          /\ ppc' = "write"
          /\ UNCHANGED pushRet
    /\ UNCHANGED <<memory, phead, pnext, pitem, consumerVars, sent, received, sizeRet>>

\* Faulty variant: push waits for room instead of returning false.
PushCheckSpins(k) ==
    /\ ppc = "check"
    /\ k \in Readable(tail_, pview)
    /\ pview' = k
    /\ psync' = Acquire(tail_, k, psync)
    /\ ppc' = IF pnext = tail_[k].val THEN "check" ELSE "write"
    /\ UNCHANGED <<memory, phead, pnext, pitem, pushRet, consumerVars, sent, received, sizeRet>>

\* The acquire load of tail_ and the full test.
PushCheck(k) ==
    /\ ppc = "check"
    /\ k \in Readable(tail_, pview)
    /\ pview' = k
    /\ psync' = Acquire(tail_, k, psync)
    /\ \/ /\ pnext = tail_[k].val
          /\ ppc' = "idle"
          /\ pushRet' = "false"
       \/ /\ pnext # tail_[k].val
          /\ ppc' = "write"
          /\ UNCHANGED pushRet
    /\ UNCHANGED <<memory, phead, pnext, pitem, consumerVars, sent, received, sizeRet>>

\* Faulty variant: the item goes to the cell after head.
PushWriteNextCell ==
    /\ ppc = "write"
    /\ data_' = [data_ EXCEPT ![pnext] = pitem]
    /\ lastWrite' = [lastWrite EXCEPT ![pnext] = Len(sent) + 1]
    /\ ppc' = "publish"
    /\ UNCHANGED <<head_, tail_, lastRead, phead, pnext, pitem, pview, psync, pushRet,
                   consumerVars, sent, received, sizeRet>>

\* data_[head] = item
PushWrite ==
    /\ ppc = "write"
    /\ data_' = [data_ EXCEPT ![phead] = pitem]
    /\ lastWrite' = [lastWrite EXCEPT ![phead] = Len(sent) + 1]
    /\ ppc' = "publish"
    /\ UNCHANGED <<head_, tail_, lastRead, phead, pnext, pitem, pview, psync, pushRet,
                   consumerVars, sent, received, sizeRet>>

\* Faulty variant: a relaxed store of head_, which releases nothing.
PushPublishRelaxed ==
    /\ ppc = "publish"
    /\ head_' = Append(head_, [val |-> pnext, rel |-> 0])
    /\ sent' = Append(sent, pitem)
    /\ ppc' = "idle"
    /\ pushRet' = "true"
    /\ UNCHANGED <<tail_, data_, lastWrite, lastRead, phead, pnext, pitem, pview, psync,
                   consumerVars, received, sizeRet>>

\* The release store of head_; push returns true.
PushPublish ==
    /\ ppc = "publish"
    /\ head_' = Append(head_, [val |-> pnext, rel |-> Len(sent) + 1])
    /\ sent' = Append(sent, pitem)
    /\ ppc' = "idle"
    /\ pushRet' = "true"
    /\ UNCHANGED <<tail_, data_, lastWrite, lastRead, phead, pnext, pitem, pview, psync,
                   consumerVars, received, sizeRet>>

-----------------------------------------------------------------------------
(* pop()                                                                   *)

\* The relaxed load of tail_ by its only writer.
PopBegin ==
    /\ cpc = "idle"
    /\ ctail' = Latest(tail_)
    /\ cpc' = "check"
    /\ popRet' = "none"
    /\ UNCHANGED <<memory, producerVars, citem, cview, csync, sent, received, sizeRet>>

\* Faulty variant: the consumer keeps testing a cached head_.
PopCheckCached(k) ==
    /\ cpc = "check"
    /\ k = cview
    /\ IF ctail = head_[k].val
       THEN cpc' = "idle" /\ popRet' = "nullopt"
       ELSE cpc' = "read" /\ UNCHANGED popRet
    /\ UNCHANGED <<memory, producerVars, ctail, citem, cview, csync, sent, received, sizeRet>>

\* The acquire load of head_ and the empty test.
PopCheck(k) ==
    /\ cpc = "check"
    /\ k \in Readable(head_, cview)
    /\ cview' = k
    /\ csync' = Acquire(head_, k, csync)
    /\ \/ /\ ctail = head_[k].val
          /\ cpc' = "idle"
          /\ popRet' = "nullopt"
       \/ /\ ctail # head_[k].val
          /\ cpc' = "read"
          /\ UNCHANGED popRet
    /\ UNCHANGED <<memory, producerVars, ctail, citem, sent, received, sizeRet>>

\* What reading a cell can return: its value if the last write to it happens
\* before the read, anything if the read races with that write.
ReadOutcomes(i) ==
    IF lastWrite[i] <= csync THEN {data_[i]} ELSE Items \cup {Uninit}

\* T item = data_[tail]
PopRead ==
    /\ cpc = "read"
    /\ citem' \in ReadOutcomes(ctail)
    /\ lastRead' = [lastRead EXCEPT ![ctail] = Len(received) + 1]
    /\ cpc' = "release"
    /\ UNCHANGED <<head_, tail_, data_, lastWrite, producerVars, ctail, cview, csync, popRet,
                   sent, received, sizeRet>>

\* The release store of tail_; pop returns the item.
PopRelease ==
    /\ cpc = "release"
    /\ tail_' = Append(tail_, [val |-> Mask(ctail + 1), rel |-> Len(received) + 1])
    /\ received' = Append(received, citem)
    /\ cpc' = "idle"
    /\ popRet' = "item"
    /\ UNCHANGED <<head_, data_, lastWrite, lastRead, producerVars, ctail, citem, cview, csync,
                   sent, sizeRet>>

-----------------------------------------------------------------------------
(* size(), called by either thread between its own operations; empty() is  *)
(* the same two loads and answers whether size() is zero.  The load of the *)
(* thread's own index is exact, so only the other load can be stale.       *)

PushSideSize(k) ==
    /\ ppc = "idle"
    /\ k \in Readable(tail_, pview)
    /\ pview' = k
    /\ psync' = Acquire(tail_, k, psync)
    /\ sizeRet' = Mask(Latest(head_) - tail_[k].val)
    /\ UNCHANGED <<memory, ppc, phead, pnext, pitem, pushRet, consumerVars, sent, received>>

PopSideSize(k) ==
    /\ cpc = "idle"
    /\ k \in Readable(head_, cview)
    /\ cview' = k
    /\ csync' = Acquire(head_, k, csync)
    /\ sizeRet' = Mask(head_[k].val - Latest(tail_))
    /\ UNCHANGED <<memory, producerVars, cpc, ctail, citem, popRet, sent, received>>

-----------------------------------------------------------------------------

Producer ==
    \/ \E item \in Items : PushBegin(item)
    \/ \E k \in 1 .. Len(tail_) : PushCheck(k)
    \/ PushWrite
    \/ PushPublish
    \/ \E k \in 1 .. Len(tail_) : PushSideSize(k)

Consumer ==
    \/ PopBegin
    \/ \E k \in 1 .. Len(head_) : PopCheck(k)
    \/ PopRead
    \/ PopRelease
    \/ \E k \in 1 .. Len(head_) : PopSideSize(k)

Next == Producer \/ Consumer

Spec == Init /\ [][Next]_vars

\* A thread inside a call is eventually scheduled.  Neither condition asks
\* anything of the other thread.
PushProgress ==
    /\ WF_vars(\E k \in 1 .. Len(tail_) : PushCheck(k))
    /\ WF_vars(PushWrite)
    /\ WF_vars(PushPublish)

PopProgress ==
    /\ WF_vars(\E k \in 1 .. Len(head_) : PopCheck(k))
    /\ WF_vars(PopRead)
    /\ WF_vars(PopRelease)

\* Both threads keep calling, are scheduled inside their calls, and a store
\* becomes visible to the other thread's loads in finite time.
BothKeepRunning ==
    /\ PushProgress
    /\ PopProgress
    /\ WF_vars(\E item \in Items : PushBegin(item))
    /\ WF_vars(PopBegin)
    /\ SF_vars(PushCheck(Len(tail_)))
    /\ SF_vars(PopCheck(Len(head_)))

-----------------------------------------------------------------------------
(* Properties.                                                             *)

Stores == [val : Index, rel : Nat]
Cell == Items \cup {Uninit}

\* Ring indices stay inside the ring and every other variable in its range:
\* the subscripts data_[head] and data_[tail] are always valid.
TypeOK ==
    /\ head_ \in Seq(Stores) /\ head_ # <<>>
    /\ tail_ \in Seq(Stores) /\ tail_ # <<>>
    /\ data_ \in [Index -> Cell]
    /\ lastWrite \in [Index -> Nat]
    /\ lastRead \in [Index -> Nat]
    /\ ppc \in {"idle", "check", "write", "publish"}
    /\ phead \in Index /\ pnext \in Index /\ pitem \in Cell
    /\ pview \in 1 .. Len(tail_) /\ psync \in Nat
    /\ cpc \in {"idle", "check", "read", "release"}
    /\ ctail \in Index /\ citem \in Cell
    /\ cview \in 1 .. Len(head_) /\ csync \in Nat
    /\ sent \in Seq(Cell)
    /\ received \in Seq(Cell)
    /\ pushRet \in {"none", "true", "false"}
    /\ popRet \in {"none", "item", "nullopt"}
    /\ sizeRet \in Index

\* The acquire/release pairs on head_ and tail_ order every write of a cell
\* after the read that emptied it, and every read after the write that
\* filled it: push and pop never race on data_.
NoDataRace ==
    /\ ppc = "write" => lastRead[phead] <= psync
    /\ cpc = "read" => lastWrite[ctail] <= csync

\* pop hands out the pushed items in order: none lost, duplicated, overtaken
\* or overwritten before it was read.
FifoOrder ==
    /\ Len(received) <= Len(sent)
    /\ \A i \in 1 .. Len(received) : received[i] = sent[i]

\* One cell always stays free: the ring never holds more than Capacity - 1
\* items, however stale the tail_ that push tested.
NeverOverfull == Len(sent) - Len(received) <= Capacity - 1

\* The ring is a bounded FIFO with delayed notice: push refuses only when all
\* places the producer could know of are taken, pop comes back empty only
\* when nothing it could know of is queued, and size() errs on the safe side.
Fifo == INSTANCE BoundedFifo WITH
    Bound <- Capacity - 1,
    queue <- SubSeq(sent, Len(received) + 1, Len(sent)),
    credit <- Capacity - 1 - (Len(sent) - (pview - 1)),
    returned <- Len(received) - (pview - 1),
    visible <- (cview - 1) - Len(received),
    out <- received

ImplementsFifo == Fifo!ASpec

\* "Wait-free": a push returns whatever the consumer does or fails to do, and
\* a pop returns whatever the producer does or fails to do.
WaitFree ==
    /\ PushProgress => (ppc # "idle" ~> ppc = "idle")
    /\ PopProgress => (cpc # "idle" ~> cpc = "idle")

\* A producer that keeps retrying gets every item accepted, and the consumer
\* that keeps polling receives every one of them.
AllDelivered == BothKeepRunning => <>(Len(received) = MaxPush)
=============================================================================
