# hft-engine: TLA+ models, model checking and proofs

Models of the order-matching engine in `src/`, checked with TLC on small
instances and, for the central properties, proved with TLAPS for every value of
the constants.

## The system

| Part | Source | What it does | Who runs it |
|---|---|---|---|
| `SpscQueue` | `1_orderbook/include/spsc_queue.hpp` | bounded ring, one producer, one consumer | two threads, release/acquire atomics |
| `MpscQueue` | `1_orderbook/include/mpsc_queue.hpp` | linked list with a stub, many producers, one consumer | many threads, release/acquire atomics |
| `HazardPointerDomain` | `1_orderbook/include/hazard_pointers.hpp` | protects nodes from deletion while they are read | many threads, hashed thread ids |
| `FlatPriceLadder` | `1_orderbook/include/price_level.hpp` | sorted vector of price levels | inside the book |
| `OrderBook` | `1_orderbook/src/order_book.cpp`, `include/order_book.hpp` | matching, resting, cancelling; pool of order slots with an `SpscQueue` as free list | one thread |
| `FixMessage` | `2_network/src/fix_message.cpp` | parses FIX tag=value bytes, verifies the checksum | receive thread |
| `XskSocket`, `Umem` | `2_network/src/xsk_socket.cpp`, `umem.cpp` | AF_XDP frames and rings shared with the kernel, receive loop | receive thread and kernel |
| XDP filters | `2_network/bpf/xdp_fix_redirect.c`, `ebpf/redirect.bpf.c` | which packets go to the socket | kernel, per packet |
| Tick-to-trade pipeline | `2_network/bench/bench_fix_pipeline.cpp` | FIX message to `parse` to `add_order` | one thread |
| Churn clients | `1_orderbook/bench/bench_profiling.cpp`, `bench_realistic.cpp` | `add_order` and `cancel_order` in turn, the only callers of `cancel_order` | one thread |
| FPGA parser | `3_fpga/rtl/fix_parser.v` | FIX parser as a clocked state machine | hardware |
| `TscClock` | `1_orderbook/src/tsc_clock.cpp` | time stamps | everywhere |

The parts meet in the tick-to-trade path. A filter in the kernel redirects FIX
packets to the socket's RX ring; the receive loop parses them and calls a callback;
the pipeline turns parsed messages into orders. The book uses the ladder twice
(bids, asks) and the ring once (free list).

## Modules

| Module | Models | Role |
|---|---|---|
| `SpscQueue` | `SpscQueue` | one action per shared-memory access |
| `BoundedFifo` | what `SpscQueue` promises | abstract specification |
| `MpscQueue` | `MpscQueue` | one action per shared-memory access |
| `HazardPointers` | `HazardPointerDomain` | readers, store buffers, one reclaiming thread; one action per load of the scan |
| `FlatPriceLadder` | `FlatPriceLadder` | operators on a sequence of levels |
| `OrderBook` | `OrderBook` | extends `FlatPriceLadder`; one action per call and per turn of a matching loop |
| `LimitOrderBook` | what the book promises | abstract specification |
| `XdpFilter` | both XDP programs | functions of an abstract packet |
| `XskSocket` | `XskSocket` and `Umem` | extends `XdpFilter`; set-up, receive loop, kernel |
| `FixParser` | `parse`, `verify_checksum` | functions of a byte sequence, and a reference for the meaning of a message |
| `FixPipeline` | `fix_parse_with_orderbook` | composes `FixParser` with `OrderBook` |
| `OrderChurn` | the churn clients | composes them with `OrderBook` |
| `FixParserRtl` | `fix_parser.v` and its test bench | one step per clock |
| `MC...` | | instances for TLC |
| `SpscQueueProofs`, `HazardPointersProofs` | | theorems and proofs about one module each |
| `MpscQueueInv`, `MpscQueueProofs` | | the inductive invariant of `MpscQueue`; the theorems |
| `OrderBookProofs`, `OrderBookPoolProofs` | | ladders and book; order pool and the FIX pipeline |
| `XskSocketProofs`, `XskFrameProofs` | | types, kernel objects and TCP filter; frames and packets |

Definitions called "faulty variant" are plausible mistakes in the code. Each
shows that a property notices such a mistake; no specification uses them.

### SpscQueue

The state is `head_` and `tail_` as the sequences of all stores made to them, the
cells `data_`, and the locals of one `push` and one `pop` in progress. A load
reads any store that is not older than what its thread has read before; a release
store carries the number of accesses to `data_` it publishes and an acquire load
that reads it adds them to what the reader is ordered after (`psync`, `csync`). A
read of a cell that is not ordered after the last write may return anything
(`ReadOutcomes`). `push` is `PushBegin` (lines 21-22), `PushCheck` (23-24),
`PushWrite` (25), `PushPublish` (26-27); `pop` is `PopBegin` (31), `PopCheck`
(32-33), `PopRead` (34), `PopRelease` (35-36). `size` and `empty` are
`PushSideSize` and `PopSideSize`, as the producer or the consumer may call them.
`& mask_` is the remainder; `MCSpscQueue` checks on the instance that the two agree
when Capacity is a power of two.

`BoundedFifo` is the promise: a queue of at most `Bound` items in which each
side learns of the other side's progress late. A refusal is exact for what the
producer could know, nullopt for what the consumer could know.

### MpscQueue

Nodes are addresses of a small heap; `delete` gives the address back and a later
`new` may return it. `push` is `PushAllocate` (41), `PushExchange` (42, a
read-modify-write, so it reads the newest `tail_`), `PushLink` (43); `pop` is
`PopEmpty` (50-51) or `PopLoad`, `PopRead`, `PopAdvance` (48-56). `head_` is private
to the consumer, hence its store and the delete are one step. Until the
producers are joined the load of `next` may be stale and read nullptr although the
link is stored. `knows` holds, per thread, the node constructions that happen
before its next step; it is passed on by the exchange and by the link. The
destructor runs after the join, one node per step.

### HazardPointers

`acquire` is `AcquireFind` (the search for a free slot, 27-29) and `AcquireStore` (31);
`release` is `Release`; a store waits in its thread's `buffer` until `Flush` puts it
into `hazard_ptrs_`, which is all a release store guarantees. The reclaiming thread
runs `Retire` (44-51), `ScanAndReclaim` (54-57), one `ScanLoad` per turn of the inner
loop (60-68), `Reclaim` (70-79) and `Destroy` (82-87). `held` is the client's view: the
handles it got, each marked `published` if its store reached memory while the
object was still reachable. Nothing in `src/` instantiates the template (and its
constructor copies atomics, so that it would not compile as it stands); the slots
are taken to start at nullptr, as the constructor asks. `AcquireFind` reads the
slots of its thread in one step, where `get_free_slot` loads them one by one: only
threads with the same id, and the thread itself, write to them. There is one domain, so
that `get_thread_id` keeps a thread's id in a static variable (91), shared by domains of
different sizes, does not show. The client is therefore
assumed: it acquires objects while they are reachable, retires an object once, from
one thread, and destroys the domain when no reader uses it.

### FlatPriceLadder and OrderBook

A ladder is a sequence of `[price_ticks, total_quantity]`. `LowerBound` is the
first position whose price is not below the argument; totals are unsigned of width
`U64`. In `OrderBook` a call in progress is the record `call`; the loops of
`match_aggressive_buy` and `match_aggressive_sell` make one fill per step, so the
states between two fills, which the match callback sees, are states of the model.
`FillQty` cuts the total to `U32` values as the cast at line 77 does. The free list
is the ring used by one thread: a sequence of at most `MAX_ORDERS - 1` slots whose
refused pushes are kept in `dropped`, that of the constructor included. `dropped`, `live` (orders
that rested and were not cancelled, as they came to rest) and `late` (some `cancel_order` found an order
that no longer rested) are history variables: no action depends on them. Market orders follow the same path as limit orders in the
code, so the type is only told apart from Cancel.

There are three kinds of client. `Spec` lets a client cancel any id, issued or not, at any
time. `FixPipeline` never cancels. `OrderChurn` is what the two benchmarks do: it
keeps the id of every order that was accepted and cancels the one at the back of its
list (bench_realistic.cpp:117 says "oldest").

`LimitOrderBook` is the promise: quantities per price and side and the set of resting
orders; an arriving order has a fresh id and trades at the best opposite price within
its limit, the remainder rests when nothing is left to trade with, and a cancel takes
an order and its quantity out of the book. The engine keeps this promise but for the
cancel, which leaves the quantity: `ImplementsBook` is therefore checked with the client
that does not cancel, proved for every client as long as it cancels no resting order
(`KeepsOrders`), and `MatchesByPriority` states what holds of the matching whatever was cancelled
before.

### XdpFilter and XskSocket

A packet is what the two programs look at: length, protocol fields, length of the
IP header, ports, receive queue. Fields are given as sent; `Load16` is the load of
a little-endian processor and `bpf_ntohs` its inverse, so that a comparison without
conversion is visible. The programs' answers are records of the action, the key and
the fallback of `bpf_redirect_map`.

`XskSocket` has the thread that owns the socket and the kernel. The thread runs the
constructor (`Construct`, with `mmap` and `if_nametoindex` failing or not),
`load_bpf_program` with any of its six calls failing (`LoadBpfProgram`), the loop as
`FillRxRing` (148-166), `PollRxRing` (75), one `ProcessPacket` per descriptor (171-191)
and `ReleaseBatch` (78), or the destructor (`Destroy`). The FILL ring is an array in
which old entries stay, because `submit` hands over slots whether or not they were
written; its indices wrap at `IndexRange`. A frame holds the number of the packet
written to it last, which makes an overwritten frame visible to the reader.

External, modelled from their use: the kernel (`Arrive`: filter, socket map, one frame
per packet, a frame kept when the RX ring is full), libxdp (`Reserve` grants all or
nothing; deleting a UMEM that a socket uses is refused), the operator who enters the
socket into the map (`MapSocket`), and the frame allocator: `alloc_frame`, `get_frame`,
`free_frame`, `buffer` and `UMEM_INVALID` are used in `xsk_socket.cpp` and defined nowhere
(nor is a `parse` with three arguments, so the `HAVE_LIBBPF` part does not compile as
it stands). The allocator is a queue of free frames.

What the code does besides, seen while modelling:

* `load_bpf_program` neither attaches the program nor enters the socket into its
  map, though `xsk_socket.hpp:46` says "Load and attach"; `DEPLOYMENT.md` attaches it with
  `ip link`. Until both are done every packet goes to the stack.
* The wake-up branch at line 151 submits entries that were never reserved. It is not
  taken: the socket is bound with `XDP_COPY` alone (131). For the same reason
  `force_zero_copy` has no effect and `is_zero_copy` is always false.
* A descriptor without a frame is skipped past `free_frame` (177). The branch is in
  the model; the kernel returns only frames of the region.
* The UDP program drops a FIX packet that finds no socket, and uses key 0 for every
  queue; it also takes the IP header to be 20 bytes long.
* `redirect.bpf.c` does not check that `ihl` is 5 or more (37): of a packet that claims a
  shorter IP header it reads the "ports" inside that header, and may redirect it
  although it is not FIX, against "All other packets must be passed to the normal
  stack" (`skeleton.md:574`). Such a packet arrives in `xsk_receive`; `StackGetsTheRest` excepts it.
* `parse` is given the whole Ethernet frame, headers included (183).

### FixParser and FixPipeline

`parse` is a fold over the fields of the buffer (`ParseField` is a turn of the loop,
`ParseState` the state after k turns); it shares with the reference
(`Meaning`, `Decimal`, `TenThousandTimes`) only `is_digit`, `Scan` and powers of ten. `FixPipeline` extends
`OrderBook`: `Receive` parses a buffer, `Submit` is the `if` at line 83 with the start of
`add_order`, then the book runs. Buffers are the messages of `make_fix_message` for a few
orders and, while the book is new, arbitrary rows of pieces: all rows of one or two of
27 fragments and of three complete fields, so fields are missing, repeated, reordered, empty, malformed
or run together; besides all messages `35=D|10=xyz|` that `verify_checksum` accepts.

What the code does besides, seen while modelling:

* Tags wrap modulo 2^32 and may be empty, though the comment at line 25 says "1-5
  digits". `Fits` keeps wrapped numbers out of `ParsedAsMeant`.
* A price with more than four decimals comes out too large by a factor of ten per
  digit (83); characters that are not digits, a sign included, are skipped.
* Any one character but NUL is a valid type (112), though the comment at 106 says
  "recognized"; `AgreesWithMeaning` follows line 112. Any side but `1` is a sale (`bench_fix_pipeline.cpp:84`).
* Any message with a type is valid, and nothing validates it later, though the test at
  `test_fix_parser.cpp:71` says "validation happens elsewhere": a message without
  quantity, price and side becomes an order to sell 0 at price 0.
* `verify_checksum` sums up to the last SOH, its own field included, though the
  comment at line 125 says "to before checksum field": it does not accept messages
  whose checksum follows the FIX rule, and does not notice a change of the last
  digit of the checksum. `ChecksumNotices` is about the fields before that one, where the
  comment and the code agree.

### FixParserRtl

All assignments are nonblocking, so `next_state` is a register and the state follows
it one clock late. `TestBench` drives the bytes of `fix_parser_tb.v`: one clock valid, one
clock not. Registers power up as zero, as on the Artix-7 the module is written for;
in a simulator `next_state` starts undefined, since reset does not set it (43-48), and
the machine does not start at all. `PROCESS_FIELD` spends a byte without looking at
it, so the first digit of the next tag is lost.

## Runs

Passing runs:

| Run | Checks | Bounds |
|---|---|---|
| `spsc` | `TypeOK`, `NoDataRace`, `FifoOrder`, `NeverOverfull`, `ImplementsFifo`, `WaitFree`, `AllDelivered` | Capacity 4, 6 pushes of two values: the ring wraps and is full at several positions |
| `mpsc` | `TypeOK`, `NoUseAfterFree`, `NoDataRace`, `FifoOrder`, `DrainComplete`, `NoLeak`, `Delivered` | 3 producers, 2 pushes each, 2 addresses besides that of the stub: two links can be pending and stored in either order, and addresses are reused |
| `hazard_distinct_ids` | `TypeOK`, `PublishedProtects`, `DeletedOnce`, `Reclaimed` | 2 readers with an id each, 2 slots per id, 2 objects, threshold 2, one store in flight per reader |
| `book_any_client` | `TypeOK`, `LaddersSorted`, `NoEmptyLevels`, `Uncrossed`, `PoolKept`, `MatchesByPriority` | cancels of any id, 2 prices, 4 calls, 4 slots, levels that exceed `U32` |
| `xsk_receive` | `TypeOK`, `OneOwner`, `ReadAsDelivered`, `LeaksOnlyByReload`, `StackGetsTheRest`, `FixIsRedirected`, `DeliveredAreRead`, `FramesReturn` | 7 frames, FILL ring of 4, RX ring of 3, batches of 2, indices modulo 8, 6 packets, 2 loads: both rings fill up, batches are partial, indices and the FILL ring wrap |
| `fix_pipeline` | `ParsedAsMeant`, `RoundTrip`, `ChecksumNotices`, `ImplementsBook`, `NarrowLevelsReturn`, `SlotsAccounted`, `NothingDropped`, `RecentLiveAreFound` | 3 orders that rest, match in part and in full, about 3000 other buffers, 8 calls, 4 slots: the pool is exhausted, two ids share an entry of the map, and a level comes to hold exactly `U32` |

Seven frames are one more than the FILL ring and a batch need; TLC finds `OneOwner`
violated with six. That `num_frames >= FILL ring + batch + 1` suffices for all sizes is
proved (`FramesHaveOneOwner`): that many frames can be away when `fill_rx_ring` reserves, the last one
kept by the kernel. The default of 4096 frames with rings of 2048 is far above that.

Deadlock is not checked where the client or the owner may stop for good: the
pipeline at its bound on calls, the destroyed queue, domain or socket.

Runs in which TLC finds that the code departs from what a comment, a test or the
design says (quotations are in `PROJECT.json`):

| Run | Property | What happens |
|---|---|---|
| `book_cancel_quantity` | `CancelEmptiesBook` | cancelled quantity stays in the ladder |
| `hazard_same_id` | `PublishedProtects` | two readers with one hashed id take the same slot; one loses its protection |
| `xsk_fill_ring` | `OneOwner` | with as many frames as FILL entries, entries that were not written are submitted and a frame gets a second owner |
| `xdp_udp_filter` | `FixIsRedirected` | the UDP program redirects nothing: `h_proto` is compared in network byte order |
| `order_churn` | `FreeSlotsUnused` | an order rests, the next fills it and is itself filled; the cancel of its id puts its slot, which is free, into the free list again |
| `fpga_test_bench` | `MessageParsed` | the message of the test bench never raises `o_msg_valid` |

Consequences that show in the same models and have no run of their own:

* The matching loop never ends on a level whose total is a multiple of 2^32: the
  cast at `order_book.cpp:77` makes the fill 0. This is why `NarrowLevelsReturn` excludes such
  levels.
* Of the four properties `PoolKept` combines, a late cancel breaks three: `FreeSlotsUnused` at
  once (`order_churn`); `NothingDropped` when the list is full, where the comment at line 120 calls
  the refusal "Safe to ignore"; then `RecentLiveAreFound`, when two orders have got the same slot and the
  second has overwritten the record of the first. `SlotsAccounted` survives: a slot in two
  places is not lost, and a refused one is counted.
* An order that rests while `MAX_ORDERS` later ids are issued is no longer found by
  `cancel_order` (44). `RecentLiveAreFound` states what remains true.
* The constructor's last push is refused, so slot `MAX_ORDERS - 1` is never used
  although the comment at `order_book.cpp:12` says all slots are pooled (`Init`).
* The slot of an order that rested and was filled later comes back only if the order
  is cancelled all the same (`SlotsAccounted`).
* `load_bpf_program` called again after a failure overwrites handles whose objects stay
  open (`LeaksOnlyByReload` is about one call).

The widths `U32` and `U64` are small numbers standing for 2^32 and 2^64 with
`U64 = U32 * U32`; in `book_any_client` one level can exceed `U32`, none reaches
`U64`. `MaxCalls` bounds the calls, `MaxPush` the pushes, `Addr` the heap, `MaxPackets` the
arrivals, `MaxLoads` the calls of `load_bpf_program`.

## Fairness

* `SpscQueue!BothKeepRunning`, the premise of `AllDelivered`: both threads keep calling and are scheduled inside their
  calls (weak fairness of each step); a store becomes visible in finite time, as
  the C++ standard asks of atomic stores (strong fairness of the check that reads
  the newest store). `WaitFree` uses less: each thread's own progress implies that
  its call returns, with nothing asked of the other thread.
* `MpscQueue!FairSpec`: weak fairness of each producer and of the consumer's
  successful pop. Delivery really needs each producer's: one that stops between
  exchange and link hides all later items.
* `HazardPointers!FairSpec`: stores reach memory in finite time and the reclaiming
  thread goes on calling `scan_and_reclaim` and finishes its scans. Readers are not
  assumed to do anything.
* `FixPipeline!FairPipelineSpec`: weak fairness of the steps inside `add_order`, a loop in
  one thread; for `NarrowLevelsReturn`. Nothing is asked of the network.
* `XskSocket!FairSpec`: weak fairness of the receive loop, which "busy-polls, never
  yields to OS" (`xsk_socket.hpp:43`). Nothing is asked of the network, the operator or the
  client: packets may stop coming, the socket may never be mapped.

## Proofs

The theorems hold for every value of the constants that satisfies the assumptions
named in the modules. The bounds of the runs (`MaxPush`, `MaxCalls`, `MaxPackets`,
`MaxLoads`) are constants too and may be any natural number.

| Assumption | Module | Says |
|---|---|---|
| `CapacityAssumption`, `MaxPushAssumption`, `UninitAssumption` | `SpscQueue` | the capacity is positive; a cell never written is told apart from an item |
| `NullAssumption`, `ItemAssumption` | `MpscQueue` | nullptr is no address, the stub's content is no item |
| `ThreadIdAssumption`, `SizesAssumption`, `NullAssumption` | `HazardPointers` | sizes and hashed ids are natural numbers in range, nullptr is no object |
| `U64Assumption`, `WidthAssumption`, `PoolAssumption`, `ClientAssumption` | `FlatPriceLadder`, `OrderBook` | positive widths and sizes, integer prices, 32-bit quantities |
| `SizeAssumption`, `BoundAssumption` | `XskSocket` | positive sizes, a batch fits into the FILL ring, whose size divides the range of the indices |

Some theorems have a hypothesis of their own. Each is written in the theorem, and a run
or a remark shows what happens without it:

| Hypothesis | Theorems | Without it |
|---|---|---|
| `DistinctThreadIds`: no two readers hash to one id | `PublishedProtected` | `hazard_same_id` |
| `TotalsFit`: all quantities together stay below 2^64; true of the first 2^32 orders at least | `LevelsHoldSomething`, `MatchesInPriority`, `RefinesBook`, `PipelineImplementsBook` | a total that wraps to 0 is an empty level and loses orders |
| `KeepsOrders`: no resting order is cancelled | `RefinesBook` | `book_cancel_quantity` |
| `~late`, inside `PoolKept`: no cancel has found an order that no longer rests | `PoolStaysKept` | `order_churn`; `LateCancelBreaksPool` |
| `OrdersInRange`: `Prices` and `Quantities` include what `parse` returns for the orders that arrive; in the code they are all values of the types | the `Pipeline...` theorems | the pipeline makes calls the book's client may not make |
| `EnoughFrames`: FILL ring + batch + 1 frames | `FramesHaveOneOwner`, `NoStaleEntries`, `PacketsReadAsDelivered` | `xsk_fill_ring` |
| `TcpFilter`: `redirect.bpf.c` is attached; fields of packets have the values their widths allow | `TcpStackGetsTheRest`, `TcpFixIsRedirected` | `xdp_udp_filter` |

### The two queues

**SpscQueueProofs**: `TypeCorrect`, `RaceFreedom`, `OrderKept`, `Bounded`. None of the
four is inductive. `IInv` numbers the operations: the k-th store to an index has
the value `(k-1) mod Capacity` and releases k-1 accesses (`HeadStores`,
`TailStores`); what a thread has read of the other's index is a count of the
other's operations that keeps both within one turn of the ring (`Views`); equal
indices therefore mean equal positions (`MaskInjective`), from which contents
and the order of accesses follow. Nothing uses that Capacity is a power of two
beyond the remainder. `RefinesFifo` uses the same invariant: the abstract queue is what
was pushed and not popped, what each side has been told of is its view, and every step
of the ring is a step of `BoundedFifo` or a stutter.

**MpscQueueInv** and **MpscQueueProofs**: `TypeCorrect`, `NeverUsedAfterFree`, `DataRaceFree`, `Fifo`,
`NothingLeaks`, `DrainsCompletely`, for any number of producers. Addresses are reused, so the
argument is about positions. The k-th exchange on `tail_` gives its item position k
(`Sequenced`). `PInv` says that for some `first`, the position of `head_`, the live nodes stand on
the positions from `first` to that of `tail_` without a gap and none stands elsewhere
(`NoGap`, `NoStray`, `TailLast`); that a link leads to the next position
(`LinksNeighbours`); and that a link is missing exactly where one producer is between its
exchange and its store of `next` (`PendingIsMissing`, `MissingIsPending`). `Known` adds whose
construction each thread is ordered after. `Walk` extends this to the destructor.

### HazardPointers

`TypeCorrect` and `RetiredDeletedOnce` hold whatever the readers do and whatever their ids
are: `ListInv` says that no object is listed twice and that a retired one is listed or was
deleted once. `PublishedProtected` needs `DistinctThreadIds`. A slot then has one writer,
whose last store to it, in memory or still in flight, is known (`Slots`), and a scan that has
passed a published handle's slot has marked its object (`Scanned`).

### The book

**OrderBookProofs** begins with what `LowerBound`, `Upsert`, `RemoveIfEmpty` and
`QuantityAt` do to a sorted ladder of any length: which prices have a level
afterwards, that it stays sorted, and the quantity at every price (`UpsertQuantity`,
`RemoveIfEmptyQuantity`). Then, for every client (`Spec`): `TypeCorrect`, `SortedLadders`,
`NeverCrossed`. `Uncrossed` compares the best prices only; when the best level is removed
the next one takes its place, so the inductive invariant says that every bid is
below every ask (`Separated`) and that the ladders are sorted. For `LevelsHoldSomething`,
`MatchesInPriority` and `RefinesBook`, `Volume` bounds each level by what the orders issued so far could have
brought, less what the order in progress still has to bring, so that under `TotalsFit`
no addition wraps. The refinement maps a ladder to the quantity at each price; the best
opposite level within the limit is the end of the sorted ladder. A fill of 0, on a level
whose low 32 bits are 0, changes nothing at all (`FillOfNothing`), so `MatchesInPriority` holds of it.
That ids are fresh is `Numbered`.

**OrderBookPoolProofs**, for every client: `PoolStaysKept`. `cancel_order` frees whatever slot the map and the
pool lead it to, so `PInv` says that the record in an owner's slot has the owner's
id (`Records`) and that no id is in the pool twice (`IdsOnce`): the slot found is then
the order's own, if the order rests. That the free list never refuses a slot is the pigeonhole
principle: the list holds distinct pooled slots and not the one that is pushed.
Recent ids keep their entries because ids less than `MAX_ORDERS` apart differ modulo
`MAX_ORDERS` (`MapInjective`). `PInv` is preserved by every step but one, the cancel that finds an
order that does not rest, so what holds always is `LInv`: `PInv` until `late`. `LateCancelBreaksPool` shows that
the exception is exact: the slot such a cancel pushes is pooled and written
(`Written`) and has no owner, so it is free already (`Accounted`), and the push either doubles it or
is refused.

The same module then turns to the pipeline. Its steps are steps of `add_order` or leave the book alone
(`ClientNext`); the invariant `Waiting` says that the order about to be submitted is one `parse` returned.
Hence it is a client of `Spec` for which `KeepsOrders` and `~late` always hold (`PipelineIsClient`), and the theorems about the
book carry over, without these conditions, to a book that is fed with FIX messages: `PipelineKeepsPool`,
`PipelineNeverCrosses`, `PipelineImplementsBook`. Nothing is used of the parser but the range of its results.

### The socket

**XskSocketProofs**. `TypeCorrect` needs that indices which wrap at `IndexRange` still tell the
number of entries between them (`Level`) and that entries keep their slots across the
wrap. `ObjectsReleased`: while `load_bpf_program` has been called once,
the handles name all objects there are (`Handled`). The filter theorems are about one arrival
at a time: the offset of the ports follows the length of the IP header, `bpf_ntohs` undoes
the load, and whatever the header says the program never answers anything but a redirect to
the packet's own queue, with the stack as fallback, or `XDP_PASS`.

**XskFrameProofs**. `FramesHaveOneOwner` counts the frames that are away (`Lent`): those in the FILL ring,
the one the kernel may hold, and those of descriptors not processed. Only `fill_rx_ring`
takes frames, a batch at most, and it runs again only after a batch was returned or
none was waiting, so at most FILL ring + 1 frames are away each time it starts
(`Accounted`). With `EnoughFrames` the allocator then serves the whole batch reserved.
`NoStaleEntries` states that as an action property: the `break` at
`xsk_socket.cpp:159` is never taken, and `submit` hands over no entry of an earlier
round. `PacketsReadAsDelivered` follows, since a frame that waits in the RX ring is
nowhere else and is not written.

### Only model-checked

* Everything temporal (liveness under fairness is out of the prover's reach): `WaitFree`,
  `AllDelivered`, `Delivered`, `Reclaimed`, `NarrowLevelsReturn`, `DeliveredAreRead`, `FramesReturn`.
* `ParsedAsMeant`, `RoundTrip`, `ChecksumNotices`: parser and reference are recursive over byte
  sequences of any length, and their agreement needs induction over data, which the
  installed provers cannot do. TLC compares them on all buffers of the run.
* `StackGetsTheRest` and `FixIsRedirected` behind the UDP program, of which the second is false.

## Not modelled

* `TscClock`: hardware counter, wall clock and floating point; no control flow to check.
  Time stamps and latency statistics are left out of all modules for the same reason.
* The other benchmarks, scripts and build files: what they call the models' clients may
  call as well. Of the churn clients the mix of adds and cancels (random, or ten adds and
  five cancels in turn) is left open. `run_socket_fallback` only prints.
* TX and COMPLETION rings: created with the socket, used by no code in `src/`.
* The receive loop composed with the book: the callback of `XskSocket` is a parameter,
  and no code in `src/` connects it to a book. `FixPipeline` composes what the repository
  composes.
* In modelled parts: `size()` called by a third thread, a match callback that calls
  back into the book (no code in `src/` does either), overflow of signed 64-bit prices (totals do wrap, modulo `U64`), the
  wake-up branch of `fill_rx_ring` (not reachable with the flags the code sets).
