----------------------------- MODULE XskSocket -----------------------------
(***************************************************************************)
(* hft::net::XskSocket and Umem (2_network/src/xsk_socket.cpp, umem.cpp):  *)
(* setting up an AF_XDP socket, the receive loop that lends UMEM frames to *)
(* the kernel and takes them back with packets in them, and the            *)
(* destructor, together with the kernel's side of the two rings and the    *)
(* XDP program in front of it.                                             *)
(*                                                                         *)
(* A frame is named by its number.  The FILL ring is an array with its     *)
(* stale entries, because submit hands over slots whether or not they were *)
(* written; the RX ring is the sequence of its descriptors.  Packets put   *)
(* into the RX ring are numbered and a frame holds the number of the       *)
(* packet written to it last.                                              *)
(***************************************************************************)
EXTENDS XdpFilter, Sequences, FiniteSets

CONSTANTS NumFrames,   \* config_.num_frames
          FillSize,    \* entries of the FILL ring (umem_cfg)
          RxSize,      \* entries of the RX ring (xsk_cfg.rx_size)
          Batch,       \* 32: entries reserved and descriptors peeked at a time
          IndexRange,  \* number of values of a ring index, a multiple of FillSize
          Filter,      \* the attached program: "udp" or "tcp"
          Packets,     \* packets that may arrive
          MaxPackets,  \* bound: arrivals explored
          MaxLoads,    \* bound: calls of load_bpf_program explored
          Null         \* nullptr, and no frame

ASSUME SizeAssumption ==
    /\ NumFrames \in Nat \ {0} /\ RxSize \in Nat \ {0} /\ Batch \in Nat \ {0}
    /\ FillSize \in Nat /\ Batch <= FillSize
    /\ IndexRange \in Nat /\ FillSize < IndexRange /\ IndexRange % FillSize = 0
ASSUME BoundAssumption ==
    MaxPackets \in Nat /\ MaxLoads \in Nat /\ Filter \in {"udp", "tcp"} /\ Null \notin Nat

VARIABLES
    pc,         \* where the thread that owns the socket is
    base_,      \* the UMEM memory: "mapped", Null, or "unmapped" again
    prog_, xsk_umem_, xsk_, \* handles: the number of the load that made the object, or Null
    objects,    \* library and kernel objects not released: <<kind, load>>
    loads,      \* calls of load_bpf_program so far
    free,       \* frames alloc_frame hands out, next one first
    fill,       \* FILL ring: slot -> frame
    fill_prod,  \* FILL ring indices: producer (userspace) and consumer (kernel)
    fill_cons,
    held,       \* frame the kernel took and could not deliver
    rx,         \* RX ring: frames with packets, oldest first
    n_pkts,     \* locals of run_rx_loop and process_rx_batch
    i,
    pkt_count_, parse_errors_,
    mapped,     \* the socket is in the program's socket map
    content,    \* frame -> number of the packet in it
    delivered,  \* packets the kernel put into the RX ring
    got,        \* history: numbers of the packets read, in order
    arrivals,   \* packets that arrived
    last        \* history: the step's arrival, if it is one, and what became of it

handles == <<prog_, xsk_umem_, xsk_>>
setupVars == <<base_, handles, objects, loads>>
fillVars == <<fill, fill_prod>>
kernelVars == <<fill_cons, held, content, delivered, arrivals>>
loopVars == <<n_pkts, i, pkt_count_, parse_errors_, got>>
vars == <<pc, setupVars, free, fillVars, rx, mapped, kernelVars, loopVars, last>>

Frames == 0 .. NumFrames - 1
Slots == 0 .. FillSize - 1

NoArrival == [pkt |-> Null, mapped |-> FALSE, to |-> "none"]

\* Before the constructor runs; ring memory is zero, which is the address of
\* frame 0.
Init ==
    /\ pc = "start"
    /\ base_ = Null /\ prog_ = Null /\ xsk_umem_ = Null /\ xsk_ = Null
    /\ objects = {} /\ loads = 0
    /\ free = <<>>
    /\ fill = [s \in Slots |-> 0] /\ fill_prod = 0 /\ fill_cons = 0
    /\ held = Null /\ rx = <<>>
    /\ n_pkts = 0 /\ i = 0 /\ pkt_count_ = 0 /\ parse_errors_ = 0
    /\ mapped = FALSE
    /\ content = [f \in Frames |-> 0] /\ delivered = 0 /\ got = <<>>
    /\ arrivals = 0 /\ last = NoArrival

-----------------------------------------------------------------------------
(* Constructor, load_bpf_program, destructor.                              *)

\* Umem(num_frames, frame_size): mmap may fail, which is not reported.
UmemConstruct == base_' \in {"mapped", Null}

\* XskSocket(): an unknown interface throws, and umem_ is destroyed.
Construct ==
    /\ pc = "start"
    /\ \/ /\ UmemConstruct
          /\ free' = [k \in 1 .. NumFrames |-> k - 1]
          /\ pc' = "ready"
       \/ /\ base_' \in {"unmapped", Null}
          /\ pc' = "gone"
          /\ UNCHANGED free
    /\ UNCHANGED <<handles, objects, loads, fillVars, rx, mapped, kernelVars, loopVars>>

\* The calls of load_bpf_program that can fail, in their order; each failure
\* throws and leaves what was made before it in the members.
LoadSteps == <<"open", "load", "umem_config", "umem_create", "xsk_config", "xsk_create">>
Reached(failed, step) ==
    \E k \in 1 .. 6 : LoadSteps[k] = step /\ failed > k

\* load_bpf_program(path); `failed' is the number of the call that fails, 7 for
\* none.  xsk_umem__create refuses a null area.  A client calls it again only if
\* the call before threw.
LoadBpfProgram(failed) ==
    LET n == loads + 1
        made == {kind \in {"prog", "umem", "xsk"} :
                    \/ kind = "prog" /\ Reached(failed, "open")
                    \/ kind = "umem" /\ Reached(failed, "umem_create")
                    \/ kind = "xsk" /\ Reached(failed, "xsk_create")}
    IN  /\ pc = "ready" /\ xsk_ = Null /\ loads < MaxLoads
        /\ base_ = Null => ~Reached(failed, "umem_create")
        /\ loads' = n
        /\ prog_' = IF "prog" \in made THEN n ELSE Null
        /\ xsk_umem_' = IF "umem" \in made THEN n ELSE xsk_umem_
        /\ xsk_' = IF "xsk" \in made THEN n ELSE xsk_
        /\ objects' = objects \cup {<<kind, n>> : kind \in made}
        /\ UNCHANGED <<pc, base_, free, fillVars, rx, mapped, kernelVars, loopVars>>

\* External: xsk_umem__delete refuses (EBUSY) while a socket uses the UMEM.
UmemDelete(objs, handle) ==
    IF <<"xsk", handle>> \in objs THEN objs ELSE objs \ {<<"umem", handle>>}

\* Faulty variant: the UMEM is deleted before the socket is closed.
ReleaseUmemFirst(objs) ==
    UmemDelete(objs, xsk_umem_) \ {<<"xsk", xsk_>>, <<"prog", prog_>>}

\* The body of ~XskSocket(): close the socket, delete the UMEM, close the program.
Release(objs) ==
    UmemDelete(objs \ {<<"xsk", xsk_>>}, xsk_umem_) \ {<<"prog", prog_>>}

\* ~XskSocket() and then ~Umem(), the destructor of its member umem_.
Destroy ==
    /\ pc = "ready"
    /\ objects' = Release(objects)
    /\ base_' = IF base_ = Null THEN Null ELSE "unmapped"
    /\ pc' = "gone"
    /\ UNCHANGED <<handles, loads, free, fillVars, rx, mapped, kernelVars, loopVars>>

\* External: the operator enters the socket into the socket map of the attached
\* program, under the number of its queue, 0.
MapSocket ==
    /\ xsk_ # Null /\ ~mapped
    /\ pc \notin {"start", "gone"}
    /\ mapped' = TRUE
    /\ UNCHANGED <<pc, setupVars, free, fillVars, rx, kernelVars, loopVars>>

-----------------------------------------------------------------------------
(* run_rx_loop.  Without a socket it returns at once; with one it never    *)
(* returns.                                                                *)

RunRxLoop ==
    /\ pc = "ready" /\ xsk_ # Null
    /\ pc' = "fill"
    /\ UNCHANGED <<setupVars, free, fillVars, rx, mapped, kernelVars, loopVars>>

\* Entries of the FILL ring the kernel has not taken.
FillLevel == (fill_prod - fill_cons) % IndexRange

\* Faulty variant: takes the room for granted.
ReserveBlind(n) == n

\* External: xsk_ring_prod__reserve(ring, n) grants n entries or none.
Reserve(n) == IF FillSize - FillLevel >= n THEN n ELSE 0

\* External: how many of n calls of alloc_frame succeed, the rest being
\* UMEM_INVALID.  The allocator is a queue of free frames.
Allocated(n) == IF n <= Len(free) THEN n ELSE Len(free)

\* xsk_ring_prod__submit(&fill_ring_, n)
Submit(n) == fill_prod' = (fill_prod + n) % IndexRange

\* fill_rx_ring: alloc_frame for each reserved entry until the allocator has no
\* frame, and submit of all reserved entries.  The wake-up branch is not taken:
\* sockets bound with XDP_COPY alone (load_bpf_program) never set that flag.
FillRxRing ==
    LET n_free == Reserve(Batch) IN
    /\ pc = "fill"
    /\ pc' = "poll"
    /\ fill' = [s \in Slots |->
          LET k == ((s - fill_prod) % FillSize) + 1 IN
          IF k <= Allocated(n_free) THEN free[k] ELSE fill[s]]
    /\ free' = SubSeq(free, Allocated(n_free) + 1, Len(free))
    /\ Submit(n_free)
    /\ UNCHANGED <<setupVars, rx, mapped, kernelVars, loopVars>>

\* Faulty variant: waits for a full batch.
PeekFull == IF Len(rx) < Batch THEN 0 ELSE Batch

\* xsk_ring_cons__peek(&rx_ring_, 32, &rx_idx_)
Peek == IF Len(rx) < Batch THEN Len(rx) ELSE Batch

PollRxRing ==
    /\ pc = "poll"
    /\ n_pkts' = Peek
    /\ i' = 0
    /\ pc' = IF Peek > 0 THEN "batch" ELSE "fill"
    /\ UNCHANGED <<setupVars, free, fillVars, rx, mapped, kernelVars, pkt_count_,
                   parse_errors_, got>>

\* External: umem_->get_frame(addr), nullptr for an address outside the region.
GetFrame(addr) == IF addr \in Frames THEN addr ELSE Null

\* Faulty variant: a packet that does not parse keeps its frame.
FreeFrameIfParsed(addr, parsed) == IF parsed THEN Append(free, addr) ELSE free

\* umem_->free_frame(addr), after either outcome of the parser
FreeFrame(addr, parsed) == Append(free, addr)

\* One turn of the loop of process_rx_batch; `parsed' is what fix::parse answers.
\* The callback gets views into the frame and returns before free_frame.
ProcessPacket(parsed) ==
    LET addr == rx[i + 1] IN
    /\ pc = "batch" /\ i < n_pkts
    /\ i' = i + 1
    /\ IF GetFrame(addr) = Null
       THEN UNCHANGED <<got, pkt_count_, parse_errors_, free>>
       ELSE /\ got' = Append(got, content[addr])
            /\ pkt_count_' = IF parsed THEN pkt_count_ + 1 ELSE pkt_count_
            /\ parse_errors_' = IF parsed THEN parse_errors_ ELSE parse_errors_ + 1
            /\ free' = FreeFrame(addr, parsed)
    /\ UNCHANGED <<pc, setupVars, fillVars, rx, mapped, kernelVars, n_pkts>>

\* Faulty variant: releases what came in during the batch as well.
ReleaseCountAll == Len(rx)

\* The count given to xsk_ring_cons__release
ReleaseCount == n_pkts

ReleaseBatch ==
    /\ pc = "batch" /\ i = n_pkts
    /\ rx' = SubSeq(rx, ReleaseCount + 1, Len(rx))
    /\ pc' = "fill"
    /\ UNCHANGED <<setupVars, free, fillVars, mapped, kernelVars, loopVars>>

-----------------------------------------------------------------------------
(* External: the kernel.  An arriving packet goes through the program; one *)
(* that is redirected is copied into a frame from the FILL ring and that   *)
(* frame put into the RX ring.  A frame taken while the RX ring is full    *)
(* stays with the kernel for the next packet.                              *)

Verdict(p) == IF Filter = "tcp" THEN xdp_redirect_fix(p) ELSE xdp_fix_redirect(p)

\* What the verdict comes to: the map has a socket under key 0 only, a redirect
\* that finds none becomes its other action, and the socket takes packets of its
\* own queue only.
Destination(p) ==
    LET v == Verdict(p)
        action == IF v.action = "REDIRECT" /\ ~(mapped /\ v.key = 0)
                  THEN v.otherwise ELSE v.action
    IN  IF action = "PASS" THEN "stack"
        ELSE IF action = "REDIRECT" /\ p.queue = 0 THEN "xsk" ELSE "dropped"

KernelFrame == IF held # Null THEN held ELSE fill[fill_cons % FillSize]

Arrive(p) ==
    /\ pc \notin {"start", "gone"}
    /\ arrivals < MaxPackets
    /\ arrivals' = arrivals + 1
    /\ last' = [pkt |-> p, mapped |-> mapped, to |-> Destination(p)]
    /\ IF Destination(p) = "xsk" /\ (held # Null \/ FillLevel > 0)
       THEN /\ fill_cons' = IF held # Null THEN fill_cons ELSE (fill_cons + 1) % IndexRange
            /\ \/ /\ Len(rx) < RxSize
                  /\ rx' = Append(rx, KernelFrame)
                  /\ content' = [content EXCEPT ![KernelFrame] = delivered + 1]
                  /\ delivered' = delivered + 1
                  /\ held' = Null
               \/ /\ Len(rx) >= RxSize
                  /\ held' = KernelFrame
                  /\ UNCHANGED <<rx, content, delivered>>
       ELSE UNCHANGED <<fill_cons, held, rx, content, delivered>>
    /\ UNCHANGED <<pc, setupVars, free, fillVars, mapped, loopVars>>

-----------------------------------------------------------------------------

Setup == Construct \/ Destroy \/ MapSocket \/ \E failed \in 1 .. 7 : LoadBpfProgram(failed)

Loop == FillRxRing \/ PollRxRing \/ (\E parsed \in BOOLEAN : ProcessPacket(parsed)) \/ ReleaseBatch

Next ==
    \/ (Setup \/ RunRxLoop \/ Loop) /\ last' = NoArrival
    \/ \E p \in Packets : Arrive(p)

Spec == Init /\ [][Next]_vars

\* "busy-polls, never yields to OS": the loop keeps running once it is entered.
\* Nothing is asked of the network or of the client.
FairSpec == Spec /\ WF_vars(Loop /\ last' = NoArrival)

-----------------------------------------------------------------------------
(* Properties.                                                             *)

Alive == pc \notin {"start", "gone"}

Handle == 1 .. MaxLoads \cup {Null}

\* The variables keep their types; the FILL ring never holds more entries than
\* it has places, so submit overwrites none the kernel has still to take.
TypeOK ==
    /\ pc \in {"start", "ready", "gone", "fill", "poll", "batch"}
    /\ base_ \in {"mapped", "unmapped", Null}
    /\ prog_ \in Handle /\ xsk_umem_ \in Handle /\ xsk_ \in Handle
    /\ objects \subseteq {"prog", "umem", "xsk"} \X (1 .. MaxLoads)
    /\ loads \in 0 .. MaxLoads
    /\ free \in Seq(Frames)
    /\ fill \in [Slots -> Frames]
    /\ fill_prod \in 0 .. IndexRange - 1 /\ fill_cons \in 0 .. IndexRange - 1
    /\ FillLevel <= FillSize
    /\ held \in Frames \cup {Null}
    /\ rx \in Seq(Frames) /\ Len(rx) <= RxSize
    /\ n_pkts \in 0 .. Batch /\ i \in 0 .. n_pkts
    /\ pkt_count_ \in Nat /\ parse_errors_ \in Nat
    /\ mapped \in BOOLEAN
    /\ content \in [Frames -> Nat]
    /\ delivered \in 0 .. MaxPackets /\ arrivals \in 0 .. MaxPackets
    /\ got \in Seq(Nat)

\* Descriptors of the RX ring whose frames have not been freed.
Pending == IF pc = "batch" THEN i + 1 .. Len(rx) ELSE 1 .. Len(rx)

\* The places where frame f is: the allocator, an entry of the FILL ring, the
\* kernel, a descriptor of the RX ring.
Places(f) ==
    {<<"free", k>> : k \in {k \in DOMAIN free : free[k] = f}}
    \cup {<<"fill", k>> : k \in {k \in 0 .. FillLevel - 1 : fill[(fill_cons + k) % FillSize] = f}}
    \cup {<<"kernel", 0>> : x \in {held} \cap {f}}
    \cup {<<"rx", k>> : k \in {k \in Pending : rx[k] = f}}

\* "Four rings coordinate ownership" (umem.hpp:8): a frame is with the
\* allocator, with the kernel or with the receive loop, with exactly one of them
\* and once.
OneOwner == Alive => \A f \in Frames : Cardinality(Places(f)) = 1

\* The receive loop reads the packets the kernel put into the RX ring, each
\* once, in order, and none overwritten before process_rx_batch came to it.
ReadAsDelivered == \A k \in DOMAIN got : got[k] = k

\* When the socket is gone so is every object it made, whichever call of
\* load_bpf_program failed; only calling it again after a failure leaves
\* objects behind, whose handles the second call overwrites.
LeaksOnlyByReload == pc = "gone" /\ loads <= 1 => objects = {}

Fix(p) == IF Filter = "tcp" THEN TcpFix(p) ELSE UdpFix(p)

\* "All other packets must be passed to the normal stack (XDP_PASS) or SSH will
\* break" (skeleton.md:574): what is not FIX, comes on another queue, or finds
\* no socket in the map is neither taken nor dropped.  Packets that claim an IP
\* header of fewer than five words are excepted: redirect.bpf.c does not check ihl,
\* and takes those whose header reads like the FIX port where it looks for ports.
StackGetsTheRest ==
    LET p == last.pkt IN
    last # NoArrival =>
        ((~Fix(p) /\ WholeIpHeader(p)) \/ ~last.mapped \/ p.queue # 0 => last.to = "stack")

\* "redirects incoming packets on a specific UDP port to an XDP socket"
\* (xdp_fix_redirect.c:5), and the same of TCP (redirect.bpf.c:41): with the socket
\* in the map, every FIX packet on its queue is the socket's.
FixIsRedirected ==
    LET p == last.pkt IN
    last # NoArrival =>
        (Fix(p) /\ last.mapped /\ p.queue = 0 => last.to = "xsk")

\* A packet in the RX ring is read at last.
DeliveredAreRead == \A k \in 1 .. MaxPackets : (delivered >= k) ~> (Len(got) >= k)

\* Every frame comes back: one that waits in the RX ring with a packet in it is at
\* last with the allocator or in the FILL ring again, whether or not the packet
\* parsed.
FramesReturn ==
    \A f \in Frames :
        (\E k \in Pending : rx[k] = f) ~> (\E x \in Places(f) : x[1] \in {"free", "fill"})
=============================================================================
