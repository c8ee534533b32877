-------------------------- MODULE MpscQueueProofs --------------------------
(***************************************************************************)
(* Proofs about MpscQueue: its safety invariants hold for any number of    *)
(* producers, nodes and pushes.  They follow from the invariant PInv of    *)
(* MpscQueueInv, which the store of push, the steps of pop, the join and   *)
(* the destructor keep too.                                                *)
(***************************************************************************)
EXTENDS MpscQueueInv

-----------------------------------------------------------------------------
(* push: prev->next.store(node)                                            *)

\* What the store of p changes: one link.
Links(p) ==
    /\ ppc[p] = "link" /\ ppc'[p] = "idle"
    /\ next'[prev[p]] = node[p] /\ linked'[prev[p]] = knows[p]
    /\ \A q \in Producers : q # p => ppc'[q] = ppc[q]
    /\ \A a \in Addr : a # prev[p] => next'[a] = next[a] /\ linked'[a] = linked[a]
    /\ UNCHANGED <<allocated, data, head_, tail_, node, prev, count, cpc, cnext, cdata, joined,
                   knows, order, received>>

\* The node p links behind had no successor, and p alone was about to give it
\* one: node[p] is the node at the next position.
LEMMA LinksItsOwn ==
    ASSUME Types, Sequenced, InPush, NEW first \in Nat, Chain(first),
           NEW p \in Producers, PushLink(p)
    PROVE  /\ Links(p)
           /\ next[prev[p]] = Null /\ prev[p] \in allocated /\ node[p] \in allocated
           /\ node[p] # Null /\ data[node[p]] \in knows[p]
           /\ \E i \in first .. Len(order) - 1 :
                 data[prev[p]] = ItemAt(i) /\ data[node[p]] = ItemAt(i + 1)
           /\ \A q \in Producers : ppc[q] = "link" /\ prev[q] = prev[p] => q = p
           /\ \A q \in Producers : ppc[q] = "exchange" => node[q] # prev[p]
<1>1. ppc[p] = "link"
      BY DEF PushLink
<1>2. PICK i \in first .. Len(order) - 1 :
          /\ prev[p] \in allocated /\ data[prev[p]] = ItemAt(i) /\ next[prev[p]] = Null
          /\ data[node[p]] = ItemAt(i + 1)
      BY <1>1 DEF Chain, PendingIsMissing, IsAt
<1>3. node[p] \in allocated /\ node[p] # Null /\ data[node[p]] \in knows[p]
  <2>1. node[p] \in allocated /\ data[node[p]] \in knows[p]
        BY <1>1, Zenon DEF InPush
  <2>2. QED
        BY <2>1, NullAssumption DEF Types, TypeOK
<1>4. ASSUME NEW q \in Producers, ppc[q] = "link", prev[q] = prev[p] PROVE q = p
  <2>1. PICK j \in first .. Len(order) - 1 :
            data[prev[q]] = ItemAt(j) /\ data[node[q]] = ItemAt(j + 1)
        BY <1>4 DEF Chain, PendingIsMissing, IsAt
  <2>2. i = j
    <3>1. i \in 0 .. Len(order) /\ j \in 0 .. Len(order) /\ ItemAt(i) = ItemAt(j)
          BY <1>2, <1>4, <2>1, SeqFacts DEF Types, TypeOK
    <3>2. QED
          BY <3>1, PositionsDiffer
  <2>3. data[node[p]] = <<p, count[p]>> /\ data[node[q]] = <<q, count[q]>>
        BY <1>1, <1>4, Zenon DEF InPush
  <2>4. QED
        BY <1>2, <2>1, <2>2, <2>3
<1>5. ASSUME NEW q \in Producers, ppc[q] = "exchange", node[q] = prev[p] PROVE FALSE
  <2>1. data[prev[p]] = <<q, count[q]>> /\ count[q] >= 1 /\ count[q] \in 0 .. MaxPush
        BY <1>5, Zenon DEF InPush, Types, TypeOK
  <2>2. count[q] \in 1 .. MaxPush /\ ~Exchanged(q, count[q]) /\ i \in 0 .. Len(order)
        BY <1>5, <2>1, ItemAssumption, SeqFacts DEF Exchanged, Types, TypeOK
  <2>3. QED
        BY <1>2, <2>1, <2>2, UnpushedHasNoPosition, Zenon
<1>6. Links(p)
      BY <1>1, <1>2 DEF Links, PushLink, Types, TypeOK, consumerVars
<1>7. QED
      BY <1>2, <1>3, <1>4, <1>5, <1>6

\* PushLink keeps the invariant.
LEMMA PushLinkStep ==
    ASSUME PInv, NEW p \in Producers, PushLink(p)
    PROVE  PInv'
<1>1. Types /\ Sequenced /\ InPush /\ Distinct /\ Known /\ InPop
      BY DEF PInv
<1>2. PICK first \in Nat : Walk(first)
      BY DEF PInv
<1>3. /\ Links(p)
      /\ next[prev[p]] = Null /\ prev[p] \in allocated /\ node[p] \in allocated
      /\ node[p] # Null /\ data[node[p]] \in knows[p]
      /\ \E i \in first .. Len(order) - 1 :
            data[prev[p]] = ItemAt(i) /\ data[node[p]] = ItemAt(i + 1)
      /\ \A q \in Producers : ppc[q] = "link" /\ prev[q] = prev[p] => q = p
      /\ \A q \in Producers : ppc[q] = "exchange" => node[q] # prev[p]
      BY <1>1, <1>2, LinksItsOwn DEF Walk
<1>4. Types' /\ allocated \subseteq Addr
      BY <1>1, TypesStep DEF Next, Push, Types, TypeOK
<1>5. Sequenced'
  <2>1. \A q \in Producers, k \in 1 .. MaxPush : Exchanged(q, k)' <=> Exchanged(q, k)
        BY <1>3 DEF Exchanged, Links
  <2>2. UNCHANGED <<order, received>>
        BY <1>3 DEF Links
  <2>3. QED
        BY <1>1, <2>1, <2>2, Zenon DEF Sequenced
<1>6. InPush' /\ Distinct'
  <2>1. Distinct'
        BY <1>1, <1>3 DEF Distinct, Links
  <2>2. ASSUME NEW q \in Producers, ppc'[q] = "exchange" PROVE next'[node[q]] = Null
    <3>1. ppc[q] = "exchange" /\ node[q] # prev[p] /\ node[q] \in Addr
          BY <1>1, <1>3, <1>4, <2>2, Zenon DEF InPush, Links
    <3>2. QED
          BY <1>1, <1>3, <3>1, Zenon DEF InPush, Links
  <2>3. QED
        BY <1>1, <1>3, <2>1, <2>2, Zenon DEF InPush, Links
<1>7. Known'
      BY <1>1, <1>3, <1>4 DEF Known, Links, ItemAt
<1>8. InPop'
  <2>1. ~joined /\ Popping /\ IsAt(head_, Len(received))'
        BY <1>1, <1>3 DEF InPop, Links, IsAt, ItemAt
  <2>2. cpc \in {"read", "advance"} => next'[head_] = cnext
        BY <1>1, <1>3, NullAssumption DEF InPop, Links, Types, TypeOK
  <2>3. QED
        BY <1>1, <1>3, <2>1, <2>2 DEF InPop, Links, Popping
<1>9. /\ \A i : ItemAt(i)' = ItemAt(i)
      /\ \A a, i : IsAt(a, i)' <=> IsAt(a, i)
      BY <1>3 DEF Links, ItemAt, IsAt
<1>10. NoGap(first)' /\ NoStray(first)' /\ TailLast(first)'
  <2>1. NoGap(first)' /\ TailLast(first)'
        BY <1>2, <1>3, <1>9 DEF Walk, Chain, NoGap, TailLast, Links
  <2>2. NoStray(first)'
    <3>1. \A q \in Producers : ppc[q] = "exchange" => ppc'[q] = "exchange"
          BY <1>3 DEF Links
    <3>2. QED
          BY <1>2, <1>3, <1>9, <3>1 DEF Walk, Chain, NoStray, Links
  <2>3. QED
        BY <2>1, <2>2
<1>11. LinksNeighbours(first)'
  <2> SUFFICES ASSUME NEW a \in allocated, next'[a] # Null
               PROVE  \E i \in first .. Len(order) - 1 :
                          data[a] = ItemAt(i) /\ next'[a] \in allocated /\ data[next'[a]] = ItemAt(i + 1)
      BY <1>3, <1>9 DEF LinksNeighbours, IsAt, Links
  <2>1. CASE a = prev[p]
        BY <1>3, <2>1 DEF Links
  <2>2. CASE a # prev[p]
    <3>1. next'[a] = next[a]
          BY <1>3, <1>4, <2>2 DEF Links
    <3>2. QED
          BY <1>2, <3>1 DEF Walk, Chain, LinksNeighbours, IsAt
  <2>3. QED
        BY <2>1, <2>2
<1>12. PendingIsMissing(first)' /\ MissingIsPending(first)'
  <2>1. ASSUME NEW q \in Producers, ppc'[q] = "link"
        PROVE  \E i \in first .. Len(order) - 1 :
                   IsAt(prev[q], i) /\ data[node[q]] = ItemAt(i + 1) /\ next'[prev[q]] = Null
    <3>1. ppc[q] = "link" /\ prev[q] # prev[p]
          BY <1>3, <2>1 DEF Links
    <3>2. QED
          BY <1>2, <1>3, <1>4, <3>1, Zenon DEF Walk, Chain, PendingIsMissing, IsAt, Links
  <2>2. ASSUME NEW i \in first .. Len(order) - 1, NEW a \in allocated,
               data[a] = ItemAt(i), next'[a] = Null
        PROVE  \E q \in Producers : ppc'[q] = "link" /\ prev[q] = a
    <3>1. a # prev[p] /\ next[a] = Null
          BY <1>3, <1>4, <2>2 DEF Links
    <3>2. PICK q \in Producers : ppc[q] = "link" /\ prev[q] = a
          BY <1>2, <2>2, <3>1 DEF Walk, Chain, MissingIsPending
    <3>3. QED
          BY <1>3, <3>1, <3>2 DEF Links
  <2>3. QED
        BY <1>3, <1>9, <2>1, <2>2, SMTT(60) DEF PendingIsMissing, MissingIsPending, Links
<1>13. Walk(first)'
       BY <1>2, <1>3, <1>9, <1>10, <1>11, <1>12 DEF Walk, Chain, Popping, Links
<1>14. QED
       BY <1>4, <1>5, <1>6, <1>7, <1>8, <1>13 DEF PInv
-----------------------------------------------------------------------------
(* pop, join and the destructor                                            *)

\* A step that leaves the list and the producers alone and lets the threads
\* know more.
LEMMA QuietStep ==
    ASSUME Sequenced, InPush, Distinct, Known,
           UNCHANGED Frame, UNCHANGED received,
           \A t \in Threads : knows[t] \subseteq knows'[t]
    PROVE  /\ Sequenced' /\ InPush' /\ Distinct'
           /\ (cpc' = "read" => data'[cnext'] \in knows'[Consumer]) => Known'
<1> USE DEF Frame, heap, producerVars
<1>1. Sequenced'
      BY Zenon DEF Sequenced, Exchanged
<1>2. InPush'
      BY DEF InPush, Threads
<1>3. Distinct'
      BY FrameStep
<1>4. (cpc' = "read" => data'[cnext'] \in knows'[Consumer]) => Known'
      BY DEF Known, Threads, ItemAt
<1>5. QED
      BY <1>1, <1>2, <1>3, <1>4

\* The deletion of the first node of the chain, once it is linked or the last.
Drops(a) ==
    /\ allocated' = allocated \ {a}
    /\ UNCHANGED <<data, next, linked, tail_, producerVars, knows, order>>

\* No thread but the one that deletes it holds that node.
LEMMA DropIsUnused ==
    ASSUME Types, Sequenced, InPush, Distinct, NEW first \in Nat, Chain(first),
           first <= Len(order), NEW a, IsAt(a, first), next[a] # Null \/ first = Len(order)
    PROVE  /\ \A b \in allocated, i \in 0 .. Len(order) : data[b] = ItemAt(i) => (b = a <=> i = first)
           /\ \A p \in Producers : ppc[p] # "idle" => node[p] # a
           /\ \A p \in Producers : ppc[p] = "link" => prev[p] # a
           /\ \A b \in allocated : next[b] # Null => next[b] # a
<1>1. Len(order) \in Nat /\ first \in 0 .. Len(order) /\ a \in allocated /\ data[a] = ItemAt(first)
      BY SeqFacts DEF Types, TypeOK, IsAt
<1>2. ASSUME NEW b \in allocated, NEW i \in 0 .. Len(order), data[b] = ItemAt(i)
      PROVE  b = a <=> i = first
  <2>1. b = a => i = first
        BY <1>1, <1>2, PositionsDiffer
  <2>2. i = first => b = a
        BY <1>1, <1>2 DEF Distinct
  <2>3. QED
        BY <2>1, <2>2
<1>3. ASSUME NEW p \in Producers, ppc[p] = "exchange", node[p] = a PROVE FALSE
  <2>1. data[a] = <<p, count[p]>> /\ count[p] >= 1 /\ count[p] \in 0 .. MaxPush
        BY <1>3, Zenon DEF InPush, Types, TypeOK
  <2>2. count[p] \in 1 .. MaxPush /\ ~Exchanged(p, count[p])
        BY <1>3, <2>1, ItemAssumption DEF Exchanged
  <2>3. QED
        BY <1>1, <2>1, <2>2, UnpushedHasNoPosition, Zenon
<1>4. ASSUME NEW p \in Producers, ppc[p] = "link" PROVE prev[p] # a /\ node[p] # a
  <2>1. PICK i \in first .. Len(order) - 1 :
            /\ prev[p] \in allocated /\ data[prev[p]] = ItemAt(i) /\ next[prev[p]] = Null
            /\ data[node[p]] = ItemAt(i + 1)
        BY <1>4 DEF Chain, PendingIsMissing, IsAt
  <2>2. node[p] \in allocated
        BY <1>4, Zenon DEF InPush
  <2>3. i \in 0 .. Len(order) /\ i + 1 \in 0 .. Len(order) /\ i # Len(order) /\ i + 1 # first
        BY <1>1
  <2>4. QED
        BY <1>2, <2>1, <2>2, <2>3
<1>5. ASSUME NEW b \in allocated, next[b] # Null PROVE next[b] # a
  <2>1. PICK i \in first .. Len(order) - 1 : next[b] \in allocated /\ data[next[b]] = ItemAt(i + 1)
        BY <1>5 DEF Chain, LinksNeighbours, IsAt
  <2>2. i + 1 \in 0 .. Len(order) /\ i + 1 # first
        BY <1>1
  <2>3. QED
        BY <1>2, <2>1, <2>2
<1>6. \A p \in Producers : ppc[p] # "idle" => ppc[p] \in {"exchange", "link"}
      BY DEF Types, TypeOK
<1>7. QED
      BY <1>2, <1>3, <1>4, <1>5, <1>6

\* Without its first node the chain begins one position later.
LEMMA DropFirst ==
    ASSUME Types, Sequenced, InPush, Distinct, NEW first \in Nat, Chain(first),
           first <= Len(order), NEW a, IsAt(a, first), next[a] # Null \/ first = Len(order),
           Drops(a)
    PROVE  Chain(first + 1)' /\ Distinct' /\ InPush'
<1>1. /\ \A b \in allocated, i \in 0 .. Len(order) : data[b] = ItemAt(i) => (b = a <=> i = first)
      /\ \A p \in Producers : ppc[p] # "idle" => node[p] # a
      /\ \A p \in Producers : ppc[p] = "link" => prev[p] # a
      /\ \A b \in allocated : next[b] # Null => next[b] # a
      BY DropIsUnused
<1>2. Len(order) \in Nat
      BY SeqFacts DEF Types, TypeOK
<1>3. /\ \A i : ItemAt(i)' = ItemAt(i)
      /\ \A b, i : b # a /\ IsAt(b, i) => IsAt(b, i)'
      BY Zenon DEF Drops, ItemAt, IsAt
<1>4. Distinct' /\ InPush'
      BY <1>1 DEF Distinct, InPush, Drops, producerVars
<1>5. NoGap(first + 1)'
      BY <1>1, <1>2, <1>3 DEF Chain, NoGap, Drops
<1>6. NoStray(first + 1)'
      BY <1>1, <1>2, <1>3 DEF Chain, NoStray, Drops, producerVars
<1>7. TailLast(first + 1)'
      BY <1>1, <1>2, <1>3, SMTT(60) DEF Chain, TailLast, IsAt, Drops
<1>8. LinksNeighbours(first + 1)'
      BY <1>1, <1>2, <1>3 DEF Chain, LinksNeighbours, IsAt, Drops
<1>9. PendingIsMissing(first + 1)'
  <2> SUFFICES ASSUME NEW p \in Producers, ppc[p] = "link"
               PROVE  \E i \in first + 1 .. Len(order) - 1 :
                          /\ prev[p] \in allocated \ {a} /\ data[prev[p]] = ItemAt(i)
                          /\ data[node[p]] = ItemAt(i + 1) /\ next[prev[p]] = Null
      BY <1>3 DEF PendingIsMissing, IsAt, Drops, producerVars
  <2>1. PICK i \in first .. Len(order) - 1 :
            /\ prev[p] \in allocated /\ data[prev[p]] = ItemAt(i)
            /\ data[node[p]] = ItemAt(i + 1) /\ next[prev[p]] = Null
        BY DEF Chain, PendingIsMissing, IsAt
  <2>2. prev[p] # a /\ i # first
        BY <1>1, <1>2, <2>1
  <2>3. QED
        BY <1>2, <2>1, <2>2
<1>10. MissingIsPending(first + 1)'
       BY <1>1, <1>2, <1>3, SMTT(60) DEF Chain, MissingIsPending, Drops, producerVars
<1>11. QED
       BY <1>4, <1>5, <1>6, <1>7, <1>8, <1>9, <1>10 DEF Chain
\* PopLoad keeps the invariant.
LEMMA PopLoadStep == PInv /\ PopLoad => PInv'
<1> SUFFICES ASSUME PInv, PopLoad PROVE PInv'
    OBVIOUS
<1>1. Types /\ Sequenced /\ InPush /\ Distinct /\ Known /\ InPop
      BY DEF PInv
<1>2. PICK first \in Nat : Walk(first)
      BY DEF PInv
<1>3. /\ UNCHANGED <<Frame, head_, cdata, joined, received>>
      /\ cpc = "idle" /\ cpc' = "read" /\ next[head_] # Null /\ cnext' = next[head_]
      BY DEF PopLoad, Frame
<1>4. /\ \A t \in Threads : knows[t] \subseteq knows'[t]
      /\ linked[head_] \subseteq knows'[Consumer]
      BY <1>1 DEF PopLoad, Types, TypeOK, Threads
<1>5. Types'
      BY <1>1, TypesStep, Zenon DEF Next, Pop
<1>6. data'[cnext'] \in knows'[Consumer]
      BY <1>1, <1>3, <1>4 DEF Known, InPop, Popping, IsAt, Frame, heap
<1>7. Sequenced' /\ InPush' /\ Distinct' /\ Known'
      BY <1>1, <1>3, <1>4, <1>6, QuietStep DEF Frame
<1>8. InPop' /\ Walk(first)'
      BY <1>1, <1>2, <1>3, FrameStep DEF InPop, Walk, Popping, Frame, heap, producerVars
<1>9. QED
      BY <1>5, <1>7, <1>8 DEF PInv

\* PopRead keeps the invariant.
LEMMA PopReadStep == PInv /\ PopRead => PInv'
<1> SUFFICES ASSUME PInv, PopRead PROVE PInv'
    BY Zenon
<1>1. Types /\ Sequenced /\ InPush /\ Distinct /\ Known /\ InPop
      BY Zenon DEF PInv
<1>2. PICK first \in Nat : Walk(first)
      BY Zenon DEF PInv
<1>3. /\ UNCHANGED <<Frame, head_, cnext, joined, knows, received>>
      /\ cpc = "read" /\ cpc' = "advance" /\ cdata' = data[cnext]
      BY DEF PopRead, Frame
<1>4. Types'
      BY <1>1, TypesStep DEF Next, Pop
<1>5. Sequenced' /\ InPush' /\ Distinct' /\ Known'
      BY <1>1, <1>3, QuietStep, Zenon DEF Frame
<1>6. InPop' /\ Walk(first)'
      BY <1>1, <1>2, <1>3, FrameStep DEF InPop, Walk, Popping, Frame, heap, producerVars
<1>7. QED
      BY <1>4, <1>5, <1>6, Zenon DEF PInv

\* Join keeps the invariant.
LEMMA JoinStep == PInv /\ Join => PInv'
<1> SUFFICES ASSUME PInv, Join PROVE PInv'
    BY Zenon
<1>1. Types /\ Sequenced /\ InPush /\ Distinct /\ Known /\ InPop
      BY Zenon DEF PInv
<1>2. PICK first \in Nat : Walk(first)
      BY Zenon DEF PInv
<1>3. /\ UNCHANGED <<Frame, head_, cpc, cnext, cdata, received>>
      /\ cpc = "idle" /\ joined'
      /\ \A p \in Producers : ppc[p] = "idle" /\ count[p] = MaxPush
      BY DEF Join, Frame
<1>4. \A t \in Threads : knows[t] \subseteq knows'[t]
  <2>1. /\ knows' = [knows EXCEPT ![Consumer] = UNION {knows[t] : t \in Threads}]
        /\ knows \in [Threads -> SUBSET (Items \cup {Stub})]
        /\ Consumer \in Threads
        BY <1>1 DEF Join, Types, TypeOK, Threads
  <2>2. \A t \in Threads : knows[t] \subseteq UNION {knows[u] : u \in Threads}
        OBVIOUS
  <2>3. QED
        BY <2>1, <2>2
<1>5. Types'
      BY <1>1, TypesStep DEF Next
<1>6. Sequenced' /\ InPush' /\ Distinct' /\ Known'
      BY <1>1, <1>3, <1>4, QuietStep DEF Frame
<1>7. InPop' /\ Walk(first)'
      BY <1>1, <1>2, <1>3, FrameStep DEF InPop, Walk, Popping, Frame, heap, producerVars
<1>8. QED
      BY <1>5, <1>6, <1>7, Zenon DEF PInv

\* DestroyBegin keeps the invariant.
LEMMA DestroyBeginStep == PInv /\ DestroyBegin => PInv'
<1> SUFFICES ASSUME PInv, DestroyBegin PROVE PInv'
    BY Zenon
<1>1. Types /\ Sequenced /\ InPush /\ Distinct /\ Known /\ InPop
      BY Zenon DEF PInv
<1>2. PICK first \in Nat : Walk(first)
      BY Zenon DEF PInv
<1>3. /\ UNCHANGED <<Frame, head_, cdata, joined, knows, received>>
      /\ cpc = "idle" /\ joined /\ cpc' = "destroy" /\ cnext' = head_
      BY DEF DestroyBegin, Frame
<1>4. Types'
      BY <1>1, TypesStep DEF Next, Destroy
<1>5. Sequenced' /\ InPush' /\ Distinct' /\ Known'
      BY <1>1, <1>3, QuietStep, Zenon DEF Frame
<1>6. InPop'
      BY <1>1, <1>3, FrameStep DEF InPop, Popping, Frame, heap, producerVars
<1>7. Walk(first)'
  <2>1. first = Len(received) /\ first <= Len(order) /\ IsAt(head_, first) /\ head_ # Null
        BY <1>1, <1>2, <1>3, NullAssumption DEF Walk, InPop, Popping, Sequenced, Types, TypeOK
  <2>2. QED
        BY <1>2, <1>3, <2>1, FrameStep, Zenon DEF Walk, Popping, Frame, heap, producerVars
<1>8. QED
      BY <1>4, <1>5, <1>6, <1>7 DEF PInv
\* PopAdvance keeps the invariant: it returns the next item of `order'.
LEMMA PopAdvanceStep == PInv /\ PopAdvance => PInv'
<1> SUFFICES ASSUME PInv, PopAdvance PROVE PInv'
    BY Zenon
<1>1. Types /\ Sequenced /\ InPush /\ Distinct /\ Known /\ InPop
      BY Zenon DEF PInv
<1>2. PICK first \in Nat : Walk(first)
      BY Zenon DEF PInv
<1>3. /\ cpc = "advance" /\ cpc' = "idle" /\ head_' = cnext /\ Drops(head_)
      /\ received' = Append(received, cdata) /\ UNCHANGED <<cnext, cdata, joined>>
      BY DEF PopAdvance, Drops
<1>4. Types'
      BY <1>1, TypesStep, Zenon DEF Next, Pop
<1>5. /\ first = Len(received) /\ first <= Len(order) /\ IsAt(head_, first)
      /\ next[head_] = cnext /\ next[head_] # Null /\ cdata = data[cnext]
      BY <1>1, <1>2, <1>3, NullAssumption DEF Walk, InPop, Popping, Sequenced, Types, TypeOK
<1>6. IsAt(cnext, first + 1) /\ first + 1 <= Len(order) /\ cnext # head_
  <2>1. PICK i \in first .. Len(order) - 1 : data[head_] = ItemAt(i) /\ IsAt(cnext, i + 1)
        BY <1>2, <1>5 DEF Walk, Chain, LinksNeighbours, IsAt
  <2>2. Len(order) \in Nat
        BY <1>1, SeqFacts DEF Types, TypeOK
  <2>3. i = first
    <3>1. i \in 0 .. Len(order) /\ first \in 0 .. Len(order) /\ ItemAt(i) = ItemAt(first)
          BY <1>5, <2>1, <2>2 DEF IsAt
    <3>2. QED
          BY <1>1, <3>1, PositionsDiffer
  <2>4. cnext # head_
        BY <1>1, <1>2, <1>5, DropIsUnused DEF Walk, IsAt
  <2>5. QED
        BY <2>1, <2>2, <2>3, <2>4
<1>7. Chain(first + 1)' /\ Distinct' /\ InPush'
      BY <1>1, <1>2, <1>3, <1>5, DropFirst DEF Walk
<1>8. /\ Len(received') = first + 1
      /\ \A i \in 1 .. first : received'[i] = received[i]
      /\ received'[first + 1] = order[first + 1]
  <2>1. received \in Seq(Items \cup {Stub}) /\ cdata \in Items \cup {Stub}
        BY <1>1 DEF Types, TypeOK
  <2>2. cdata = order[first + 1]
        BY <1>5, <1>6 DEF IsAt, ItemAt
  <2>3. QED
        BY <1>3, <1>5, <2>1, <2>2, AppendFacts
<1>9. Sequenced'
  <2>1. \A p \in Producers, k \in 1 .. MaxPush : Exchanged(p, k)' <=> Exchanged(p, k)
        BY <1>3 DEF Exchanged, Drops, producerVars
  <2>2. \A i \in 1 .. Len(received') : received'[i] = order[i]
        BY <1>1, <1>5, <1>8 DEF Sequenced
  <2>3. QED
        BY <1>1, <1>3, <1>6, <1>8, <2>1, <2>2, Zenon DEF Sequenced, Drops
<1>10. Known'
       BY <1>1, <1>3 DEF Known, Drops, producerVars, ItemAt
<1>11. IsAt(cnext, first + 1)'
       BY <1>3, <1>6, Zenon DEF IsAt, ItemAt, Drops
<1>12. InPop'
       BY <1>1, <1>3, <1>8, <1>11 DEF InPop, Popping, Drops, producerVars
<1>13. Walk(first + 1)'
       BY <1>3, <1>7, <1>8 DEF Walk, Popping
<1>14. QED
       BY <1>4, <1>7, <1>9, <1>10, <1>12, <1>13 DEF PInv

\* DestroyStep keeps the invariant: a node without a link is the last.
LEMMA DestroyStepStep == PInv /\ DestroyStep => PInv'
<1> SUFFICES ASSUME PInv, DestroyStep PROVE PInv'
    BY Zenon
<1>1. Types /\ Sequenced /\ InPush /\ Distinct /\ Known /\ InPop
      BY Zenon DEF PInv
<1>2. PICK first \in Nat : Walk(first)
      BY Zenon DEF PInv
<1>3. Types'
      BY <1>1, TypesStep DEF Next, Destroy
<1>4. /\ cpc = "destroy" /\ ~Popping
      /\ UNCHANGED <<head_, cdata, joined, knows, received>>
      BY DEF DestroyStep, Popping
<1>5. CASE cnext = Null
  <2>1. UNCHANGED <<Frame, cnext>> /\ cpc' = "destroyed"
        BY <1>5 DEF DestroyStep, Frame, heap
  <2>2. Sequenced' /\ InPush' /\ Distinct' /\ Known'
        BY <1>1, <1>4, <2>1, QuietStep, Zenon DEF Frame
  <2>3. InPop' /\ Walk(first)'
        BY <1>1, <1>2, <1>4, <1>5, <2>1, FrameStep, Zenon
           DEF InPop, Walk, Popping, Frame, heap, producerVars
  <2>4. QED
        BY <1>3, <2>2, <2>3, Zenon DEF PInv
<1>6. CASE cnext # Null
  <2>1. Drops(cnext) /\ cnext' = next[cnext] /\ cpc' = "destroy"
        BY <1>4, <1>6 DEF DestroyStep, Drops
  <2>2. first <= Len(order) /\ IsAt(cnext, first) /\ joined
        BY <1>1, <1>2, <1>4, <1>6, Zenon DEF Walk, InPop
  <2>3. Len(order) \in Nat /\ first \in 0 .. Len(order) /\ next[cnext] \in Addr \cup {Null}
        BY <1>1, <2>2, SeqFacts DEF Types, TypeOK, IsAt
  <2>4. next[cnext] = Null => first = Len(order)
    <3>1. \A p \in Producers : ppc[p] # "link"
          BY <1>1, <2>2 DEF InPop
    <3>2. QED
          BY <1>2, <2>2, <2>3, <3>1 DEF Walk, Chain, MissingIsPending, IsAt
  <2>5. next[cnext] # Null => first + 1 <= Len(order) /\ IsAt(next[cnext], first + 1)
    <3> SUFFICES ASSUME next[cnext] # Null
                 PROVE  first + 1 <= Len(order) /\ IsAt(next[cnext], first + 1)
        OBVIOUS
    <3>1. PICK i \in first .. Len(order) - 1 : data[cnext] = ItemAt(i) /\ IsAt(next[cnext], i + 1)
          BY <1>2, <2>2 DEF Walk, Chain, LinksNeighbours, IsAt
    <3>2. i \in 0 .. Len(order) /\ ItemAt(i) = ItemAt(first)
          BY <2>2, <2>3, <3>1 DEF IsAt
    <3>3. i = first
          BY <1>1, <2>3, <3>2, PositionsDiffer
    <3>4. QED
          BY <2>3, <3>1, <3>3
  <2>6. Chain(first + 1)' /\ Distinct' /\ InPush'
        BY <1>1, <1>2, <2>1, <2>2, <2>4, DropFirst DEF Walk
  <2>7. Sequenced'
        BY <1>1, <1>4, <2>1, Zenon DEF Sequenced, Exchanged, Drops, producerVars
  <2>8. Known'
        BY <1>1, <1>4, <2>1, Zenon DEF Known, Drops, producerVars, ItemAt
  <2>9. InPop'
        BY <1>1, <1>4, <2>1 DEF InPop, Popping, Drops, producerVars
  <2>10. Walk(first + 1)'
    <3>1. next[cnext] # Null => next[cnext] # cnext
          BY <1>1, <1>2, <2>2, <2>4, DropIsUnused DEF Walk, IsAt
    <3>2. next[cnext] # Null => IsAt(cnext, first + 1)'
          BY <2>1, <2>5, <3>1 DEF IsAt, ItemAt, Drops
    <3>3. QED
          BY <2>1, <2>3, <2>4, <2>5, <2>6, <3>2 DEF Walk, Popping, Drops
  <2>11. QED
         BY <1>3, <2>6, <2>7, <2>8, <2>9, <2>10 DEF PInv
<1>7. QED
      BY <1>5, <1>6

-----------------------------------------------------------------------------
(* The results                                                             *)

\* Every step keeps the invariant.
LEMMA PInvStep == PInv /\ [Next]_vars => PInv'
<1> SUFFICES ASSUME PInv, [Next]_vars PROVE PInv'
    OBVIOUS
<1>1. CASE UNCHANGED vars
  <2>1. Types' /\ UNCHANGED <<Frame, head_, cpc, cnext, cdata, joined, knows, received>>
        BY <1>1, TypesStep, Zenon DEF PInv, vars, consumerVars, Frame
  <2>2. Sequenced' /\ InPush' /\ Distinct' /\ Known'
        BY <2>1, QuietStep, Zenon DEF PInv, Known, Frame, heap
  <2>3. InPop' /\ \A first \in Nat : Walk(first) => Walk(first)'
        BY <2>1, FrameStep DEF PInv, InPop, Walk, Popping, Frame, heap, producerVars
  <2>4. QED
        BY <2>1, <2>2, <2>3 DEF PInv
<1>2. QED
      BY <1>1, PushAllocateStep, PushExchangeStep, PushLinkStep, PopLoadStep, PopReadStep,
         PopAdvanceStep, JoinStep, DestroyBeginStep, DestroyStepStep
      DEF Next, Push, Pop, PopEmpty, Destroy
\* Spec keeps the invariant.
LEMMA SpecPInv == Spec => []PInv
BY InitPInv, PInvStep, PTL DEF Spec

\* What the variables of the queue hold, for any number of producers and nodes.
THEOREM TypeCorrect == Spec => []TypeOK
<1>1. PInv => TypeOK
      BY DEF PInv, Types
<1>2. QED
      BY <1>1, SpecPInv, PTL

\* No node is touched after pop or the destructor deleted it, whatever the
\* number of producers and however addresses are reused (mpsc_queue.hpp:43-55).
THEOREM NeverUsedAfterFree == Spec => []NoUseAfterFree
<1>1. PInv => NoUseAfterFree
      BY LiveNodes, Zenon DEF PInv, InPush, NoUseAfterFree, Popping
<1>2. QED
      BY <1>1, SpecPInv, PTL

\* Every access to a node by another thread comes after its construction: the
\* orderings of the exchange and of the links are enough (mpsc_queue.hpp:41-53).
THEOREM DataRaceFree == Spec => []NoDataRace
<1>1. PInv => NoDataRace
      BY Zenon DEF PInv, Known, NoDataRace
<1>2. QED
      BY <1>1, SpecPInv, PTL

\* pop returns the items in the order of the exchanges, none skipped, none twice.
THEOREM Fifo == Spec => []FifoOrder
<1>1. PInv => FifoOrder
  <2> SUFFICES ASSUME PInv PROVE FifoOrder
      BY Zenon
  <2>1. /\ order \in Seq(Items) /\ received \in Seq(Items \cup {Stub})
        /\ Len(received) <= Len(order)
        /\ \A i \in 1 .. Len(received) : received[i] = order[i]
        BY Zenon DEF PInv, Types, TypeOK, Sequenced
  <2>2. QED
        BY ONLY <2>1, SMT DEF FifoOrder
<1>2. QED
      BY <1>1, SpecPInv, PTL

\* The destructor deletes every node that pop did not: when it returns nothing is
\* allocated.
THEOREM NothingLeaks == Spec => []NoLeak
<1>1. PInv => NoLeak
  <2> SUFFICES ASSUME PInv, cpc = "destroyed" PROVE allocated = {}
      BY DEF NoLeak
  <2>1. PICK first \in Nat : Walk(first)
        BY DEF PInv
  <2>2. first > Len(order) /\ \A p \in Producers : ppc[p] = "idle"
        BY <2>1, Zenon DEF PInv, InPop, Popping, Walk
  <2>3. Len(order) \in Nat
        BY SeqFacts, Zenon DEF PInv, Types, TypeOK
  <2>4. QED
        BY <2>1, <2>2, <2>3 DEF Walk, Chain, NoStray
<1>2. QED
      BY <1>1, SpecPInv, PTL

\* The library's theorems about finite sets.
Sets == INSTANCE FiniteSetTheorems

\* A set that a sequence without duplicates enumerates has as many elements;
\* the theorem is the library's, whose Cardinality is that of FiniteSets.
LEMMA Enumerated ==
    ASSUME NEW S, NEW s \in Seq(S),
           \A i, j \in 1 .. Len(s) : s[i] = s[j] => i = j,
           \A x \in S : \E i \in 1 .. Len(s) : s[i] = x
    PROVE  Cardinality(S) = Len(s)
<1>1. s \in [1 .. Len(s) -> S] /\ Len(s) \in Nat
      OBVIOUS
<1>2. s \in Sets!Injection(1 .. Len(s), S)
      BY <1>1 DEF Sets!Injection, Sets!IsInjective
<1>3. s \in Sets!Surjection(1 .. Len(s), S)
      BY <1>1 DEF Sets!Surjection
<1>4. Sets!ExistsBijection(1 .. Len(s), S)
      BY <1>2, <1>3, Zenon DEF Sets!ExistsBijection, Sets!Bijection
<1>5. Sets!Cardinality(S) = Len(s)
      BY <1>1, <1>4, Sets!FS_CountingElements, Zenon
<1>6. QED
      BY <1>5, Zenon DEF Sets!Cardinality, Cardinality

\* Once the producers are joined, pop finds the list empty only when every item
\* pushed has been popped: no link is missing by then, and the exchanges gave
\* each of the items its own position.
THEOREM DrainsCompletely == Spec => []DrainComplete
<1>1. PInv => DrainComplete
  <2> SUFFICES ASSUME PInv, joined, cpc = "idle", next[head_] = Null PROVE Len(received) = Total
      BY DEF DrainComplete
  <2>1. PICK first \in Nat : Walk(first)
        BY DEF PInv
  <2>2. /\ \A p \in Producers : ppc[p] = "idle" /\ count[p] = MaxPush
        /\ IsAt(head_, Len(received)) /\ first = Len(received)
        BY <2>1, Zenon DEF PInv, InPop, Popping, Walk
  <2>3. Len(order) \in Nat /\ Len(received) \in Nat /\ order \in Seq(Items)
        BY SeqFacts, Zenon DEF PInv, Types, TypeOK
  <2>4. Len(received) = Len(order)
    <3>1. MissingIsPending(first) /\ Len(received) <= Len(order)
          BY <2>1, Zenon DEF PInv, Sequenced, Walk, Chain
    <3>2. QED
          BY <2>2, <2>3, <3>1, SMTT(60) DEF MissingIsPending, IsAt
  <2>5. \A i, j \in 1 .. Len(order) : order[i] = order[j] => i = j
        BY DEF PInv, Sequenced
  <2>6. ASSUME NEW x \in Items PROVE \E i \in 1 .. Len(order) : order[i] = x
    <3>1. PICK p \in Producers, k \in 1 .. MaxPush : x = <<p, k>>
          BY DEF Items
    <3>2. Exchanged(p, k)
          BY <2>2 DEF Exchanged
    <3>3. QED
          BY <3>1, <3>2, Zenon DEF PInv, Sequenced
  <2>7. Cardinality(Items) = Len(order)
        BY <2>3, <2>5, <2>6, Enumerated
  <2>8. QED
        BY <2>4, <2>7 DEF Total
<1>2. QED
      BY <1>1, SpecPInv, PTL
=============================================================================
