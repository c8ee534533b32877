---------------------------- MODULE MpscQueueInv ----------------------------
(***************************************************************************)
(* The inductive invariant of MpscQueue and the proofs that the initial    *)
(* state satisfies it and that the allocation and the exchange of push     *)
(* keep it.  The other steps and the results are in MpscQueueProofs.       *)
(*                                                                         *)
(* The argument places the live nodes on the positions of `order'.  The    *)
(* k-th exchange gives position k to the item it publishes and position 0  *)
(* belongs to the stub; the live nodes occupy the positions from `first',  *)
(* that of head_, to that of tail_.node, without a gap.  Each pair of      *)
(* neighbours is either linked or waits for the one producer that holds    *)
(* both nodes in prev and node, and only the nodes of pushes before their  *)
(* exchange are off the chain.  Since an item is pushed once, the content  *)
(* of a live node tells its position, which survives reuse of addresses.   *)
(***************************************************************************)
EXTENDS MpscQueue, TLAPS

\* The locals of push are functions on the producers.
Types ==
    /\ TypeOK
    /\ node \in [Producers -> Addr \cup {Null}]
    /\ prev \in [Producers -> Addr \cup {Null}]

\* The content that belongs at a position, and the live node that has it.
ItemAt(i) == IF i = 0 THEN Stub ELSE order[i]
IsAt(a, i) == a \in allocated /\ data[a] = ItemAt(i)

\* The k-th push of p is past its exchange.
Exchanged(p, k) == k <= count[p] /\ (ppc[p] = "exchange" => k < count[p])

\* `order' has the items of the exchanges so far, each once, and `received'
\* is a prefix of it.
Sequenced ==
    /\ \A i, j \in 1 .. Len(order) : order[i] = order[j] => i = j
    /\ \A p \in Producers, k \in 1 .. MaxPush :
          (\E i \in 1 .. Len(order) : order[i] = <<p, k>>) <=> Exchanged(p, k)
    /\ Len(received) <= Len(order)
    /\ \A i \in 1 .. Len(received) : received[i] = order[i]

\* A push holds a live node with its own item, unlinked until the exchange.
InPush ==
    \A p \in Producers :
        /\ ppc[p] # "idle" =>
              /\ node[p] \in allocated
              /\ data[node[p]] = <<p, count[p]>>
              /\ count[p] >= 1
              /\ <<p, count[p]>> \in knows[p]
        /\ ppc[p] = "exchange" => next[node[p]] = Null

\* No two live nodes have the same content.
Distinct == \A a, b \in allocated : data[a] = data[b] => a = b

\* The live nodes occupy the positions from first on: no gap, none left over
\* but the nodes before their exchange, tail_ at the last position, links only
\* between neighbours, and exactly the missing links are held by a producer.
NoGap(first) == \A i \in first .. Len(order) : \E a \in allocated : data[a] = ItemAt(i)
NoStray(first) ==
    \A a \in allocated :
        \/ \E i \in first .. Len(order) : data[a] = ItemAt(i)
        \/ \E p \in Producers : ppc[p] = "exchange" /\ node[p] = a
TailLast(first) == first <= Len(order) => IsAt(tail_.node, Len(order))
LinksNeighbours(first) ==
    \A a \in allocated : next[a] # Null =>
        \E i \in first .. Len(order) - 1 : data[a] = ItemAt(i) /\ IsAt(next[a], i + 1)
PendingIsMissing(first) ==
    \A p \in Producers : ppc[p] = "link" =>
        \E i \in first .. Len(order) - 1 :
            IsAt(prev[p], i) /\ data[node[p]] = ItemAt(i + 1) /\ next[prev[p]] = Null
MissingIsPending(first) ==
    \A i \in first .. Len(order) - 1, a \in allocated :
        data[a] = ItemAt(i) /\ next[a] = Null =>
            \E p \in Producers : ppc[p] = "link" /\ prev[p] = a
Chain(first) ==
    /\ NoGap(first)
    /\ NoStray(first)
    /\ TailLast(first)
    /\ LinksNeighbours(first)
    /\ PendingIsMissing(first)
    /\ MissingIsPending(first)

\* Who knows of which construction: tail_ and every link release that of the
\* node they point to.
Known ==
    /\ ItemAt(Len(order)) \in tail_.rel
    /\ \A p \in Producers : ppc[p] = "link" => data[prev[p]] \in knows[p]
    /\ \A a \in allocated : next[a] # Null => data[next[a]] \in linked[a]
    /\ cpc = "read" => data[cnext] \in knows[Consumer]

\* The consumer's locals, and what the join leaves behind.
Popping == cpc \in {"idle", "read", "advance"}
InPop ==
    /\ Popping => IsAt(head_, Len(received))
    /\ cpc \in {"read", "advance"} => next[head_] = cnext
    /\ cpc = "advance" => cdata = data[cnext]
    /\ cpc = "destroyed" => cnext = Null
    /\ ~Popping => joined
    /\ joined => \A p \in Producers : ppc[p] = "idle" /\ count[p] = MaxPush

\* The chain begins at head_, or at the node where the destructor's walk is.
Walk(first) ==
    /\ Chain(first)
    /\ Popping => first = Len(received)
    /\ ~Popping => IF cnext = Null
                   THEN first > Len(order)
                   ELSE first <= Len(order) /\ IsAt(cnext, first)

\* The inductive invariant.
PInv ==
    /\ Types /\ Sequenced /\ InPush /\ Distinct /\ Known /\ InPop
    /\ \E first \in Nat : Walk(first)

-----------------------------------------------------------------------------
(* Sequences                                                               *)

\* The length and the elements of a sequence, and what Append does to them.
LEMMA SeqFacts ==
    ASSUME NEW S, NEW s \in Seq(S)
    PROVE  /\ Len(s) \in Nat
           /\ \A i \in 1 .. Len(s) : s[i] \in S
OBVIOUS

\* Append puts its element last and keeps the others.
LEMMA AppendFacts ==
    ASSUME NEW S, NEW s \in Seq(S), NEW x \in S
    PROVE  /\ Append(s, x) \in Seq(S)
           /\ Len(Append(s, x)) = Len(s) + 1
           /\ \A i \in 1 .. Len(s) : Append(s, x)[i] = s[i]
           /\ Append(s, x)[Len(s) + 1] = x
OBVIOUS

-----------------------------------------------------------------------------
(* Types and the initial state                                             *)

\* Init satisfies the invariant: one stub, at position 0.
LEMMA InitPInv == Init => PInv
<1> SUFFICES ASSUME Init PROVE PInv
    OBVIOUS
<1> USE NullAssumption, ItemAssumption
<1>0. /\ Len(order) = 0 /\ Len(received) = 0
      /\ order \in Seq(Items) /\ received \in Seq(Items \cup {Stub})
      BY DEF Init
<1>1. Types
  <2>1. joined \in BOOLEAN
        BY Zenon DEF Init
  <2>2. QED
        BY <1>0, <2>1, SMT DEF Types, TypeOK, Init, Threads
<1>2. Sequenced
      BY <1>0 DEF Sequenced, Init, Exchanged
<1>3. InPush /\ Distinct
      BY DEF InPush, Distinct, Init
<1>4. Known
      BY <1>0 DEF Known, Init, ItemAt
<1>5. InPop
      BY <1>0 DEF InPop, Init, Popping, IsAt, ItemAt
<1>6. Walk(0)
  <2>1. NoGap(0) /\ NoStray(0) /\ TailLast(0)
        BY <1>0 DEF Init, NoGap, NoStray, TailLast, IsAt, ItemAt
  <2>2. LinksNeighbours(0) /\ PendingIsMissing(0) /\ MissingIsPending(0)
        BY <1>0 DEF Init, LinksNeighbours, PendingIsMissing, MissingIsPending
  <2>3. QED
        BY <1>0, <2>1, <2>2 DEF Walk, Chain, Popping, Init
<1>7. QED
      BY <1>1, <1>2, <1>3, <1>4, <1>5, <1>6 DEF PInv

\* Every step keeps the types; the exchange publishes an item, never the stub.
LEMMA TypesStep == Types /\ InPush /\ [Next]_vars => Types'
<1> SUFFICES ASSUME Types, InPush, [Next]_vars PROVE Types'
    OBVIOUS
<1> USE NullAssumption, ItemAssumption DEF Types, TypeOK
<1>b. joined' \in BOOLEAN
      BY Zenon DEF Next, vars, Push, PushAllocate, PushExchange, PushLink, Pop, PopEmpty, PopLoad,
         PopRead, PopAdvance, Join, Destroy, DestroyBegin, DestroyStep, consumerVars
<1>1. ASSUME NEW p \in Producers, PushAllocate(p) PROVE Types'
  <2>1. <<p, count[p] + 1>> \in Items
        BY <1>1, SMT DEF PushAllocate, Items
  <2>2. /\ count' \in [Producers -> 0 .. MaxPush]
        /\ knows' \in [Threads -> SUBSET (Items \cup {Stub})]
    <3>1. count[p] + 1 \in 0 .. MaxPush
          BY <1>1, SMT DEF PushAllocate
    <3>2. p \in Threads
          BY DEF Threads
    <3>3. count' \in [Producers -> 0 .. MaxPush]
          BY <1>1, <3>1 DEF PushAllocate
    <3>4. /\ knows' = [knows EXCEPT ![p] = @ \cup {<<p, count[p] + 1>>}]
          /\ knows \in [Threads -> SUBSET (Items \cup {Stub})]
          BY <1>1 DEF PushAllocate
    <3>5. knows' \in [Threads -> SUBSET (Items \cup {Stub})]
          BY ONLY <2>1, <3>2, <3>4, SMT
    <3>6. QED
          BY <3>3, <3>5
  <2>3. PICK a \in Addr \ allocated :
            /\ allocated' = allocated \cup {a}
            /\ data' = [data EXCEPT ![a] = <<p, count[p] + 1>>]
            /\ next' = [next EXCEPT ![a] = Null]
            /\ linked' = [linked EXCEPT ![a] = {}]
            /\ node' = [node EXCEPT ![p] = a]
        BY <1>1, Zenon DEF PushAllocate
  <2>4. /\ allocated' \subseteq Addr
        /\ data' \in [Addr -> Items \cup {Stub}]
        /\ next' \in [Addr -> Addr \cup {Null}]
        /\ linked' \in [Addr -> SUBSET (Items \cup {Stub})]
        /\ node' \in [Producers -> Addr \cup {Null}]
        BY <2>1, <2>3
  <2>5. \A q \in Producers :
            /\ node'[q] \in IF ppc'[q] = "idle" THEN Addr \cup {Null} ELSE Addr
            /\ prev'[q] \in IF ppc'[q] = "link" THEN Addr ELSE Addr \cup {Null}
        BY <1>1, <2>3 DEF PushAllocate
  <2>6. QED
        BY <1>1, <1>b, <2>2, <2>4, <2>5, SMTT(60) DEF PushAllocate, consumerVars
<1>2. ASSUME NEW p \in Producers, PushExchange(p) PROVE Types'
  <2>1. data[node[p]] \in Items
    <3>1. data[node[p]] = <<p, count[p]>> /\ count[p] >= 1
          BY <1>2, Zenon DEF PushExchange, InPush
    <3>2. count[p] \in 0 .. MaxPush
          OBVIOUS
    <3>3. QED
          BY ONLY <3>1, <3>2, ItemAssumption, p \in Producers, SMT DEF Items
  <2>2. order' \in Seq(Items)
        BY <1>2, <2>1, AppendFacts DEF PushExchange
  <2>3. QED
        BY <1>2, <1>b, <2>2, SMT DEF PushExchange, Threads, heap, consumerVars
<1>3. ASSUME NEW p \in Producers, PushLink(p) PROVE Types'
      BY <1>3, <1>b, SMT DEF PushLink, Threads, consumerVars
<1>4. CASE PopLoad
      BY <1>4, <1>b, SMT DEF PopLoad, Threads, heap, producerVars
<1>5. CASE PopRead
      BY <1>5, <1>b, SMT DEF PopRead, heap, producerVars
<1>6. CASE PopAdvance
  <2>1. received' \in Seq(Items \cup {Stub})
        BY <1>6, AppendFacts DEF PopAdvance
  <2>2. QED
        BY <1>6, <1>b, <2>1, SMT DEF PopAdvance, producerVars
<1>7. CASE Join
  <2>1. UNION {knows[t] : t \in Threads} \in SUBSET (Items \cup {Stub})
    <3>1. \A t \in Threads : knows[t] \subseteq Items \cup {Stub}
          BY Zenon
    <3>2. ASSUME NEW x \in UNION {knows[t] : t \in Threads} PROVE x \in Items \cup {Stub}
          BY ONLY <3>1, <3>2, SMT
    <3>3. QED
          BY ONLY <3>2, SMT
  <2>2. QED
        BY <1>7, <1>b, <2>1, SMT DEF Join, Threads, heap, producerVars
<1>8. CASE DestroyBegin
      BY <1>8, <1>b, SMT DEF DestroyBegin, heap, producerVars
<1>9. CASE DestroyStep
      BY <1>9, <1>b, SMT DEF DestroyStep, producerVars
<1>10. CASE UNCHANGED vars
       BY <1>10, <1>b, SMT DEF vars, heap, producerVars, consumerVars
<1>11. QED
       BY <1>1, <1>2, <1>3, <1>4, <1>5, <1>6, <1>7, <1>8, <1>9, <1>10, Zenon
       DEF Next, Push, Pop, PopEmpty, Destroy
-----------------------------------------------------------------------------
(* Positions                                                               *)

\* A position is determined by its content.
LEMMA PositionsDiffer ==
    ASSUME Types, Sequenced, NEW i \in 0 .. Len(order), NEW j \in 0 .. Len(order),
           ItemAt(i) = ItemAt(j)
    PROVE  i = j
<1>1. /\ order \in Seq(Items)
      /\ \A m, n \in 1 .. Len(order) : order[m] = order[n] => m = n
      BY DEF Types, TypeOK, Sequenced
<1>2. \A k \in 1 .. Len(order) : order[k] \in Items
      BY ONLY <1>1, SeqFacts, Zenon
<1>3. Stub \notin Items /\ Len(order) \in Nat
      BY <1>1, ItemAssumption, SeqFacts DEF Items
<1>4. QED
      BY <1>1, <1>2, <1>3 DEF ItemAt

\* An item has a position exactly when its exchange is done.
LEMMA UnpushedHasNoPosition ==
    ASSUME Types, Sequenced, NEW p \in Producers, NEW k \in 1 .. MaxPush, ~Exchanged(p, k),
           NEW i \in 0 .. Len(order)
    PROVE  ItemAt(i) # <<p, k>>
<1>1. Len(order) \in Nat
      BY SeqFacts DEF Types, TypeOK
<1>2. <<p, k>> # Stub
      BY ItemAssumption
<1>3. i # 0 => order[i] # <<p, k>>
      BY <1>1 DEF Sequenced
<1>4. QED
      BY <1>2, <1>3 DEF ItemAt

\* What the steps of pop that only read leave alone.
Frame == <<heap, tail_, producerVars, order>>

\* Steps that leave the list and the producers alone keep the chain, wherever
\* it is taken to begin.
LEMMA FrameStep ==
    ASSUME UNCHANGED Frame
    PROVE  /\ \A first \in Nat : Chain(first)' <=> Chain(first)
           /\ \A a, i : IsAt(a, i)' <=> IsAt(a, i)
           /\ Distinct' <=> Distinct
<1> USE DEF Frame, heap, producerVars
<1>1. \A i : ItemAt(i)' = ItemAt(i)
      BY DEF ItemAt
<1>2. \A a, i : IsAt(a, i)' <=> IsAt(a, i)
      BY <1>1 DEF IsAt
<1>3. ASSUME NEW first \in Nat PROVE Chain(first)' <=> Chain(first)
  <2>1. /\ NoGap(first)' <=> NoGap(first)
        /\ NoStray(first)' <=> NoStray(first)
        BY <1>1 DEF NoGap, NoStray
  <2>2. /\ TailLast(first)' <=> TailLast(first)
        /\ LinksNeighbours(first)' <=> LinksNeighbours(first)
        BY <1>1, <1>2 DEF TailLast, LinksNeighbours
  <2>3. /\ PendingIsMissing(first)' <=> PendingIsMissing(first)
        /\ MissingIsPending(first)' <=> MissingIsPending(first)
        BY <1>1, <1>2 DEF PendingIsMissing, MissingIsPending
  <2>4. QED
        BY <2>1, <2>2, <2>3 DEF Chain
<1>4. Distinct' <=> Distinct
      BY DEF Distinct
<1>5. QED
      BY <1>2, <1>3, <1>4
\* The nodes the threads are about to touch are alive.
LEMMA LiveNodes ==
    ASSUME Types, InPop, NEW first \in Nat, Walk(first)
    PROVE  /\ \A p \in Producers : ppc[p] = "link" => prev[p] \in allocated
           /\ \A a \in allocated : next[a] # Null => next[a] \in allocated
           /\ Popping => head_ \in allocated
           /\ cpc \in {"read", "advance"} => cnext \in allocated
           /\ cpc = "destroy" /\ cnext # Null => cnext \in allocated
<1>1. \A p \in Producers : ppc[p] = "link" => prev[p] \in allocated
      BY DEF Walk, Chain, PendingIsMissing, IsAt
<1>2. \A a \in allocated : next[a] # Null => next[a] \in allocated
      BY DEF Walk, Chain, LinksNeighbours, IsAt
<1>3. Popping => head_ \in allocated
      BY DEF InPop, IsAt
<1>4. cpc \in {"read", "advance"} => next[head_] = cnext /\ cnext # Null
      BY NullAssumption DEF InPop, Types, TypeOK
<1>5. cpc = "destroy" /\ cnext # Null => cnext \in allocated
      BY DEF Walk, IsAt, Popping
<1>6. QED
      BY <1>1, <1>2, <1>3, <1>4, <1>5 DEF Popping

-----------------------------------------------------------------------------
(* push: new Node{item}                                                    *)

\* What the allocation of node a by p changes, node by node and thread by
\* thread.
AllocateTurn(p, a) ==
    /\ ppc[p] = "idle" /\ count[p] < MaxPush
    /\ ppc'[p] = "exchange" /\ count'[p] = count[p] + 1 /\ node'[p] = a
    /\ \A q \in Producers : q # p => ppc'[q] = ppc[q] /\ count'[q] = count[q] /\ node'[q] = node[q]
AllocateKnows(p) ==
    /\ <<p, count[p] + 1>> \in knows'[p]
    /\ \A t \in Threads : knows[t] \subseteq knows'[t]
AllocateNode(p, a) ==
    /\ a \notin allocated /\ allocated' = allocated \cup {a}
    /\ data'[a] = <<p, count[p] + 1>> /\ next'[a] = Null
    /\ \A b \in allocated : data'[b] = data[b] /\ next'[b] = next[b] /\ linked'[b] = linked[b]
Allocates(p, a) ==
    /\ AllocateTurn(p, a) /\ AllocateKnows(p) /\ AllocateNode(p, a)
    /\ UNCHANGED <<head_, tail_, prev, cpc, cnext, cdata, joined, order, received>>

\* PushAllocate takes some address that is not in use.
LEMMA AllocatesANode ==
    ASSUME Types, NEW p \in Producers, PushAllocate(p)
    PROVE  \E a \in Addr : Allocates(p, a)
<1>1. PICK a \in Addr \ allocated :
          /\ allocated' = allocated \cup {a}
          /\ data' = [data EXCEPT ![a] = <<p, count[p] + 1>>]
          /\ next' = [next EXCEPT ![a] = Null]
          /\ linked' = [linked EXCEPT ![a] = {}]
          /\ node' = [node EXCEPT ![p] = a]
      BY Zenon DEF PushAllocate
<1>2. /\ ppc[p] = "idle" /\ count[p] < MaxPush
      /\ ppc' = [ppc EXCEPT ![p] = "exchange"]
      /\ count' = [count EXCEPT ![p] = @ + 1]
      /\ knows' = [knows EXCEPT ![p] = @ \cup {<<p, count[p] + 1>>}]
      /\ UNCHANGED <<head_, tail_, prev, cpc, cnext, cdata, joined, order, received>>
      BY DEF PushAllocate, consumerVars
<1>3. \A b \in allocated : data'[b] = data[b] /\ next'[b] = next[b] /\ linked'[b] = linked[b]
      BY <1>1 DEF Types, TypeOK
<1>4. data'[a] = <<p, count[p] + 1>> /\ next'[a] = Null /\ node'[p] = a
      BY <1>1 DEF Types, TypeOK
<1>5. \A q \in Producers : q # p => ppc'[q] = ppc[q] /\ count'[q] = count[q] /\ node'[q] = node[q]
      BY <1>1, <1>2 DEF Types, TypeOK
<1>6. /\ ppc'[p] = "exchange" /\ count'[p] = count[p] + 1
      /\ <<p, count[p] + 1>> \in knows'[p]
      /\ \A t \in Threads : knows[t] \subseteq knows'[t]
      BY <1>2 DEF Types, TypeOK, Threads
<1>7. Allocates(p, a)
      BY <1>1, <1>2, <1>3, <1>4, <1>5, <1>6
      DEF Allocates, AllocateTurn, AllocateKnows, AllocateNode
<1>8. QED
      BY <1>7

\* Nothing that was at a position leaves it.
LEMMA AllocateKeepsPositions ==
    ASSUME NEW p, NEW a, Allocates(p, a)
    PROVE  /\ \A i : ItemAt(i)' = ItemAt(i)
           /\ \A b, i : IsAt(b, i) => IsAt(b, i)'
BY DEF Allocates, AllocateNode, ItemAt, IsAt

\* The item of the new node is at no position and in no other node.
LEMMA AllocateIsFresh ==
    ASSUME Types, Sequenced, InPush, NEW first \in Nat, NoStray(first),
           NEW p \in Producers, NEW a, Allocates(p, a)
    PROVE  /\ \A i \in 0 .. Len(order) : ItemAt(i) # <<p, count[p] + 1>>
           /\ \A b \in allocated : data[b] # <<p, count[p] + 1>>
<1>1. /\ count[p] + 1 \in 1 .. MaxPush /\ count[p] \in Nat /\ ppc[p] = "idle"
      /\ Len(order) \in Nat
      BY SeqFacts, ItemAssumption DEF Types, TypeOK, Allocates, AllocateTurn
<1>2. \A i \in 0 .. Len(order) : ItemAt(i) # <<p, count[p] + 1>>
  <2>1. ~Exchanged(p, count[p] + 1)
        BY <1>1 DEF Exchanged
  <2>2. QED
        BY <1>1, <2>1, UnpushedHasNoPosition
<1>3. ASSUME NEW b \in allocated, data[b] = <<p, count[p] + 1>> PROVE FALSE
  <2>1. ~ \E i \in first .. Len(order) : data[b] = ItemAt(i)
        BY <1>1, <1>2, <1>3
  <2>2. PICK q \in Producers : ppc[q] = "exchange" /\ node[q] = b
        BY <2>1 DEF NoStray
  <2>3. data[b] = <<q, count[q]>>
        BY <2>2, Zenon DEF InPush
  <2>4. QED
        BY <1>1, <1>3, <2>2, <2>3
<1>4. QED
      BY <1>2, <1>3
\* The allocation touches no position, and its content is new.
LEMMA AllocateSteps ==
    ASSUME Types, Sequenced, InPush, Distinct, NEW first \in Nat, NoStray(first),
           NEW p \in Producers, NEW a, Allocates(p, a)
    PROVE  Sequenced' /\ InPush' /\ Distinct'
<1>1. Sequenced'
  <2>1. \A q \in Producers, k \in 1 .. MaxPush : Exchanged(q, k)' <=> Exchanged(q, k)
    <3>1. count[p] \in Nat
          BY DEF Types, TypeOK
    <3>2. QED
          BY <3>1 DEF Exchanged, Allocates, AllocateTurn
  <2>2. QED
        BY <2>1, Zenon DEF Sequenced, Allocates
<1>2. InPush'
  <2> SUFFICES ASSUME NEW q \in Producers
               PROVE  /\ ppc'[q] # "idle" =>
                            /\ node'[q] \in allocated'
                            /\ data'[node'[q]] = <<q, count'[q]>>
                            /\ count'[q] >= 1
                            /\ <<q, count'[q]>> \in knows'[q]
                      /\ ppc'[q] = "exchange" => next'[node'[q]] = Null
      BY Zenon DEF InPush
  <2>1. CASE q = p
    <3>1. count[p] \in Nat
          BY DEF Types, TypeOK
    <3>2. QED
          BY <2>1, <3>1, SMTT(60) DEF Allocates, AllocateTurn, AllocateKnows, AllocateNode
  <2>2. CASE q # p
    <3>1. q \in Threads
          BY DEF Threads
    <3>2. /\ ppc'[q] = ppc[q] /\ count'[q] = count[q] /\ node'[q] = node[q]
          /\ knows[q] \subseteq knows'[q]
          BY <2>2, <3>1, Zenon DEF Allocates, AllocateTurn, AllocateKnows
    <3>3. ppc[q] # "idle" => /\ node[q] \in allocated'
                             /\ data'[node[q]] = data[node[q]] /\ next'[node[q]] = next[node[q]]
          BY Zenon DEF InPush, Allocates, AllocateNode
    <3>4. QED
          BY <3>2, <3>3, Zenon DEF InPush
  <2>3. QED
        BY <2>1, <2>2
<1>3. Distinct'
      BY AllocateIsFresh, SMTT(60) DEF Distinct, Allocates, AllocateNode
<1>4. QED
      BY <1>1, <1>2, <1>3

\* The allocation keeps what the threads know and the consumer's locals.
LEMMA AllocateKnown ==
    ASSUME Types, InPop, NEW first \in Nat, Walk(first), Known,
           NEW p \in Producers, NEW a, Allocates(p, a)
    PROVE  Known' /\ InPop'
<1>1. /\ \A q \in Producers : ppc[q] = "link" => prev[q] \in allocated
      /\ \A b \in allocated : next[b] # Null => next[b] \in allocated
      /\ Popping => head_ \in allocated
      /\ cpc \in {"read", "advance"} => cnext \in allocated
      BY LiveNodes
<1>2. ItemAt(Len(order))' \in tail_.rel'
      BY AllocateKeepsPositions DEF Known, Allocates
<1>3. ASSUME NEW q \in Producers, ppc'[q] = "link" PROVE data'[prev'[q]] \in knows'[q]
      BY <1>1, <1>3, SMTT(60) DEF Known, Allocates, AllocateTurn, AllocateKnows, AllocateNode, Threads
<1>4. ASSUME NEW b \in allocated', next'[b] # Null PROVE data'[next'[b]] \in linked'[b]
      BY <1>1, <1>4, SMTT(60) DEF Known, Allocates, AllocateNode
<1>5. ASSUME cpc' = "read" PROVE data'[cnext'] \in knows'[Consumer]
      BY <1>1, <1>5 DEF Known, Allocates, AllocateKnows, AllocateNode, Threads
<1>6. ~joined
  <2>1. count[p] < MaxPush /\ count[p] \in Nat
        BY SMTT(60) DEF Types, TypeOK, Allocates, AllocateTurn
  <2>2. QED
        BY <2>1, ItemAssumption DEF InPop
<1>7. Popping => IsAt(head_, Len(received))'
      BY AllocateKeepsPositions DEF InPop, Allocates
<1>8. InPop'
      BY <1>1, <1>6, <1>7 DEF InPop, Popping, Allocates, AllocateNode
<1>9. QED
      BY <1>2, <1>3, <1>4, <1>5, <1>8 DEF Known

\* The new node is off the chain, whose links stay as they are.
LEMMA AllocateChain ==
    ASSUME Types, Sequenced, InPush, NEW first \in Nat, Chain(first),
           NEW p \in Producers, NEW a, Allocates(p, a)
    PROVE  Chain(first)'
<1>1. /\ \A i : ItemAt(i)' = ItemAt(i)
      /\ \A b, i : IsAt(b, i) => IsAt(b, i)'
      BY AllocateKeepsPositions
<1>2. \A i \in 0 .. Len(order) : ItemAt(i) # <<p, count[p] + 1>>
      BY AllocateIsFresh DEF Chain
<1>3. Len(order) \in Nat /\ order' = order
      BY SeqFacts, Zenon DEF Types, TypeOK, Allocates
<1>4. NoGap(first)' /\ TailLast(first)'
      BY <1>1, SMTT(60) DEF Chain, NoGap, TailLast, Allocates, AllocateNode
<1>5. NoStray(first)'
  <2> SUFFICES ASSUME NEW b \in allocated',
                      ~ \E q \in Producers : ppc'[q] = "exchange" /\ node'[q] = b
               PROVE  \E i \in first .. Len(order) : data'[b] = ItemAt(i)
      BY <1>1, <1>3 DEF NoStray
  <2>1. b # a
        BY Zenon DEF Allocates, AllocateTurn
  <2>2. b \in allocated /\ data'[b] = data[b]
        BY <2>1 DEF Allocates, AllocateNode
  <2>3. ~ \E q \in Producers : ppc[q] = "exchange" /\ node[q] = b
        BY DEF Allocates, AllocateTurn
  <2>4. QED
        BY <2>2, <2>3 DEF Chain, NoStray
<1>6. LinksNeighbours(first)'
      BY <1>1, <1>3, Zenon DEF Chain, LinksNeighbours, Allocates, AllocateNode
<1>7. PendingIsMissing(first)'
  <2> SUFFICES ASSUME NEW q \in Producers, ppc'[q] = "link"
               PROVE  \E i \in first .. Len(order) - 1 :
                          /\ IsAt(prev[q], i)' /\ next'[prev[q]] = Null
                          /\ data'[node'[q]] = ItemAt(i + 1)
      BY <1>1, <1>3 DEF PendingIsMissing, Allocates
  <2>1. ppc[q] = "link" /\ node'[q] = node[q] /\ node[q] \in allocated
        BY Zenon DEF InPush, Allocates, AllocateTurn
  <2>2. PICK i \in first .. Len(order) - 1 :
            IsAt(prev[q], i) /\ data[node[q]] = ItemAt(i + 1) /\ next[prev[q]] = Null
        BY <2>1 DEF Chain, PendingIsMissing
  <2>3. prev[q] \in allocated
        BY <2>2 DEF IsAt
  <2>4. QED
        BY <1>1, <2>1, <2>2, <2>3, Zenon DEF Allocates, AllocateNode
<1>8. MissingIsPending(first)'
  <2> SUFFICES ASSUME NEW i \in first .. Len(order) - 1, NEW b \in allocated',
                      data'[b] = ItemAt(i), next'[b] = Null
               PROVE  \E q \in Producers : ppc'[q] = "link" /\ prev[q] = b
      BY <1>1, <1>3 DEF MissingIsPending, Allocates
  <2>1. b \in allocated /\ data[b] = ItemAt(i) /\ next[b] = Null
    <3>1. i \in 0 .. Len(order)
          BY <1>3
    <3>2. b # a
          BY <1>2, <3>1, Zenon DEF Allocates, AllocateNode
    <3>3. QED
          BY <3>2 DEF Allocates, AllocateNode
  <2>2. PICK q \in Producers : ppc[q] = "link" /\ prev[q] = b
        BY <2>1 DEF Chain, MissingIsPending
  <2>3. QED
        BY <2>2 DEF Allocates, AllocateTurn
<1>9. QED
      BY <1>4, <1>5, <1>6, <1>7, <1>8 DEF Chain

\* PushAllocate keeps the invariant.
LEMMA PushAllocateStep ==
    ASSUME PInv, NEW p \in Producers, PushAllocate(p)
    PROVE  PInv'
<1>1. Types /\ Sequenced /\ InPush /\ Distinct /\ Known /\ InPop
      BY DEF PInv
<1>2. PICK first \in Nat : Walk(first)
      BY DEF PInv
<1>3. PICK a \in Addr : Allocates(p, a)
      BY <1>1, AllocatesANode
<1>4. Types'
      BY <1>1, TypesStep DEF Next, Push
<1>5. Sequenced' /\ InPush' /\ Distinct' /\ Known' /\ InPop' /\ Chain(first)'
      BY <1>1, <1>2, <1>3, AllocateSteps, AllocateKnown, AllocateChain DEF Walk, Chain
<1>6. Walk(first)'
  <2>1. \A i : IsAt(cnext, i) => IsAt(cnext, i)'
        BY <1>3, AllocateKeepsPositions DEF Allocates
  <2>2. QED
        BY <1>2, <1>3, <1>5, <2>1 DEF Walk, Popping, Allocates
<1>7. QED
      BY <1>4, <1>5, <1>6 DEF PInv
-----------------------------------------------------------------------------
(* push: tail_.exchange(node)                                              *)

\* What the exchange of p changes: it takes the next position.
ExchangeTurn(p) ==
    /\ ppc[p] = "exchange" /\ ppc'[p] = "link" /\ prev'[p] = tail_.node
    /\ \A q \in Producers : q # p => ppc'[q] = ppc[q] /\ prev'[q] = prev[q]
ExchangeKnows(p) ==
    /\ \A t \in Threads : knows[t] \subseteq knows'[t]
    /\ tail_.rel \subseteq knows'[p] /\ knows[p] \subseteq tail_'.rel
ExchangeOrder(p) ==
    /\ Len(order') = Len(order) + 1
    /\ \A i \in 1 .. Len(order) : order'[i] = order[i]
    /\ order'[Len(order) + 1] = <<p, count[p]>>
Exchanges(p) ==
    /\ ExchangeTurn(p) /\ ExchangeKnows(p) /\ ExchangeOrder(p)
    /\ tail_'.node = node[p]
    /\ UNCHANGED <<allocated, data, next, linked, head_, node, count, cpc, cnext, cdata, joined,
                   received>>

\* PushExchange is such an exchange: the node it publishes has an item.
LEMMA ExchangesTail ==
    ASSUME Types, InPush, NEW p \in Producers, PushExchange(p)
    PROVE  Exchanges(p)
<1>1. data[node[p]] = <<p, count[p]>> /\ count[p] >= 1
      BY Zenon DEF InPush, PushExchange
<1>2. <<p, count[p]>> \in Items /\ order \in Seq(Items) /\ order' = Append(order, <<p, count[p]>>)
  <2>1. count[p] \in 0 .. MaxPush /\ order \in Seq(Items) /\ order' = Append(order, <<p, count[p]>>)
        BY <1>1 DEF Types, TypeOK, PushExchange
  <2>2. QED
        BY ONLY <1>1, <2>1, ItemAssumption, p \in Producers, SMT DEF Items
<1>3. /\ Len(order') = Len(order) + 1
      /\ \A i \in 1 .. Len(order) : order'[i] = order[i]
      /\ order'[Len(order) + 1] = <<p, count[p]>>
      BY ONLY <1>2, AppendFacts
<1>4. /\ ppc'[p] = "link" /\ prev'[p] = tail_.node
      /\ \A q \in Producers : q # p => ppc'[q] = ppc[q] /\ prev'[q] = prev[q]
      BY DEF Types, TypeOK, PushExchange
<1>5. /\ \A t \in Threads : knows[t] \subseteq knows'[t]
      /\ tail_.rel \subseteq knows'[p] /\ knows[p] \subseteq tail_'.rel
      /\ tail_'.node = node[p]
      BY Zenon DEF Types, TypeOK, PushExchange, Threads
<1>6. QED
      BY <1>3, <1>4, <1>5, Zenon DEF Exchanges, ExchangeTurn, ExchangeKnows, ExchangeOrder,
         PushExchange, heap, consumerVars

\* The positions so far keep their content, the new one is p's.
LEMMA ExchangePositions ==
    ASSUME Types, NEW p \in Producers, Exchanges(p)
    PROVE  /\ \A i \in 0 .. Len(order) : ItemAt(i)' = ItemAt(i)
           /\ \A i : i = Len(order) + 1 => ItemAt(i)' = <<p, count[p]>>
           /\ \A a, i : i \in 0 .. Len(order) /\ IsAt(a, i) => IsAt(a, i)'
           /\ Len(order) \in Nat /\ Len(order') = Len(order) + 1
<1>1. Len(order) \in Nat
      BY SeqFacts, Zenon DEF Types, TypeOK
<1>2. \A i \in 0 .. Len(order) : ItemAt(i)' = ItemAt(i)
      BY <1>1, SMTT(60) DEF Exchanges, ExchangeOrder, ItemAt
<1>3. \A i : i = Len(order) + 1 => ItemAt(i)' = <<p, count[p]>>
      BY <1>1 DEF Exchanges, ExchangeOrder, ItemAt
<1>4. QED
      BY <1>1, <1>2, <1>3 DEF Exchanges, ExchangeOrder, IsAt

\* The item of the exchange is appended to `order' for the first time.
LEMMA ExchangeSequenced ==
    ASSUME Types, Sequenced, InPush, NEW p \in Producers, Exchanges(p)
    PROVE  Sequenced'
<1>1. Len(order) \in Nat /\ Len(received) \in Nat /\ count[p] \in 1 .. MaxPush
  <2>1. count[p] \in 0 .. MaxPush /\ count[p] >= 1 /\ Len(order) \in Nat /\ Len(received) \in Nat
        BY SeqFacts, Zenon DEF Types, TypeOK, InPush, Exchanges, ExchangeTurn
  <2>2. QED
        BY ONLY <2>1, ItemAssumption, SMT
<1>2. \A i \in 1 .. Len(order) : order[i] # <<p, count[p]>>
  <2>1. ~Exchanged(p, count[p])
        BY <1>1 DEF Exchanged, Exchanges, ExchangeTurn
  <2>2. QED
        BY <1>1, <2>1 DEF Sequenced
<1>3. \A i, j \in 1 .. Len(order') : order'[i] = order'[j] => i = j
  <2>1. ExchangeOrder(p)
        BY DEF Exchanges
  <2>2. \A i, j \in 1 .. Len(order) : order[i] = order[j] => i = j
        BY DEF Sequenced
  <2>3. QED
        BY <1>1, <1>2, <2>1, <2>2 DEF ExchangeOrder
<1>4. ASSUME NEW q \in Producers, NEW k \in 1 .. MaxPush
      PROVE  (\E i \in 1 .. Len(order') : order'[i] = <<q, k>>) <=> Exchanged(q, k)'
  <2>1. Exchanged(q, k)' <=> Exchanged(q, k) \/ <<q, k>> = <<p, count[p]>>
        BY <1>1, SMTT(60) DEF Exchanged, Exchanges, ExchangeTurn
  <2>2. (\E i \in 1 .. Len(order') : order'[i] = <<q, k>>) <=>
            (\E i \in 1 .. Len(order) : order[i] = <<q, k>>) \/ <<q, k>> = <<p, count[p]>>
    <3>1. /\ Len(order') = Len(order) + 1 /\ order'[Len(order) + 1] = <<p, count[p]>>
          /\ \A i \in 1 .. Len(order) : order'[i] = order[i]
          BY DEF Exchanges, ExchangeOrder
    <3>2. ASSUME NEW i \in 1 .. Len(order'), order'[i] = <<q, k>>
          PROVE  (\E j \in 1 .. Len(order) : order[j] = <<q, k>>) \/ <<q, k>> = <<p, count[p]>>
          BY ONLY <1>1, <3>1, <3>2
    <3>3. ASSUME NEW i \in 1 .. Len(order), order[i] = <<q, k>>
          PROVE  \E j \in 1 .. Len(order') : order'[j] = <<q, k>>
          BY ONLY <1>1, <3>1, <3>3
    <3>4. Len(order) + 1 \in 1 .. Len(order')
          BY ONLY <1>1, <3>1
    <3>5. QED
          BY <3>1, <3>2, <3>3, <3>4, Zenon
  <2>3. QED
        BY <2>1, <2>2, Zenon DEF Sequenced
<1>5. /\ Len(received') <= Len(order')
      /\ \A i \in 1 .. Len(received') : received'[i] = order'[i]
      BY <1>1 DEF Sequenced, Exchanges, ExchangeOrder
<1>6. QED
      BY <1>3, <1>4, <1>5, Zenon DEF Sequenced

\* The exchange hands on what the earlier ones released.
LEMMA ExchangeKnown ==
    ASSUME Types, InPush, InPop, NEW first \in Nat, Walk(first), first <= Len(order), Known,
           NEW p \in Producers, Exchanges(p)
    PROVE  InPush' /\ Known'
<1>1. InPush'
      BY Zenon DEF InPush, Exchanges, ExchangeTurn, ExchangeKnows, Threads
<1>2. ItemAt(Len(order))' \in tail_.rel'
  <2>1. PICK n \in Nat : n = Len(order')
        BY ExchangePositions
  <2>2. ItemAt(n)' = <<p, count[p]>>
        BY <2>1, ExchangePositions
  <2>3. <<p, count[p]>> \in tail_'.rel
        BY Zenon DEF InPush, Exchanges, ExchangeTurn, ExchangeKnows
  <2>4. QED
        BY <2>1, <2>2, <2>3
<1>3. ASSUME NEW q \in Producers, ppc'[q] = "link" PROVE data'[prev'[q]] \in knows'[q]
  <2>1. data[tail_.node] = ItemAt(Len(order))
        BY Zenon DEF Walk, Chain, TailLast, IsAt
  <2>2. CASE q = p
        BY <2>1, <2>2 DEF Known, Exchanges, ExchangeTurn, ExchangeKnows
  <2>3. CASE q # p
        BY <1>3, <2>3 DEF Known, Exchanges, ExchangeTurn, ExchangeKnows, Threads
  <2>4. QED
        BY <2>2, <2>3
<1>4. QED
      BY <1>1, <1>2, <1>3, Zenon DEF Known, Exchanges, ExchangeKnows, Threads

\* The chain grows by one position, whose link p is now to store.
LEMMA ExchangeChain ==
    ASSUME Types, Sequenced, InPush, Distinct, NEW first \in Nat, Chain(first),
           first <= Len(order), NEW p \in Producers, Exchanges(p)
    PROVE  Chain(first)'
<1>0. PICK n \in Nat : n = Len(order)
      BY ExchangePositions
<1>1. /\ n = Len(order) /\ Len(order') = n + 1 /\ first \in 0 .. n
      /\ \A i \in first .. n : ItemAt(i)' = ItemAt(i)
      /\ ItemAt(n + 1)' = <<p, count[p]>>
      BY <1>0, ExchangePositions
<1>2. node[p] \in allocated /\ data[node[p]] = <<p, count[p]>>
      BY Zenon DEF InPush, Exchanges, ExchangeTurn
<1>3. IsAt(tail_.node, n) /\ next[tail_.node] = Null
  <2>1. IsAt(tail_.node, n)
        BY <1>1 DEF Chain, TailLast
  <2>2. ASSUME next[tail_.node] # Null PROVE FALSE
    <3>1. PICK i \in first .. n - 1 : data[tail_.node] = ItemAt(i)
          BY <1>1, <2>1, <2>2 DEF Chain, LinksNeighbours, IsAt
    <3>2. i \in 0 .. Len(order) /\ n \in 0 .. Len(order) /\ ItemAt(i) = ItemAt(n) /\ i # n
          BY <1>1, <2>1, <3>1 DEF IsAt
    <3>3. QED
          BY <3>2, PositionsDiffer, Zenon
  <2>3. QED
        BY <2>1, <2>2
<1>4. NoGap(first)'
  <2> SUFFICES ASSUME NEW i \in first .. n + 1 PROVE \E a \in allocated : data[a] = ItemAt(i)'
      BY <1>1 DEF NoGap, Exchanges
  <2>1. CASE i = n + 1
        BY <1>1, <1>2, <2>1
  <2>2. CASE i # n + 1
        BY <1>1, <2>2 DEF Chain, NoGap
  <2>3. QED
        BY <2>1, <2>2
<1>5. NoStray(first)'
  <2> SUFFICES ASSUME NEW a \in allocated,
                      ~ \E q \in Producers : ppc'[q] = "exchange" /\ node[q] = a
               PROVE  \E i \in first .. n + 1 : data[a] = ItemAt(i)'
      BY <1>1 DEF NoStray, Exchanges
  <2>1. CASE a = node[p]
    <3>1. n + 1 \in first .. n + 1
          BY <1>1
    <3>2. data[a] = ItemAt(n + 1)'
          BY <1>1, <1>2, <2>1, Zenon
    <3>3. QED
          BY <3>1, <3>2
  <2>2. CASE a # node[p]
    <3>1. ~ \E q \in Producers : ppc[q] = "exchange" /\ node[q] = a
          BY <2>2, Zenon DEF Exchanges, ExchangeTurn
    <3>2. PICK i \in first .. n : data[a] = ItemAt(i)
          BY <1>1, <3>1, Zenon DEF Chain, NoStray
    <3>3. i \in first .. n + 1
          BY <1>1
    <3>4. QED
          BY <1>1, <3>2, <3>3, Zenon
  <2>3. QED
        BY <2>1, <2>2
<1>6. TailLast(first)'
      BY <1>1, <1>2 DEF TailLast, IsAt, Exchanges
<1>7. LinksNeighbours(first)'
  <2> SUFFICES ASSUME NEW a \in allocated, next[a] # Null
               PROVE  \E i \in first .. n : data[a] = ItemAt(i)' /\ IsAt(next[a], i + 1)'
      BY <1>1, SMTT(60) DEF LinksNeighbours, Exchanges
  <2>1. PICK i \in first .. n - 1 : data[a] = ItemAt(i) /\ IsAt(next[a], i + 1)
        BY <1>1 DEF Chain, LinksNeighbours
  <2>2. data[a] = ItemAt(i)' /\ IsAt(next[a], i + 1)'
    <3>1. i \in first .. n /\ i + 1 \in first .. n
          BY <1>1
    <3>2. QED
          BY <1>1, <2>1, <3>1 DEF IsAt, Exchanges
  <2>3. QED
        BY <2>2
<1>8. PendingIsMissing(first)'
  <2> SUFFICES ASSUME NEW q \in Producers, ppc'[q] = "link"
               PROVE  \E i \in first .. n :
                          /\ prev'[q] \in allocated /\ data[prev'[q]] = ItemAt(i)'
                          /\ next[prev'[q]] = Null /\ data[node[q]] = ItemAt(i + 1)'
    <3>1. Len(order') - 1 = n
          BY <1>1
    <3>2. QED
          BY <3>1, Zenon DEF PendingIsMissing, IsAt, Exchanges
  <2>1. CASE q = p
    <3>1. n \in first .. n /\ ItemAt(n)' = ItemAt(n) /\ ItemAt(n + 1)' = data[node[p]]
          BY <1>1, <1>2, SMTT(60)
    <3>2. QED
          BY <1>3, <2>1, <3>1, Zenon DEF Exchanges, ExchangeTurn, IsAt
  <2>2. CASE q # p
    <3>1. ppc[q] = "link" /\ prev'[q] = prev[q]
          BY <2>2, Zenon DEF Exchanges, ExchangeTurn
    <3>2. PICK i \in first .. n - 1 :
              /\ prev[q] \in allocated /\ data[prev[q]] = ItemAt(i)
              /\ data[node[q]] = ItemAt(i + 1) /\ next[prev[q]] = Null
          BY <1>1, <3>1, Zenon DEF Chain, PendingIsMissing, IsAt
    <3>3. i \in first .. n /\ ItemAt(i)' = ItemAt(i) /\ ItemAt(i + 1)' = ItemAt(i + 1)
          BY <1>1
    <3>4. QED
          BY <3>1, <3>2, <3>3
  <2>3. QED
        BY <2>1, <2>2
<1>9. MissingIsPending(first)'
  <2>a. Len(order') - 1 = n
        BY <1>1
  <2> SUFFICES ASSUME NEW i \in first .. n, NEW a \in allocated, data[a] = ItemAt(i), next[a] = Null
               PROVE  \E q \in Producers : ppc'[q] = "link" /\ prev'[q] = a
      BY <1>1, <2>a, SMTT(60) DEF MissingIsPending, Exchanges
  <2>1. CASE i = n
        BY <1>3, <2>1, Zenon DEF Distinct, Exchanges, ExchangeTurn, IsAt
  <2>2. CASE i # n
    <3>1. PICK q \in Producers : ppc[q] = "link" /\ prev[q] = a
      <4>1. i \in first .. Len(order) - 1
            BY <1>1, <2>2
      <4>2. QED
            BY <4>1 DEF Chain, MissingIsPending
    <3>2. QED
          BY <3>1 DEF Exchanges, ExchangeTurn
  <2>3. QED
        BY <2>1, <2>2
<1>10. QED
       BY <1>4, <1>5, <1>6, <1>7, <1>8, <1>9 DEF Chain

\* PushExchange keeps the invariant.
LEMMA PushExchangeStep ==
    ASSUME PInv, NEW p \in Producers, PushExchange(p)
    PROVE  PInv'
<1>1. Types /\ Sequenced /\ InPush /\ Distinct /\ Known /\ InPop
      BY Zenon DEF PInv
<1>2. PICK first \in Nat : Walk(first)
      BY Zenon DEF PInv
<1>3. Exchanges(p)
      BY <1>1, ExchangesTail
<1>4. Types'
      BY <1>1, TypesStep DEF Next, Push
<1>5. Popping /\ ~joined /\ first <= Len(order) /\ Len(received) \in 0 .. Len(order)
  <2>1. ~joined /\ Popping
        BY <1>1, <1>3, Zenon DEF InPop, Exchanges, ExchangeTurn
  <2>2. Len(received) \in Nat /\ Len(order) \in Nat
        BY <1>1, SeqFacts DEF Types, TypeOK
  <2>3. QED
    <3>1. Len(received) <= Len(order) /\ first = Len(received)
          BY <1>1, <1>2, <2>1 DEF Walk, Sequenced
    <3>2. QED
          BY <2>1, <2>2, <3>1
<1>6. Sequenced' /\ InPush' /\ Known' /\ Chain(first)'
      BY <1>1, <1>2, <1>3, <1>5, ExchangeSequenced, ExchangeKnown, ExchangeChain, Zenon
         DEF Walk
<1>7. Distinct'
      BY <1>1, <1>3 DEF Distinct, Exchanges
<1>8. InPop'
  <2>1. IsAt(head_, Len(received))'
        BY <1>1, <1>3, <1>5, ExchangePositions, Zenon DEF InPop, Exchanges
  <2>2. QED
        BY <1>1, <1>3, <1>5, <2>1, Zenon DEF InPop, Exchanges, Popping
<1>9. Walk(first)'
      BY <1>2, <1>3, <1>5, <1>6, Zenon DEF Walk, Popping, Exchanges
<1>10. QED
       BY <1>4, <1>6, <1>7, <1>8, <1>9 DEF PInv
=============================================================================
