----------------------------- MODULE MpscQueue -----------------------------
(***************************************************************************)
(* hft::MpscQueue<T> (1_orderbook/include/mpsc_queue.hpp): a linked list   *)
(* with a stub node.  Producers swap their node into tail_ and then link   *)
(* it behind the node they got back; the one consumer follows the links    *)
(* and deletes the nodes it leaves behind.                                 *)
(*                                                                         *)
(* Nodes are addresses of a small heap and are reused after delete.  The   *)
(* orderings of C++ are kept where they matter: the exchange of tail_ is   *)
(* a read-modify-write and always reads the newest value, the load of a    *)
(* next pointer may be stale, and `knows' records whose constructions      *)
(* (Node{item}) happen before a thread's next step.  Items are pairs of a  *)
(* producer and a serial number; the stub's content is Stub.               *)
(***************************************************************************)
EXTENDS Naturals, Sequences, FiniteSets

CONSTANTS Producers,  \* producer threads
          Addr,       \* bound: heap addresses available for nodes
          MaxPush,    \* bound: pushes per producer
          Null,       \* nullptr
          Stub        \* the default-constructed content of the stub node

ASSUME NullAssumption == Null \notin Addr
ASSUME ItemAssumption == MaxPush \in Nat /\ Stub \notin Producers \X (1 .. MaxPush)

VARIABLES
    allocated, \* addresses of live nodes
    data,      \* Node::data
    next,      \* Node::next
    linked,    \* what the store to Node::next releases
    head_,     \* consumer's end; private to the consumer
    tail_,     \* producers' end: [node, rel], rel is what the exchange released
    ppc,       \* per producer: where it is in push
    node,      \* per producer: local node
    prev,      \* per producer: local prev
    count,     \* per producer: pushes begun
    cpc,       \* where the consumer is in pop, or in the destructor
    cnext,     \* consumer's locals next and data
    cdata,
    joined,    \* the producers have been joined: their stores are visible
    knows,     \* per thread: constructions that happen before its next step
    order,     \* history: items in the order of their exchange
    received   \* history: items returned by pop

heap == <<allocated, data, next, linked>>
producerVars == <<ppc, node, prev, count>>
consumerVars == <<cpc, cnext, cdata, joined>>
vars == <<heap, head_, tail_, producerVars, consumerVars, knows, order, received>>

Consumer == "consumer"
Threads == Producers \cup {Consumer}
Items == Producers \X (1 .. MaxPush)
Total == Cardinality(Items)

\* The constructor: both ends at a stub node.  The queue is handed to the
\* threads after that, so all of them know the stub.
Init ==
    /\ \E stub \in Addr :
          /\ allocated = {stub}
          /\ data = [a \in Addr |-> Stub]
          /\ head_ = stub
          /\ tail_ = [node |-> stub, rel |-> {Stub}]
    /\ next = [a \in Addr |-> Null]
    /\ linked = [a \in Addr |-> {}]
    /\ ppc = [p \in Producers |-> "idle"]
    /\ node = [p \in Producers |-> Null]
    /\ prev = [p \in Producers |-> Null]
    /\ count = [p \in Producers |-> 0]
    /\ cpc = "idle" /\ cnext = Null /\ cdata = Stub /\ joined = FALSE
    /\ knows = [t \in Threads |-> {Stub}]
    /\ order = <<>>
    /\ received = <<>>

-----------------------------------------------------------------------------
(* push(item)                                                              *)

\* auto node = new Node{item}
PushAllocate(p) ==
    /\ ppc[p] = "idle"
    /\ count[p] < MaxPush
    /\ \E a \in Addr \ allocated :
          /\ allocated' = allocated \cup {a}
          /\ data' = [data EXCEPT ![a] = <<p, count[p] + 1>>]
          /\ next' = [next EXCEPT ![a] = Null]
          /\ linked' = [linked EXCEPT ![a] = {}]
          /\ node' = [node EXCEPT ![p] = a]
    /\ count' = [count EXCEPT ![p] = @ + 1]
    /\ knows' = [knows EXCEPT ![p] = @ \cup {<<p, count[p] + 1>>}]
    /\ ppc' = [ppc EXCEPT ![p] = "exchange"]
    /\ UNCHANGED <<head_, tail_, prev, consumerVars, order, received>>

\* Faulty variant: the exchange without acquire.
PushExchangeRelaxed(p) ==
    /\ ppc[p] = "exchange"
    /\ prev' = [prev EXCEPT ![p] = tail_.node]
    /\ tail_' = [node |-> node[p], rel |-> knows[p]]
    /\ order' = Append(order, data[node[p]])
    /\ ppc' = [ppc EXCEPT ![p] = "link"]
    /\ UNCHANGED <<heap, head_, node, count, consumerVars, knows, received>>

\* Faulty variant: a load of tail_, possibly stale by now, and a store.
PushExchangeLoadStore(p) ==
    /\ ppc[p] = "exchange"
    /\ \E a \in allocated :
          /\ data[a] \in {Stub} \cup {order[i] : i \in DOMAIN order}
          /\ prev' = [prev EXCEPT ![p] = a]
    /\ knows' = [knows EXCEPT ![p] = @ \cup tail_.rel]
    /\ tail_' = [node |-> node[p], rel |-> knows[p] \cup tail_.rel]
    /\ order' = Append(order, data[node[p]])
    /\ ppc' = [ppc EXCEPT ![p] = "link"]
    /\ UNCHANGED <<heap, head_, node, count, consumerVars, received>>

\* Node* prev = tail_.exchange(node, acq_rel)
PushExchange(p) ==
    /\ ppc[p] = "exchange"
    /\ prev' = [prev EXCEPT ![p] = tail_.node]
    /\ knows' = [knows EXCEPT ![p] = @ \cup tail_.rel]
    /\ tail_' = [node |-> node[p], rel |-> knows[p] \cup tail_.rel]
    /\ order' = Append(order, data[node[p]])
    /\ ppc' = [ppc EXCEPT ![p] = "link"]
    /\ UNCHANGED <<heap, head_, node, count, consumerVars, received>>

\* Faulty variant: links behind tail_ as it is by now instead of prev.
PushLinkTail(p) ==
    /\ ppc[p] = "link"
    /\ next' = [next EXCEPT ![tail_.node] = node[p]]
    /\ linked' = [linked EXCEPT ![tail_.node] = knows[p]]
    /\ ppc' = [ppc EXCEPT ![p] = "idle"]
    /\ UNCHANGED <<allocated, data, head_, tail_, node, prev, count, consumerVars, knows,
                   order, received>>

\* prev->next.store(node, release)
PushLink(p) ==
    /\ ppc[p] = "link"
    /\ next' = [next EXCEPT ![prev[p]] = node[p]]
    /\ linked' = [linked EXCEPT ![prev[p]] = knows[p]]
    /\ ppc' = [ppc EXCEPT ![p] = "idle"]
    /\ UNCHANGED <<allocated, data, head_, tail_, node, prev, count, consumerVars, knows,
                   order, received>>

-----------------------------------------------------------------------------
(* pop()                                                                   *)

\* The acquire load of head->next reads nullptr: nothing is linked yet, or a
\* store that does not happen before the load is not visible yet.
PopEmpty ==
    /\ cpc = "idle"
    /\ next[head_] = Null \/ ~joined
    /\ UNCHANGED vars

\* Faulty variant: no test for nullptr.
PopLoadUnchecked ==
    /\ cpc = "idle"
    /\ cnext' = next[head_]
    /\ knows' = [knows EXCEPT ![Consumer] = @ \cup linked[head_]]
    /\ cpc' = "read"
    /\ UNCHANGED <<heap, head_, tail_, producerVars, cdata, joined, order, received>>

\* The acquire load of head->next reads the link.
PopLoad ==
    /\ cpc = "idle"
    /\ next[head_] # Null
    /\ cnext' = next[head_]
    /\ knows' = [knows EXCEPT ![Consumer] = @ \cup linked[head_]]
    /\ cpc' = "read"
    /\ UNCHANGED <<heap, head_, tail_, producerVars, cdata, joined, order, received>>

\* Faulty variant: the data of the node that is about to be deleted.
PopReadHead ==
    /\ cpc = "read"
    /\ cdata' = data[head_]
    /\ cpc' = "advance"
    /\ UNCHANGED <<heap, head_, tail_, producerVars, cnext, joined, knows, order, received>>

\* T data = next->data
PopRead ==
    /\ cpc = "read"
    /\ cdata' = data[cnext]
    /\ cpc' = "advance"
    /\ UNCHANGED <<heap, head_, tail_, producerVars, cnext, joined, knows, order, received>>

\* Faulty variant: the node that was read is deleted, not the one before it.
PopAdvanceDeletesNext ==
    /\ cpc = "advance"
    /\ head_' = cnext
    /\ allocated' = allocated \ {cnext}
    /\ received' = Append(received, cdata)
    /\ cpc' = "idle"
    /\ UNCHANGED <<data, next, linked, tail_, producerVars, cnext, cdata, joined, knows, order>>

\* head_.store(next), delete head, return data
PopAdvance ==
    /\ cpc = "advance"
    /\ head_' = cnext
    /\ allocated' = allocated \ {head_}
    /\ received' = Append(received, cdata)
    /\ cpc' = "idle"
    /\ UNCHANGED <<data, next, linked, tail_, producerVars, cnext, cdata, joined, knows, order>>

-----------------------------------------------------------------------------
(* The owner of the queue joins the producers, may go on popping and at    *)
(* last destroys the queue.                                                *)

\* std::thread::join on every producer
Join ==
    /\ cpc = "idle" /\ ~joined
    /\ \A p \in Producers : ppc[p] = "idle" /\ count[p] = MaxPush
    /\ joined' = TRUE
    /\ knows' = [knows EXCEPT ![Consumer] = UNION {knows[t] : t \in Threads}]
    /\ UNCHANGED <<heap, head_, tail_, producerVars, cpc, cnext, cdata, order, received>>

\* ~MpscQueue(): node = head_
DestroyBegin ==
    /\ cpc = "idle" /\ joined
    /\ cpc' = "destroy"
    /\ cnext' = head_
    /\ UNCHANGED <<heap, head_, tail_, producerVars, cdata, joined, knows, order, received>>

\* Faulty variant: stops at the last node instead of after it.
DestroyStepKeepsLast ==
    /\ cpc = "destroy"
    /\ IF next[cnext] = Null
       THEN cpc' = "destroyed" /\ UNCHANGED <<allocated, cnext>>
       ELSE /\ allocated' = allocated \ {cnext}
            /\ cnext' = next[cnext]
            /\ UNCHANGED cpc
    /\ UNCHANGED <<data, next, linked, head_, tail_, producerVars, cdata, joined, knows,
                   order, received>>

\* One turn of the destructor's loop, or its end.
DestroyStep ==
    /\ cpc = "destroy"
    /\ IF cnext = Null
       THEN cpc' = "destroyed" /\ UNCHANGED <<allocated, cnext>>
       ELSE /\ allocated' = allocated \ {cnext}
            /\ cnext' = next[cnext]
            /\ UNCHANGED cpc
    /\ UNCHANGED <<data, next, linked, head_, tail_, producerVars, cdata, joined, knows,
                   order, received>>

-----------------------------------------------------------------------------

Push(p) == PushAllocate(p) \/ PushExchange(p) \/ PushLink(p)
Pop == PopEmpty \/ PopLoad \/ PopRead \/ PopAdvance
Destroy == DestroyBegin \/ DestroyStep

Next ==
    \/ \E p \in Producers : Push(p)
    \/ Pop
    \/ Join
    \/ Destroy

Spec == Init /\ [][Next]_vars

\* Every thread keeps running; a link that is stored becomes visible to the
\* consumer in finite time.
FairSpec ==
    /\ Spec
    /\ \A p \in Producers : WF_vars(Push(p))
    /\ WF_vars(PopLoad \/ PopRead \/ PopAdvance)

-----------------------------------------------------------------------------
(* Properties                                                              *)

\* What the variables hold; the locals of an operation in progress name nodes
\* (push: node and prev; pop: a next that passed the test for nullptr).
TypeOK ==
    /\ allocated \subseteq Addr
    /\ data \in [Addr -> Items \cup {Stub}]
    /\ next \in [Addr -> Addr \cup {Null}]
    /\ linked \in [Addr -> SUBSET (Items \cup {Stub})]
    /\ head_ \in Addr
    /\ tail_ \in [node : Addr, rel : SUBSET (Items \cup {Stub})]
    /\ ppc \in [Producers -> {"idle", "exchange", "link"}]
    /\ \A p \in Producers :
          /\ node[p] \in IF ppc[p] = "idle" THEN Addr \cup {Null} ELSE Addr
          /\ prev[p] \in IF ppc[p] = "link" THEN Addr ELSE Addr \cup {Null}
    /\ count \in [Producers -> 0 .. MaxPush]
    /\ cpc \in {"idle", "read", "advance", "destroy", "destroyed"}
    /\ cnext \in IF cpc \in {"read", "advance"} THEN Addr ELSE Addr \cup {Null}
    /\ cdata \in Items \cup {Stub}
    /\ joined \in BOOLEAN
    /\ knows \in [Threads -> SUBSET (Items \cup {Stub})]
    /\ order \in Seq(Items)
    /\ received \in Seq(Items \cup {Stub})

\* No node is touched after pop deleted it (mpsc_queue.hpp:55), although pop
\* runs while producers hold pointers to nodes and addresses are reused: the node
\* a producer is about to link behind (43), the nodes pop is looking at and the
\* node the destructor is at are all alive.
NoUseAfterFree ==
    /\ \A p \in Producers :
          /\ ppc[p] # "idle" => node[p] \in allocated
          /\ ppc[p] = "link" => prev[p] \in allocated
    /\ cpc \in {"idle", "read", "advance"} => head_ \in allocated
    /\ cpc \in {"read", "advance"} => cnext \in allocated
    /\ cpc = "destroy" /\ cnext # Null => cnext \in allocated

\* The construction of a node (41) happens before every access to it by another
\* thread: a producer's store into prev->next (43) and the consumer's read of
\* next->data (53).  The acq_rel of the exchange and the release/acquire pair on
\* next are what this rests on.
NoDataRace ==
    /\ \A p \in Producers : ppc[p] = "link" => data[prev[p]] \in knows[p]
    /\ cpc = "read" => data[cnext] \in knows[Consumer]

\* pop returns the items in the order of the producers' exchanges, each once and
\* none skipped, whatever the order in which the links are stored.
FifoOrder == received = SubSeq(order, 1, Len(received))

\* After the producers are joined pop answers nullopt only when every item that
\* was pushed has been popped (test_mpsc.cpp:46-55 counts them).
DrainComplete ==
    joined /\ cpc = "idle" /\ next[head_] = Null => Len(received) = Total

\* When the destructor returns, every node ever allocated has been deleted by
\* pop or by the destructor's walk.
NoLeak == cpc = "destroyed" => allocated = {}

\* While every producer keeps running, an item whose exchange is done is popped
\* at last unless the queue is destroyed first.  A producer that stops between
\* exchange and link would hide all later items: its fairness is needed.
Delivered ==
    \A i \in 1 .. Total :
        (Len(order) >= i) ~> (Len(received) >= i \/ cpc \in {"destroy", "destroyed"})
=============================================================================
