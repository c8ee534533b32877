----------------------------- MODULE OrderChurn -----------------------------
(***************************************************************************)
(* The clients of cancel_order in the repository: the workload mix of      *)
(* 1_orderbook/bench/bench_profiling.cpp and, with ten adds and up to five *)
(* cancels in turn, the order churn of bench_realistic.cpp.  Both keep the *)
(* id of every order add_order accepted, also of those it filled, and      *)
(* cancel the one at the back of the list.                                 *)
(***************************************************************************)
EXTENDS OrderBook

VARIABLE order_ids  \* std::vector<uint64_t>

churnVars == <<vars, order_ids>>

ChurnInit == Init /\ order_ids = <<>>

\* ob.add_order(...) begins, or returns 0.
Add == AddOrder /\ UNCHANGED order_ids

\* The call goes on.
Matching == (MatchAggressiveBuy \/ MatchAggressiveSell) /\ UNCHANGED order_ids

\* The call returns: if (oid > 0) order_ids.push_back(oid)
Added ==
    /\ AddOrderFilled \/ AddOrderRest
    /\ order_ids' = Append(order_ids, call.order_id)

\* ob.cancel_order(order_ids.back()); order_ids.pop_back()
CancelBack ==
    /\ order_ids # <<>>
    /\ CancelOrder(order_ids[Len(order_ids)])
    /\ order_ids' = SubSeq(order_ids, 1, Len(order_ids) - 1)

ChurnNext == Add \/ Matching \/ Added \/ CancelBack

ChurnSpec == ChurnInit /\ [][ChurnNext]_churnVars
=============================================================================
