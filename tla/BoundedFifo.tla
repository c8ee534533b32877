---------------------------- MODULE BoundedFifo ----------------------------
(***************************************************************************)
(* What a bounded single-producer single-consumer queue promises to its    *)
(* two threads when each of them learns about the other's progress late.   *)
(*                                                                         *)
(* The queue holds at most Bound items.  The producer owns `credit' free   *)
(* places it knows of; places the consumer has vacated but the producer    *)
(* has not noticed yet are `returned'.  The consumer sees only the first   *)
(* `visible' items.  A push may be refused only when the producer has no   *)
(* credit, and a pop may come back empty only when no item is visible.     *)
(* size() is an over-estimate when the producer asks and an under-estimate *)
(* when the consumer asks.                                                 *)
(***************************************************************************)
EXTENDS Naturals, Sequences

CONSTANTS Items,   \* the values that can be queued
          Bound    \* the largest number of items held at once

VARIABLES queue,    \* items pushed and not yet popped, oldest first
          credit,   \* free places the producer knows of
          returned, \* free places the producer has not noticed yet
          visible,  \* length of the prefix of queue the consumer knows of
          out,      \* the items handed out by pop, oldest first
          pushRet,  \* what the current or last push answered
          popRet,   \* what the current or last pop answered
          sizeRet   \* what the last size() answered

avars == <<queue, credit, returned, visible, out, pushRet, popRet, sizeRet>>

AInit ==
    /\ queue = <<>>
    /\ credit = Bound
    /\ returned = 0
    /\ visible = 0
    /\ out = <<>>
    /\ pushRet = "none"
    /\ popRet = "none"
    /\ sizeRet = 0

-----------------------------------------------------------------------------
(* The producer.                                                           *)

CallPush ==
    /\ pushRet' = "none"
    /\ UNCHANGED <<queue, credit, returned, visible, out, popRet, sizeRet>>

\* The producer notices some of the places vacated by the consumer.
NoticeRoom ==
    /\ \E n \in 1 .. returned : /\ credit' = credit + n
                                /\ returned' = returned - n
    /\ UNCHANGED <<queue, visible, out, pushRet, popRet, sizeRet>>

Accept(item) ==
    /\ pushRet = "none"
    /\ credit > 0
    /\ queue' = Append(queue, item)
    /\ credit' = credit - 1
    /\ pushRet' = "true"
    /\ UNCHANGED <<returned, visible, out, popRet, sizeRet>>

Refuse ==
    /\ pushRet = "none"
    /\ credit = 0
    /\ pushRet' = "false"
    /\ UNCHANGED <<queue, credit, returned, visible, out, popRet, sizeRet>>

\* size() from the producer: never less than the number of items held.
SizeForProducer ==
    /\ \E n \in 0 .. returned : /\ credit' = credit + n
                                /\ returned' = returned - n
                                /\ sizeRet' = Bound - (credit + n)
    /\ UNCHANGED <<queue, visible, out, pushRet, popRet>>

-----------------------------------------------------------------------------
(* The consumer.                                                           *)

CallPop ==
    /\ popRet' = "none"
    /\ UNCHANGED <<queue, credit, returned, visible, out, pushRet, sizeRet>>

\* The consumer notices some of the items pushed by the producer.
NoticeItems ==
    /\ visible' \in (visible + 1) .. Len(queue)
    /\ UNCHANGED <<queue, credit, returned, out, pushRet, popRet, sizeRet>>

Deliver ==
    /\ popRet = "none"
    /\ visible > 0
    /\ out' = Append(out, Head(queue))
    /\ queue' = Tail(queue)
    /\ visible' = visible - 1
    /\ returned' = returned + 1
    /\ popRet' = "item"
    /\ UNCHANGED <<credit, pushRet, sizeRet>>

Nothing ==
    /\ popRet = "none"
    /\ visible = 0
    /\ popRet' = "nullopt"
    /\ UNCHANGED <<queue, credit, returned, visible, out, pushRet, sizeRet>>

\* size() from the consumer: never more than the number of items held.
SizeForConsumer ==
    /\ visible' \in visible .. Len(queue)
    /\ sizeRet' = visible'
    /\ UNCHANGED <<queue, credit, returned, out, pushRet, popRet>>

-----------------------------------------------------------------------------

ANext ==
    \/ CallPush
    \/ NoticeRoom
    \/ \E item \in Items : Accept(item)
    \/ Refuse
    \/ SizeForProducer
    \/ CallPop
    \/ NoticeItems
    \/ Deliver
    \/ Nothing
    \/ SizeForConsumer

ASpec == AInit /\ [][ANext]_avars
=============================================================================
