---------------------------- MODULE FixPipeline ----------------------------
(***************************************************************************)
(* FIX messages into the order book, as fix_parse_with_orderbook of        *)
(* 2_network/bench/bench_fix_pipeline.cpp does it: each message is parsed  *)
(* and a valid NewOrderSingle becomes a call of add_order.  The client     *)
(* writes its orders with make_fix_message; other buffers arrive as well.  *)
(* This client of the book never cancels.                                  *)
(***************************************************************************)
EXTENDS OrderBook

CONSTANTS Orders, \* orders clients write: [id, qty, price, side]
          Noise,  \* other buffers; explored while the book is new
          None    \* no message

INSTANCE FixParser

VARIABLES buf,  \* the message being handled
          msg   \* what parse returned for it

pipelineVars == <<vars, buf, msg>>

\* std::to_string of a natural number
to_string[n \in Nat] ==
    IF n < 10 THEN <<Zero + n>> ELSE Append(to_string[n \div 10], Zero + (n % 10))

Field(tag, value) == to_string[tag] \o <<Equals>> \o value \o <<SOH>>

\* The texts of the message that carry no information, one character each.
Text == <<65>>

\* Faulty variant: leading zeros of the decimals are lost.
PriceTextShort(price) ==
    to_string[price \div 10000] \o <<Dot>> \o to_string[price % 10000]

\* The price with four decimals, digit by digit.
PriceText(price) ==
    to_string[price \div 10000] \o <<Dot>>
        \o to_string[(price % 10000) \div 1000] \o to_string[(price % 1000) \div 100]
        \o to_string[(price % 100) \div 10] \o to_string[price % 10]

\* side is '1' to buy, '2' to sell; the checksum is always written as 123.
make_fix_message(order_id, qty, price, side) ==
    Field(8, Text) \o Field(9, to_string[65]) \o Field(35, <<NewOrderSingle>>)
        \o Field(49, Text) \o Field(56, Text) \o Field(34, to_string[order_id])
        \o Field(11, Text \o to_string[order_id]) \o Field(55, Text)
        \o Field(54, <<side>>) \o Field(38, to_string[qty]) \o Field(44, PriceText(price))
        \o Field(40, to_string[2]) \o Field(10, to_string[123])

SideChar(side) == IF side = "Buy" THEN Zero + 1 ELSE Zero + 2

Messages ==
    {[order |-> o, text |-> make_fix_message(o.id, o.qty, o.price, SideChar(o.side))] :
        o \in Orders}

PipelineInit == Init /\ buf = None /\ msg = NoFields

\* The thread is between two messages.
Idle == buf = None /\ call = NoCall /\ next_order_id_ <= MaxCalls

\* auto fix_msg = parse(...)
Receive(m) ==
    /\ buf' = m
    /\ msg' = parse(m)
    /\ UNCHANGED vars

\* (fix_msg.side == 1) ? Side::Buy : Side::Sell
SideOf(side) == IF side = 1 THEN "Buy" ELSE "Sell"

IsNewOrder == msg.valid /\ msg.msg_type = NewOrderSingle

\* if (fix_msg.valid && ...) ob.add_order(...)
Submit ==
    /\ buf # None
    /\ buf' = None
    /\ msg' = NoFields
    /\ IF IsNewOrder
       THEN \/ AddOrderAllocate(SideOf(msg.side), msg.price_ticks, msg.order_qty)
            \/ AddOrderExhausted
       ELSE UNCHANGED vars

InsideBook ==
    /\ InsideAddOrder
    /\ UNCHANGED <<buf, msg>>

PipelineNext ==
    \/ Idle /\ \E m \in Messages : Receive(m.text)
    \/ Idle /\ next_order_id_ = 1 /\ \E m \in Noise : Receive(m)
    \/ Submit
    \/ InsideBook

PipelineSpec == PipelineInit /\ [][PipelineNext]_pipelineVars

\* The thread inside add_order keeps running.
FairPipelineSpec == PipelineSpec /\ WF_pipelineVars(InsideBook)

-----------------------------------------------------------------------------
(* Properties.                                                             *)

\* parse (fix_message.cpp:15) against the meaning of the message, for complete,
\* truncated, reordered, repeated and malformed fields whose numbers fit.
ParsedAsMeant == buf # None /\ Fits(buf) => AgreesWithMeaning(buf, msg)

\* The order a client wrote with make_fix_message is the order add_order gets.
RoundTrip ==
    \A m \in Messages : buf = m.text =>
        /\ IsNewOrder
        /\ SideOf(msg.side) = m.order.side
        /\ msg.order_qty = m.order.qty
        /\ msg.price_ticks = m.order.price

\* verify_checksum notices a change of any one byte of the fields before the last,
\* the checksum's.
ChecksumNotices ==
    buf # None /\ verify_checksum(buf) =>
        \A k \in 1 .. ChecksumPos(buf) :
            (\E q \in k + 1 .. ChecksumPos(buf) : buf[q] = SOH) /\ buf[k] # SOH =>
                \A c \in {SOH, Zero, Equals, 65} \ {buf[k]} :
                    ~verify_checksum([buf EXCEPT ![k] = c])
=============================================================================
