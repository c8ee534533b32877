----------------------------- MODULE FixParser -----------------------------
(***************************************************************************)
(* hft::fix::parse and verify_checksum (2_network/src/fix_message.cpp) as  *)
(* functions of a buffer, a sequence of bytes, and a reference that says   *)
(* what a FIX message means field by field.  Positions count from 1.       *)
(* U32 stands for 2^32; prices stay below the overflow of int64_t, which   *)
(* is undefined.                                                           *)
(***************************************************************************)
EXTENDS Integers, Sequences, FiniteSets

CONSTANT U32

SOH == 1
Equals == 61
Dot == 46
Zero == 48

\* MsgType::NewOrderSingle and MsgType::Unknown
NewOrderSingle == 68
Unknown == 0

\* A FixMessage as constructed.
NoFields == [msg_type |-> Unknown, cl_ord_id |-> <<>>, symbol |-> <<>>, side |-> 0,
             order_qty |-> 0, price_ticks |-> 0, ord_type |-> 0, checksum |-> 0,
             valid |-> FALSE]

is_digit(c) == c \in Zero .. Zero + 9
ascii_to_digit(c) == IF is_digit(c) THEN c - Zero ELSE 255

\* char is signed
Char(c) == IF c < 128 THEN c ELSE c - 256

\* The first position from p on whose byte is in `stop', or the end.
Scan(buf, p, stop) ==
    LET hits == {q \in p .. Len(buf) : buf[q] \in stop} IN
    IF hits = {} THEN Len(buf) + 1 ELSE CHOOSE q \in hits : \A r \in hits : q <= r

\* n = n * 10 + digit over a sequence of characters, in uint32_t.
Accumulate(value) ==
    LET n[k \in 0 .. Len(value)] ==
            IF k = 0 THEN 0 ELSE (n[k - 1] * 10 + Char(value[k]) - Zero) % U32
    IN  n[Len(value)]

Power10[k \in Nat] == IF k = 0 THEN 1 ELSE 10 * Power10[k - 1]

\* while (decimal_places < 4)
Padding(decimals) == IF decimals < 4 THEN 4 - decimals ELSE 0

\* Tag 44.  Every digit counts, other characters are skipped, and digits after
\* a '.' are decimals, filled up with zeros to four.
PriceTicks(value) ==
    LET digits   == SelectSeq(value, is_digit)
        n[k \in 0 .. Len(digits)] == IF k = 0 THEN 0 ELSE n[k - 1] * 10 + digits[k] - Zero
        decimals == Len(SelectSeq(SubSeq(value, Scan(value, 1, {Dot}), Len(value)), is_digit))
    IN  n[Len(digits)] * Power10[Padding(decimals)]

\* Faulty variant: the digit is not converted from its character.
DigitFieldRaw(value) == value[1]

\* value[0] - '0' in uint8_t, of tags 54 and 40
DigitField(value) == (Char(value[1]) - Zero) % 256

\* switch (tag)
Dispatch(msg, tag, value) ==
    CASE tag = 35 /\ Len(value) = 1 -> [msg EXCEPT !.msg_type = value[1]]
      [] tag = 11 -> [msg EXCEPT !.cl_ord_id = value]
      [] tag = 55 -> [msg EXCEPT !.symbol = value]
      [] tag = 54 /\ value # <<>> -> [msg EXCEPT !.side = DigitField(value)]
      [] tag = 38 -> [msg EXCEPT !.order_qty = Accumulate(value)]
      [] tag = 44 -> [msg EXCEPT !.price_ticks = PriceTicks(value)]
      [] tag = 40 /\ value # <<>> -> [msg EXCEPT !.ord_type = DigitField(value)]
      [] tag = 10 /\ Len(value) >= 2 -> [msg EXCEPT !.checksum =
            (ascii_to_digit(value[1]) * 10 + ascii_to_digit(value[2])) % 256]
      [] OTHER -> msg

\* One turn of the loop of parse from state st: a tag, '=', a value up to SOH.
\* Anything else in the place of '=' ends the parse with valid still false.
ParseField(buf, st) ==
    LET eq  == Scan(buf, st.pos, (0 .. 255) \ (Zero .. Zero + 9))
        tag == Accumulate(SubSeq(buf, st.pos, eq - 1))
        end == Scan(buf, eq + 1, {SOH})
    IN  IF eq > Len(buf) \/ buf[eq] # Equals
        THEN [st EXCEPT !.rejected = TRUE]
        ELSE [st EXCEPT !.pos = end + 1,
                        !.msg = Dispatch(@, tag, SubSeq(buf, eq + 1, end - 1))]

\* The state of parse after k turns of its loop.
ParseState(buf, k) ==
    LET st[j \in 0 .. k] ==
            IF j = 0 THEN [pos |-> 1, msg |-> NoFields, rejected |-> FALSE]
            ELSE LET before == st[j - 1] IN
                 IF before.rejected \/ before.pos > Len(buf) THEN before
                 ELSE ParseField(buf, before)
    IN  st[k]

\* parse(buf, len).  Every turn but the last ends at a separator.  A null or
\* empty buffer gives a message without a type.
parse(buf) ==
    LET turns == Cardinality({q \in 1 .. Len(buf) : buf[q] = SOH}) + 1
        st    == ParseState(buf, turns)
    IN
    IF st.rejected THEN st.msg
    ELSE [st.msg EXCEPT !.valid = (st.msg.msg_type # Unknown)]

-----------------------------------------------------------------------------

\* The sum of the first n bytes, in uint8_t.  It is added up by halves: modulo 256
\* the order of the additions makes no difference.
ByteSum(buf, n) ==
    LET s[i, j \in 1 .. n] ==
            LET mid == (i + j) \div 2
            IN  IF i = j THEN buf[i] ELSE (s[i, mid] + s[mid + 1, j]) % 256
    IN  IF n = 0 THEN 0 ELSE s[1, n]

\* Faulty variant: the sum leaves out the first byte.
CheckedSumFromSecond(buf, checksum_pos) == (ByteSum(buf, checksum_pos) - buf[1]) % 256

\* The bytes before the last SOH: checksum_pos bytes of them.
CheckedSum(buf, checksum_pos) == ByteSum(buf, checksum_pos)

\* checksum_pos: the number of bytes before the last SOH, 0 if there is none.
ChecksumPos(buf) ==
    LET sohs == {q \in 1 .. Len(buf) : buf[q] = SOH} IN
    IF sohs = {} THEN 0 ELSE (CHOOSE q \in sohs : \A r \in sohs : r <= q) - 1

\* verify_checksum(buf, len): the three characters before the last SOH against
\* the sum of everything before that SOH, these characters included.
verify_checksum(buf) ==
    LET pos    == ChecksumPos(buf)
        stored == (ascii_to_digit(buf[pos - 2]) * 100 + ascii_to_digit(buf[pos - 1]) * 10
                      + ascii_to_digit(buf[pos])) % 256
    IN  Len(buf) >= 10 /\ pos >= 4 /\ CheckedSum(buf, pos) = stored
-----------------------------------------------------------------------------
(* What a message means, without a parser: its fields are what stands      *)
(* between the separators, a field is a number, '=' and a value, and of    *)
(* several values for a tag the last one counts.                           *)

Starts(buf) == {s \in 1 .. Len(buf) : s = 1 \/ buf[s - 1] = SOH}
FieldText(buf, s) == SubSeq(buf, s, Scan(buf, s, {SOH}) - 1)

EqualsAt(text) == Scan(text, 1, {Equals})
IsField(text) ==
    /\ EqualsAt(text) <= Len(text)
    /\ \A q \in 1 .. EqualsAt(text) - 1 : is_digit(text[q])

AllDigits(text) == \A q \in DOMAIN text : is_digit(text[q])

\* The number a sequence of digits denotes, each digit times its weight.
Decimal(digits) ==
    LET n[k \in 1 .. Len(digits) + 1] ==
            IF k > Len(digits) THEN 0
            ELSE (digits[k] - Zero) * Power10[Len(digits) - k] + n[k + 1]
    IN  n[1]

FieldTag(text) == Decimal(SubSeq(text, 1, EqualsAt(text) - 1))
FieldValue(text) == SubSeq(text, EqualsAt(text) + 1, Len(text))

Fields(buf) ==
    {[at |-> s, tag |-> FieldTag(FieldText(buf, s)), value |-> FieldValue(FieldText(buf, s))] :
        s \in {t \in Starts(buf) : IsField(FieldText(buf, t))}}

\* The last value of a tag whose length is in `lengths'; empty if there is none.
Meaning(fields, tag, lengths) ==
    LET said == {f \in fields : f.tag = tag /\ Len(f.value) \in lengths}
    IN  IF said = {} THEN <<>>
        ELSE (CHOOSE f \in said : \A g \in said : g.at <= f.at).value

\* Digits, or digits with a '.' and at most four decimals; and ten thousand
\* times the number that denotes.
IsPrice(text) ==
    LET d == Scan(text, 1, {Dot}) IN
    /\ AllDigits(SubSeq(text, 1, d - 1)) /\ AllDigits(SubSeq(text, d + 1, Len(text)))
    /\ Len(text) <= d + 4
TenThousandTimes(text) ==
    LET d == Scan(text, 1, {Dot})
        decimals == SubSeq(text, d + 1, Len(text))
    IN  Decimal(SubSeq(text, 1, d - 1)) * 10000
            + Decimal(decimals) * (10000 \div Power10[Len(decimals)])

\* A buffer whose numbers fit their types.
Fits(buf) == \A f \in Fields(buf) :
    f.tag < U32 /\ (AllDigits(f.value) => Decimal(f.value) < U32)

\* parse(buf) accepts a message when all its fields are fields and it says its
\* type in one character other than Unknown, and what it then returns is what the
\* message means.  Any such character will do: line 112 compares with Unknown only,
\* where the comment above it speaks of a recognized type.
AgreesWithMeaning(buf, msg) ==
    LET fields == Fields(buf)
        type   == Meaning(fields, 35, {1})
        qty    == Meaning(fields, 38, 0 .. Len(buf))
        price  == Meaning(fields, 44, 0 .. Len(buf))
        side   == Meaning(fields, 54, 1 .. Len(buf))
    IN  /\ msg.valid <=> /\ \A s \in Starts(buf) : IsField(FieldText(buf, s))
                         /\ type # <<>> /\ type # <<Unknown>>
        /\ msg.valid =>
              /\ <<msg.msg_type>> = type
              /\ msg.symbol = Meaning(fields, 55, 0 .. Len(buf))
              /\ msg.cl_ord_id = Meaning(fields, 11, 0 .. Len(buf))
              /\ qty # <<>> /\ AllDigits(qty) => msg.order_qty = Decimal(qty)
              /\ price # <<>> /\ IsPrice(price) => msg.price_ticks = TenThousandTimes(price)
              /\ Len(side) = 1 /\ AllDigits(side) => msg.side = side[1] - Zero
=============================================================================
