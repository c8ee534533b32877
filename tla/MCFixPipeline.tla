--------------------------- MODULE MCFixPipeline ---------------------------
(* FixPipeline for TLC.  Noise: up to three pieces of messages in a row,   *)
(* with and without separators, and messages with a checksum.              *)
EXTENDS FixPipeline

Sep == <<SOH>>

\* 35=D  35=F  35=DF  38=7  38=  44=1.5  44=1  54=1  55=A  x=A  =A  38  999=A
Pieces == {<<51, 53, 61, 68>>, <<51, 53, 61, 70>>, <<51, 53, 61, 68, 70>>,
           <<51, 56, 61, 55>>, <<51, 56, 61>>, <<52, 52, 61, 49, 46, 53>>,
           <<52, 52, 61, 49>>, <<53, 52, 61, 49>>, <<53, 53, 61, 65>>,
           <<120, 61, 65>>, <<61, 65>>, <<51, 56>>, <<57, 57, 57, 61, 65>>}

Fragments == Pieces \cup {p \o Sep : p \in Pieces} \cup {Sep}

\* 35=D|10=xyz| for every xyz
Digit(n) == <<Zero + n>>
Checked == {<<51, 53, 61, 68, 1>> \o Field(10, Digit(a) \o Digit(b) \o Digit(c)) :
               a, b, c \in 0 .. 9}

MCNoise == {<<>>} \cup Fragments \cup {f \o g : f, g \in Fragments}
    \cup {f \o g \o h : f, g, h \in {p \o Sep : p \in Pieces}}
    \cup {m \in Checked : verify_checksum(m)}

Wanted(qty, price, side) == [id |-> 10, qty |-> qty, price |-> price, side |-> side]

\* Orders that rest, match in part and match fully; two of one side make a level of
\* U32 shares.
MCOrders == {Wanted(500, 10001, "Buy"), Wanted(1, 9999, "Buy"), Wanted(500, 9999, "Sell")}

\* The value of U64 is the square of the value of U32.
ASSUME Widths == U64 = U32 * U32
=============================================================================
