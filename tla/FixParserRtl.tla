---------------------------- MODULE FixParserRtl ----------------------------
(***************************************************************************)
(* The FPGA parser 3_fpga/rtl/fix_parser.v, one step per clock edge, and   *)
(* the byte source of its test bench tb/fix_parser_tb.v: reset, then every *)
(* byte valid for one clock and followed by one clock without data.        *)
(*                                                                         *)
(* Assignments are nonblocking, so a step reads the old registers:         *)
(* next_state is a register too, and the state follows it one clock late.  *)
(* Registers power up as zero.  byte_count is never read and left out, and *)
(* so is o_ready, to which the test bench pays no attention.               *)
(***************************************************************************)
EXTENDS Integers, Sequences

CONSTANTS Stream,  \* the bytes of the message
          Wait     \* clocks the test bench waits before it looks, the gap
                   \* after the last byte included

VARIABLES state, next_state,
          current_tag,    \* two bytes
          current_value,  \* four bytes
          fields,         \* the o_ registers that hold fields
          o_msg_valid,
          rst_n, i_valid, i_data, \* the inputs
          sent,           \* bytes sent
          waited          \* clocks since the last byte

registers == <<state, next_state, current_tag, current_value, fields, o_msg_valid>>
bench == <<rst_n, i_valid, i_data, sent, waited>>
vars == <<registers, bench>>

Zero(bytes) == [i \in 1 .. bytes |-> 0]

Init ==
    /\ state = "IDLE" /\ next_state = "IDLE"
    /\ current_tag = Zero(2) /\ current_value = Zero(4)
    /\ fields = [begin_string |-> Zero(4), msg_type |-> Zero(2), sender_comp_id |-> Zero(6),
                 target_comp_id |-> Zero(6), sequence |-> Zero(4)]
    /\ o_msg_valid = FALSE
    /\ rst_n = FALSE /\ i_valid = FALSE /\ i_data = 0
    /\ sent = 0 /\ waited = 0

IsDigit(byte) == byte \in 48 .. 57

\* Reset reaches neither next_state nor the fields.
Reset ==
    /\ state' = "IDLE"
    /\ current_tag' = Zero(2) /\ current_value' = Zero(4)
    /\ o_msg_valid' = FALSE
    /\ UNCHANGED <<next_state, fields>>

Idle ==
    /\ IF IsDigit(i_data)
       THEN current_tag' = <<current_tag[2], i_data>> /\ next_state' = "PARSE_TAG"
       ELSE UNCHANGED <<current_tag, next_state>>
    /\ UNCHANGED <<current_value, fields, o_msg_valid>>

ParseTag ==
    /\ next_state' = IF i_data = 61 THEN "PARSE_VALUE" ELSE next_state
    /\ current_tag' = IF IsDigit(i_data) THEN <<current_tag[1], i_data>> ELSE current_tag
    /\ UNCHANGED <<current_value, fields, o_msg_valid>>

ParseValue ==
    /\ IF i_data = 124
       THEN next_state' = "PROCESS_FIELD" /\ UNCHANGED current_value
       ELSE current_value' = Append(Tail(current_value), i_data) /\ UNCHANGED next_state
    /\ UNCHANGED <<current_tag, fields, o_msg_valid>>

\* The tag, characters as they came, is compared with numbers.
ProcessField ==
    LET tag == current_tag[1] * 256 + current_tag[2] IN
    /\ fields' = CASE tag = 8  -> [fields EXCEPT !.begin_string = current_value]
                   [] tag = 35 -> [fields EXCEPT !.msg_type = SubSeq(current_value, 3, 4)]
                   [] tag = 49 -> [fields EXCEPT !.sender_comp_id = Zero(2) \o current_value]
                   [] tag = 56 -> [fields EXCEPT !.target_comp_id = Zero(2) \o current_value]
                   [] tag = 34 -> [fields EXCEPT !.sequence = current_value]
                   [] OTHER -> fields
    /\ next_state' = "IDLE"
    /\ UNCHANGED <<current_tag, current_value, o_msg_valid>>

MsgComplete ==
    /\ o_msg_valid' = TRUE
    /\ next_state' = "IDLE"
    /\ UNCHANGED <<current_tag, current_value, fields>>

\* A clock edge.  Without a valid byte only the state moves.
ClockEdge ==
    \/ ~rst_n /\ Reset
    \/ /\ rst_n
       /\ state' = next_state
       /\ \/ ~i_valid /\ UNCHANGED <<next_state, current_tag, current_value, fields, o_msg_valid>>
          \/ i_valid /\ state = "IDLE" /\ Idle
          \/ i_valid /\ state = "PARSE_TAG" /\ ParseTag
          \/ i_valid /\ state = "PARSE_VALUE" /\ ParseValue
          \/ i_valid /\ state = "PROCESS_FIELD" /\ ProcessField
          \/ i_valid /\ state = "MSG_COMPLETE" /\ MsgComplete

\* What the test bench drives after the edge: the end of reset, the next byte,
\* a clock without data after a byte, and the wait at the end.
TestBench ==
    \/ ~rst_n /\ rst_n' = TRUE /\ UNCHANGED <<i_valid, i_data, sent, waited>>
    \/ /\ rst_n /\ ~i_valid /\ sent < Len(Stream)
       /\ i_valid' = TRUE /\ i_data' = Stream[sent + 1] /\ sent' = sent + 1
       /\ UNCHANGED <<rst_n, waited>>
    \/ rst_n /\ i_valid /\ i_valid' = FALSE /\ UNCHANGED <<rst_n, i_data, sent, waited>>
    \/ /\ rst_n /\ ~i_valid /\ sent = Len(Stream) /\ waited < Wait
       /\ waited' = waited + 1
       /\ UNCHANGED <<rst_n, i_valid, i_data, sent>>

Next == ClockEdge /\ TestBench

Spec == Init /\ [][Next]_vars

\* What the test bench asks after the last byte and the wait (fix_parser_tb.v:73,
\* "[FAIL] Message not parsed"): the parser has said that a message is complete.
MessageParsed == waited = Wait => o_msg_valid
=============================================================================
