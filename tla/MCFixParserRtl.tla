--------------------------- MODULE MCFixParserRtl ---------------------------
(* FixParserRtl with the message of its test bench: 8=FIX|35=D|34=SEN|     *)
EXTENDS FixParserRtl

TestMessage == <<56, 61, 70, 73, 88, 124, 51, 53, 61, 68, 124, 51, 52, 61, 83, 69, 78, 124>>
=============================================================================
