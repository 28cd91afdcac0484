----------------------------- MODULE MCProgram -----------------------------
(***************************************************************************)
(* Values of the constants of Program for TLC.  LF, CR, a start byte of    *)
(* two, a continuation byte and a start byte of four make characters of    *)
(* one byte and of two, all separators, and every kind of fault: F4 A9 A9  *)
(* A9 is beyond the greatest code point.  A sequence may lie in two        *)
(* fillings of the buffer.                                                 *)
(***************************************************************************)
EXTENDS Program

MCByte == {10, 13, 195, 169, 244}
MCCopied == {"continuation_byte", "premature_EOF", "codepoint"}
=============================================================================
