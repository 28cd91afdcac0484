------------------------------ MODULE MCMonkey ------------------------------
(***************************************************************************)
(* Values of the constants of Monkey for TLC.  Five wrappers for a table   *)
(* of four, so that the fifth does not fit.  Six bytes are too few for the *)
(* states of four wrappers; they are just enough for two wrappers and a    *)
(* failure of either, with calls of both in between, and leave none for    *)
(* the next failure, or one, if a byte was refreshed alone.  A u8 of three *)
(* values counts down twice before it is 0.                                *)
(***************************************************************************)
EXTENDS Monkey, TLC

CONSTANTS open, read, write, close, lseek
MCWrappers == {open, read, write, close, lseek}
MCSymmetry == Permutations(MCWrappers)
=============================================================================
