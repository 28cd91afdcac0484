------------------------------ MODULE MCReport ------------------------------
(***************************************************************************)
(* Values of the constants of Report for TLC: the two separators and one   *)
(* other character.  Eight characters hold every kind of separator twice,  *)
(* in every order, next to each other and apart.                           *)
(***************************************************************************)
EXTENDS Report

MCChar == {"CR", "LF", "other"}
=============================================================================
