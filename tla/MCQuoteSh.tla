----------------------------- MODULE MCQuoteSh -----------------------------
(***************************************************************************)
(* Values of the constants of QuoteSh for TLC.  An array of 12 chars has   *)
(* room for seven: a first and a second quote are cut at each of their     *)
(* chars, and strings of one quote or of up to five plain chars fit.       *)
(***************************************************************************)
EXTENDS QuoteSh

MCOther == {"a"}
=============================================================================
