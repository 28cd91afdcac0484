----------------------------- MODULE MCUnicode -----------------------------
(***************************************************************************)
(* Values of the constants of Unicode for TLC: both ends of every range of *)
(* bytes that the code or the Unicode Standard tells apart, and some bytes *)
(* from within.                                                            *)
(***************************************************************************)
EXTENDS Unicode

MCByte ==
  {0, 10, 127} \cup {128, 143, 144, 159, 160, 170, 191} \cup {192, 193, 194, 223}
  \cup {224, 225, 236, 237, 238, 239} \cup {240, 241, 243, 244, 245, 247}
  \cup {248, 252, 255}
=============================================================================
