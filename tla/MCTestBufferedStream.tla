------------------------ MODULE MCTestBufferedStream ------------------------
(***************************************************************************)
(* Values of the constants of TestBufferedStream for TLC.  All bytes of    *)
(* the test differ, so that one that is lost, doubled or out of its place  *)
(* shows.  As 90000 bytes are to the 16384 of a buffer, eight are more     *)
(* than two buffers of three: putc flushes twice, and close once more when *)
(* the buffer is not full.                                                 *)
(***************************************************************************)
EXTENDS TestBufferedStream

MCByte == 1 .. 8
MCbuf  == <<1, 2, 3, 4, 5, 6, 7, 8>>
=============================================================================
