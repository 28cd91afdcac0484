-------------------------- MODULE MCBufferedStream --------------------------
(***************************************************************************)
(* Values of the constants of BufferedStream for TLC.  Two byte values     *)
(* tell a byte from its neighbour, a buffer of two bytes is filled, partly *)
(* filled, flushed in part and refilled by five bytes.  A stream of both   *)
(* directions, with one buffer for two sequences of bytes, gets by with    *)
(* fewer: two bytes fill its buffer, so that the put flushes.              *)
(***************************************************************************)
EXTENDS BufferedStreamSource, TLC

MCByte == {1, 2}
MCAllDirections == {STREAM_IN, STREAM_OUT, STREAM_INOUT}
MCAllTypes == {BUFFERSTREAM, FILESTREAM}
MCOutOnly  == {STREAM_OUT}
MCFileOnly == {FILESTREAM}

\* An input stream refuses the one put.
MCMaxInput == STREAM_IN :> 5 @@ STREAM_OUT :> 0 @@ STREAM_INOUT :> 2
MCMaxPut   == STREAM_IN :> 1 @@ STREAM_OUT :> 5 @@ STREAM_INOUT :> 1

MCNoInput == STREAM_OUT :> 0
MCPuts    == STREAM_OUT :> 3
=============================================================================
