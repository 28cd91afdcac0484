------------------------ MODULE BufferedStreamSource ------------------------
(***************************************************************************)
(* A BufferedStream opened for input implements ByteSource: the refinement *)
(* mapping.  The buffer, the system calls and the other operations of the  *)
(* stream are hidden; the client of ByteSource hears the answers of getc.  *)
(* A stream of another direction is a source that is never opened.         *)
(***************************************************************************)
EXTENDS BufferedStream

IsSource == direction = STREAM_IN

\* No stream was made, or open failed.
Unopened == ~IsSource \/ pc = "none" \/ (pc = "released" /\ ~is_closed)

SourcePhase ==
  CASE Unopened -> "unopened"
    [] ~Unopened /\ is_closed -> "closed"
    [] ~Unopened /\ ~is_closed /\ optional_failure -> "failed"
    [] ~Unopened /\ ~is_closed /\ ~optional_failure ->
         IF is_exhausted \/ (stream_type = BUFFERSTREAM /\ LSlice_is_empty(buffer))
         THEN "ended" ELSE "open"

GetcAnswered == IsSource /\ pc = "ready" /\ op = "getc"

SourceAnswer ==
  CASE ~GetcAnswered -> <<>>
    [] GetcAnswered /\ result.is_err -> <<"error">>
    [] GetcAnswered /\ ~result.is_err ->
         IF result.value = None THEN <<"end">> ELSE <<"byte", result.value>>

SourceFile == IF IsSource THEN input ELSE <<>>

SourceDelivered == IF IsSource THEN Len(got) ELSE 0

Source == INSTANCE ByteSource WITH
  file <- SourceFile, delivered <- SourceDelivered,
  phase <- SourcePhase, answer <- SourceAnswer

\* getc on an input stream behaves as ByteSource: short reads, interrupts, the
\* refilling of the buffer and the recursion of getc do not show, an end or a
\* failure that was met is answered again and again, whatever the file does
\* meanwhile, and a closed stream only answers with an error.
ImplementsByteSource == Source!Spec
=============================================================================
