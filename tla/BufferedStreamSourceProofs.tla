--------------------- MODULE BufferedStreamSourceProofs ---------------------
(***************************************************************************)
(* A stream opened for input implements ByteSource, for every buffer size, *)
(* every set of byte values and every bound: each step of BufferedStream   *)
(* is, through the refinement mapping, a step of ByteSource or none.       *)
(*                                                                         *)
(* That rests on the order of what is read (ReadInv), on who may have an   *)
(* open file (ReleaseInv), and on SourceInv: an end or a failure is met    *)
(* only with an empty buffer, and never both of them.                      *)
(***************************************************************************)
EXTENDS BufferedStreamSource, BufferedStreamProofs

USE DEF structVars, fileVars, osVars, historyVars, vars, Functions, FILESTREAM,
        BUFFERSTREAM, FD_NONE, OpenFile, Ok, Err, HeldBy, StoredFailure, Return,
        FlushReturns, StoreFailure, Closed, Getting, Putting, AtEnd

EndIsMetWhenEmpty ==
  IsSource /\ ~is_closed /\ (is_exhausted \/ optional_failure)
    => LSlice_is_empty(buffer) /\ ~(is_exhausted /\ optional_failure)

SourceInv ==
  /\ pc = "none" => ~is_exhausted
  /\ pc = "sysclose" => op = "close"
  /\ pc = "read" => ~is_exhausted /\ ~optional_failure
  /\ stream_type = BUFFERSTREAM => offset = Len(input) /\ ~is_exhausted /\ ~optional_failure
  /\ EndIsMetWhenEmpty

Inv == IInv /\ ReadInv /\ ReleaseInv /\ SourceInv

-----------------------------------------------------------------------------
(* SourceInv is an invariant *)

LEMMA SourceFrame ==
  ASSUME SourceInv, UNCHANGED <<buffer, is_closed, stream_type, direction, is_exhausted,
                                optional_failure, input, offset>>,
         pc' \notin {"none", "read", "sysclose"}
  PROVE  SourceInv'
BY DEF SourceInv, EndIsMetWhenEmpty, IsSource, LSlice_is_empty

LEMMA GetcSourceInv == ASSUME Inv, Getc PROVE SourceInv'
<1>1. CASE GetcRefused \/ GetcEnd \/ GetcFailed
  BY <1>1, SourceFrame DEF GetcRefused, GetcEnd, GetcFailed, Inv
<1>2. CASE GetcByte
  BY <1>2 DEF GetcByte, Buffer_getc, LSlice_is_empty, Inv, SourceInv, EndIsMetWhenEmpty, IsSource
<1>3. CASE GetcRefill
  BY <1>3 DEF GetcRefill, Inv, SourceInv, EndIsMetWhenEmpty, IsSource, IInv, TypeOK
<1> QED
  BY <1>1, <1>2, <1>3 DEF Getc

LEMMA ReadSourceInv == ASSUME Inv, Read PROVE SourceInv'
<1>1. OpenFile /\ pc = "read"
  BY DEF Read, ReadBytes, ReadEOF, ReadFails, Inv, IInv, Control
<1> QED
  BY <1>1 DEF Read, ReadBytes, ReadEOF, ReadFails, Inv, SourceInv, EndIsMetWhenEmpty, IsSource,
     ReadInv, LSlice_is_empty

LEMMA OutputSourceInv == ASSUME Inv, Putc \/ Flush \/ Write PROVE SourceInv'
<1>1. CASE PutcRefused \/ PutcNoSpace \/ PutcFlush
  BY <1>1, SourceFrame DEF PutcRefused, PutcNoSpace, PutcFlush, Inv
<1>2. CASE PutcByte \/ Flush \/ Write
  <2>1. "OUT" \in direction /\ direction' = direction
    BY <1>2 DEF PutcByte, Flush, FlushNothing, FlushFile, Write, WriteAll, WritePart,
       WriteFails, Inv, ReadInv
  <2>2. pc = "write" => stream_type = FILESTREAM
    BY DEF Inv, IInv, Control
  <2>3. pc' = "sysclose" => op' = "close"
    BY <1>2 DEF PutcByte, Flush, FlushNothing, FlushFile, Write, WriteAll, WritePart,
       WriteFails, Inv, IInv, Control
  <2>4. pc' \notin {"none", "read"}
    BY <1>2 DEF PutcByte, Flush, FlushNothing, FlushFile, Write, WriteAll, WritePart,
       WriteFails
  <2>5. stream_type' = stream_type /\ UNCHANGED <<input, offset, is_exhausted>>
        /\ (stream_type = BUFFERSTREAM => UNCHANGED optional_failure)
    BY <1>2, <2>2 DEF PutcByte, Flush, FlushNothing, FlushFile, Write, WriteAll, WritePart,
       WriteFails
  <2> QED
    BY <2>1, <2>3, <2>4, <2>5 DEF Inv, SourceInv, EndIsMetWhenEmpty, IsSource, STREAM_IN
<1> QED
  BY <1>1, <1>2 DEF Putc

LEMMA CloseSourceInv ==
  ASSUME Inv, Close \/ SysClose \/ SysCloseInterrupted PROVE SourceInv'
<1>1. CASE CloseRefused \/ CloseFile \/ SysCloseInterrupted
  BY <1>1 DEF CloseRefused, CloseFile, SysCloseInterrupted, Inv, IInv, Control, SourceInv,
     EndIsMetWhenEmpty, IsSource, LSlice_is_empty
<1>2. CASE CloseBuffer \/ SysCloseSucceeds \/ SysCloseFails
  BY <1>2 DEF CloseBuffer, SysCloseSucceeds, SysCloseFails, Inv, IInv, Control, SourceInv,
     EndIsMetWhenEmpty
<1> QED
  BY <1>1, <1>2 DEF Close, SysClose

LEMMA ConstructorSourceInv == ASSUME Inv, Constructor PROVE SourceInv'
<1> USE DEF Inv, IInv, Control, ReadInv, SourceInv, EndIsMetWhenEmpty
<1>1. ASSUME NEW dir, NEW nameOwned, FileStream(dir, nameOwned) PROVE SourceInv'
  BY <1>1 DEF FileStream
<1>2. ASSUME NEW dir, NEW array, NEW full, NEW dataOwned, NEW nameOwned,
             Buffer_to_BufferedStream(dir, array, full, dataOwned, nameOwned)
      PROVE  SourceInv'
  BY <1>2 DEF Buffer_to_BufferedStream
<1>3. ASSUME NEW dir, NEW nameOwned, open_BufferedStream(dir, nameOwned),
             ~FileStream(dir, nameOwned)
      PROVE  SourceInv'
  BY <1>3, SourceFrame DEF open_BufferedStream
<1> QED
  BY <1>1, <1>2, <1>3 DEF Constructor, fd_BufferedStream, open_BufferedStream

LEMMA NextSourceInv == Inv /\ [Next]_vars => SourceInv'
<1> SUFFICES ASSUME Inv, [Next]_vars PROVE SourceInv'
  OBVIOUS
<1>1. CASE Constructor
  BY <1>1, ConstructorSourceInv
<1>2. CASE Client
  BY <1>2, SourceFrame DEF Client, Call, BufferedStream_release, Inv
<1>3. CASE Progress
  BY <1>3, GetcSourceInv, ReadSourceInv, OutputSourceInv, CloseSourceInv DEF Progress
<1>4. CASE SysCloseInterrupted
  BY <1>4, CloseSourceInv
<1>5. ASSUME NEW b \in Byte, FileGrows(b) PROVE SourceInv'
  BY <1>5 DEF FileGrows, Inv, ReleaseInv, FdClosed, SourceInv, EndIsMetWhenEmpty, IsSource,
     LSlice_is_empty
<1>6. CASE Interrupted \/ Finished \/ UNCHANGED vars
  BY <1>6 DEF Interrupted, Finished, Inv, SourceInv, EndIsMetWhenEmpty, IsSource,
     LSlice_is_empty
<1> QED
  BY <1>1, <1>2, <1>3, <1>4, <1>5, <1>6 DEF Next

LEMMA SourceInvariance == Spec => []Inv
<1>1. Init => SourceInv
  BY DEF Init, SourceInv, EndIsMetWhenEmpty
<1>2. Init => ReadInv /\ ReleaseInv
  BY FS_EmptySet DEF Init, ReadInv, STREAM_IN, ReleaseInv, FdClosed, CloseFailsOnce, Balance
<1>3. Init => Inv
  BY <1>1, <1>2, InitIInv DEF Inv
<1>4. Inv /\ [Next]_vars => Inv'
  BY NextIInv, NextReadInv, NextReleaseInv, NextSourceInv DEF Inv
<1> QED
  BY <1>3, <1>4, PTL DEF Spec

-----------------------------------------------------------------------------
(* Each step is one of ByteSource, or none *)

Hidden == UNCHANGED <<SourceFile, SourceDelivered, SourcePhase, SourceAnswer>>

Mapped == Source!Next \/ Hidden

\* Another stream is a source that is never opened.
LEMMA OthersAreHidden == ASSUME ~IsSource, ~IsSource' PROVE Hidden
BY DEF Hidden, SourceFile, SourceDelivered, SourcePhase, SourceAnswer, Unopened, GetcAnswered

\* The phase of a source that is there.
LEMMA PhaseOf ==
  ASSUME ~Unopened
  PROVE  SourcePhase =
           IF is_closed THEN "closed"
           ELSE IF optional_failure THEN "failed"
           ELSE IF is_exhausted \/ (stream_type = BUFFERSTREAM /\ LSlice_is_empty(buffer))
           THEN "ended" ELSE "open"
BY DEF SourcePhase

LEMMA AnswerOf ==
  SourceAnswer =
    IF ~GetcAnswered THEN <<>>
    ELSE IF result.is_err THEN <<"error">>
    ELSE IF result.value = None THEN <<"end">> ELSE <<"byte", result.value>>
BY DEF SourceAnswer

LEMMA NoAnswer == ASSUME pc # "ready" \/ op # "getc" PROVE SourceAnswer = <<>>
BY DEF SourceAnswer, GetcAnswered

LEMMA NoAnswerNext == ASSUME pc' # "ready" \/ op' # "getc" PROVE SourceAnswer' = <<>>
BY DEF SourceAnswer, GetcAnswered

\* A source that is there and stays there, in a step that changes nothing of
\* what its phase depends on.
LEMMA PhaseStays ==
  ASSUME ~Unopened, ~Unopened',
         UNCHANGED <<is_closed, optional_failure, is_exhausted, stream_type, buffer>>
  PROVE  SourcePhase' = SourcePhase
BY DEF SourcePhase, LSlice_is_empty

\* A step of a source that shows neither in its answer nor in its phase.
LEMMA QuietIsHidden ==
  ASSUME IsSource, pc \notin {"none", "released"}, pc' \notin {"none", "released"},
         pc # "ready" \/ op # "getc", pc' # "ready" \/ op' # "getc",
         UNCHANGED <<direction, input, got, is_closed, optional_failure, is_exhausted,
                     stream_type, buffer>>
  PROVE  Hidden
<1>1. IsSource' /\ ~Unopened /\ ~Unopened'
  BY DEF IsSource, Unopened
<1> QED
  BY <1>1, NoAnswer, NoAnswerNext, PhaseStays DEF Hidden, SourceFile, SourceDelivered

\* The answer of a getc that finds the stream in a phase that answers alike
\* for ever.
LEMMA AnswerStep ==
  ASSUME IsSource, pc = "getc", pc' = "ready", op = "getc",
         UNCHANGED <<op, direction, input, got, is_closed, optional_failure, is_exhausted,
                     stream_type, buffer>>
  PROVE  /\ SourceAnswer = <<>>
         /\ SourcePhase' = SourcePhase
         /\ UNCHANGED <<SourceFile, SourceDelivered>>
         /\ SourceAnswer' = IF result'.is_err THEN <<"error">>
                            ELSE IF result'.value = None THEN <<"end">>
                            ELSE <<"byte", result'.value>>
<1>1. IsSource' /\ ~Unopened /\ ~Unopened'
  BY DEF IsSource, Unopened
<1>2. SourceAnswer' = IF result'.is_err THEN <<"error">>
                      ELSE IF result'.value = None THEN <<"end">>
                      ELSE <<"byte", result'.value>>
  BY <1>1 DEF SourceAnswer, GetcAnswered
<1> QED
  BY <1>1, <1>2, NoAnswer, PhaseStays DEF SourceFile, SourceDelivered

LEMMA GetcAnswers ==
  ASSUME Inv, IsSource, GetcRefused \/ GetcEnd \/ GetcFailed PROVE Source!Next
<1>1. pc = "getc" /\ pc' = "ready" /\ op = "getc" /\ ~Unopened
      /\ UNCHANGED <<op, direction, input, got, is_closed, optional_failure, is_exhausted,
                     stream_type, buffer>>
  BY DEF GetcRefused, GetcEnd, GetcFailed, Inv, ReleaseInv, FdClosed, Unopened
<1>2. CASE GetcEnd
  <2>1. SourcePhase = "ended"
    BY <1>1, <1>2, PhaseOf DEF GetcEnd, Inv, SourceInv, EndIsMetWhenEmpty
  <2>2. SourceAnswer' = <<"end">>
    BY <1>1, <1>2, AnswerStep DEF GetcEnd
  <2>3. Source!AnswerEnd
    BY <1>1, <2>1, <2>2, AnswerStep DEF Source!AnswerEnd, Source!Silent, Source!End
  <2> QED
    BY <2>3 DEF Source!Next
<1>3. CASE GetcRefused \/ GetcFailed
  <2>1. SourcePhase \in {"closed", "failed"}
    BY <1>1, <1>3, PhaseOf DEF GetcRefused, GetcFailed, IsSource, STREAM_IN
  <2>2. SourceAnswer' = <<"error">>
    BY <1>1, <1>3, AnswerStep DEF GetcRefused, GetcFailed
  <2>3. Source!AnswerError
    BY <1>1, <2>1, <2>2, AnswerStep DEF Source!AnswerError, Source!Silent, Source!Failure
  <2> QED
    BY <2>3 DEF Source!Next
<1> QED
  BY <1>2, <1>3

LEMMA GetcDelivers == ASSUME Inv, Inv', IsSource, GetcByte PROVE Source!Next
<1> DEFINE b == LSlice_ref_start(buffer)
<1>1. /\ pc = "getc" /\ op = "getc" /\ ~is_closed /\ ~LSlice_is_empty(buffer)
      /\ pc' = "ready" /\ result' = [is_err |-> FALSE, value |-> b, heap |-> FALSE]
      /\ got' = Append(got, b)
      /\ UNCHANGED <<op, direction, input, offset, is_closed, optional_failure,
                     is_exhausted, stream_type>>
  BY DEF GetcByte, Inv, ReleaseInv, FdClosed
<1>2. IsSource' /\ ~Unopened /\ ~Unopened' /\ SourceAnswer = <<>>
  BY <1>1, NoAnswer DEF IsSource, Unopened
<1>3. b \in Byte
  BY <1>1, SoundBuffer, FirstIsByte DEF Inv, IInv
<1>4. /\ input \in Seq(Byte) /\ got \in Seq(Byte) /\ offset \in 0 .. Len(input)
      /\ buffer.startpos \in Nat /\ buffer.endpos \in Nat
      /\ buffer'.startpos \in Nat /\ buffer'.endpos \in Nat
      /\ buffer.startpos < buffer.endpos /\ buffer'.startpos <= buffer'.endpos
  BY <1>1 DEF Inv, IInv, TypeOK, BufferSound, Buffer_assert, LSlice_is_empty
<1>5. /\ Len(got) + (buffer.endpos - buffer.startpos) = offset
      /\ Buffered
      /\ Len(got') + (buffer'.endpos - buffer'.startpos) = offset
  BY <1>1, <1>2 DEF Inv, ReadInv, InOrder, IsSource
<1>6. SourceDelivered' = SourceDelivered + 1 /\ SourceDelivered < Len(SourceFile)
      /\ SourceDelivered' = Len(got') /\ UNCHANGED SourceFile /\ SourceFile = input
  BY <1>1, <1>2, <1>3, <1>4, <1>5 DEF SourceDelivered, SourceFile
<1>7. SourceAnswer' = <<"byte", SourceFile[SourceDelivered']>>
  <2>1. SourceAnswer' = <<"byte", b>>
    BY <1>1, <1>2, <1>3, ByteAssumption DEF SourceAnswer, GetcAnswered
  <2>2. b = input[Len(got) + (buffer.startpos - buffer.startpos) + 1]
    <3>1. buffer.startpos <= buffer.startpos
      BY <1>4
    <3>2. buffer.data[buffer.startpos]
            = input[Len(got) + (buffer.startpos - buffer.startpos) + 1]
      BY <1>4, <1>5, <3>1 DEF Buffered
    <3> QED
      BY <3>2 DEF LSlice_ref_start
  <2>3. b = input[Len(got) + 1] /\ SourceDelivered' = Len(got) + 1
    BY <1>1, <1>3, <1>4, <1>6, <2>2
  <2> QED
    BY <2>1, <2>3, <1>6
<1>8. SourcePhase = "open"
  BY <1>1, <1>2, PhaseOf, IsSource DEF Inv, SourceInv, EndIsMetWhenEmpty
<1>9. SourcePhase' \in Source!PhaseAt(SourceDelivered', SourceFile)
  <2>1. SourcePhase' = IF stream_type = BUFFERSTREAM /\ LSlice_is_empty(buffer)'
                       THEN "ended" ELSE "open"
    <3>1. ~is_exhausted /\ ~optional_failure
      BY <1>1, IsSource DEF Inv, SourceInv, EndIsMetWhenEmpty
    <3> QED
      BY <1>1, <1>2, <3>1 DEF SourcePhase
  <2>2. stream_type = BUFFERSTREAM /\ LSlice_is_empty(buffer)' => Len(got') = Len(input)
    BY <1>4, <1>5, <1>1 DEF LSlice_is_empty, Inv, SourceInv
  <2> QED
    BY <2>1, <2>2, <1>6 DEF Source!PhaseAt
<1>10. Source!Deliver
  BY <1>2, <1>6, <1>7, <1>8, <1>9 DEF Source!Deliver, Source!Silent, Source!Byte_
<1> QED
  BY <1>10 DEF Source!Next

LEMMA GetcMapped == ASSUME Inv, Inv', IsSource, Getc PROVE Mapped
<1>1. CASE GetcRefill
  BY <1>1, QuietIsHidden DEF GetcRefill, Mapped
<1> QED
  BY <1>1, GetcAnswers, GetcDelivers DEF Getc, Mapped

\* The phases before and after a read that tells an end or a failure.
LEMMA ReadMapped == ASSUME Inv, Inv', IsSource, Read PROVE Mapped
<1>1. /\ pc = "read" /\ pc' = "getc" /\ OpenFile /\ ~is_exhausted /\ ~optional_failure
      /\ UNCHANGED <<direction, input, got, is_closed, stream_type>>
  BY DEF Read, ReadBytes, ReadEOF, ReadFails, Inv, IInv, Control, SourceInv
<1>2. /\ IsSource' /\ ~Unopened /\ ~Unopened' /\ SourceAnswer = <<>> /\ SourceAnswer' = <<>>
      /\ UNCHANGED <<SourceFile, SourceDelivered>>
  BY <1>1, NoAnswer, NoAnswerNext DEF IsSource, Unopened, SourceFile, SourceDelivered
<1>3. SourcePhase = "open"
  BY <1>1, <1>2, PhaseOf
<1>4. SourcePhase' = IF optional_failure' THEN "failed"
                     ELSE IF is_exhausted' THEN "ended" ELSE "open"
  BY <1>1, <1>2 DEF SourcePhase
<1>5. ASSUME NEW n \in 1 .. buffer.size, ReadBytes(n) PROVE Hidden
  BY <1>1, <1>2, <1>3, <1>4, <1>5 DEF ReadBytes, Hidden
<1>6. CASE ReadEOF
  <2>1. SourceDelivered = Len(SourceFile)
    <3>1. buffer.endpos - buffer.startpos = 0 /\ Len(got) \in Nat
      BY <1>1 DEF Inv, IInv, TypeOK, BufferSound, Buffer_assert, ReadInv, LSlice_is_empty
    <3>2. Len(got) + (buffer.endpos - buffer.startpos) = offset
      BY <1>1 DEF Inv, ReadInv, InOrder, IsSource
    <3> QED
      BY <3>1, <3>2, <1>6 DEF ReadEOF, SourceDelivered, SourceFile
  <2>2. SourcePhase' = "ended"
    BY <1>1, <1>4, <1>6 DEF ReadEOF
  <2>3. Source!MeetEnd
    BY <1>2, <1>3, <2>1, <2>2 DEF Source!MeetEnd
  <2> QED
    BY <2>3 DEF Mapped, Source!Next
<1>7. CASE ReadFails
  <2>1. SourcePhase' = "failed"
    BY <1>4, <1>7 DEF ReadFails
  <2>2. Source!Fail
    BY <1>2, <1>3, <2>1 DEF Source!Fail
  <2> QED
    BY <2>2 DEF Mapped, Source!Next
<1> QED
  BY <1>5, <1>6, <1>7 DEF Read, Mapped

LEMMA OutputMapped == ASSUME Inv, IsSource, Putc \/ Flush \/ Write PROVE Mapped
<1>1. "OUT" \notin direction
  BY DEF IsSource, STREAM_IN
<1>2. PutcRefused
  BY <1>1 DEF Putc, PutcByte, PutcNoSpace, PutcFlush, Flush, FlushNothing, FlushFile,
     Write, WriteAll, WritePart, WriteFails, Inv, ReadInv
<1>3. op = "putc"
  BY <1>2 DEF PutcRefused, Inv, IInv, Control
<1> QED
  BY <1>2, <1>3, QuietIsHidden DEF PutcRefused, Mapped

LEMMA CloseMapped ==
  ASSUME Inv, IsSource, Close \/ SysClose \/ SysCloseInterrupted PROVE Mapped
<1>1. op = "close" /\ UNCHANGED op
  BY DEF Close, CloseRefused, CloseBuffer, CloseFile, SysClose, SysCloseSucceeds,
     SysCloseFails, SysCloseInterrupted, Inv, IInv, Control, SourceInv
<1>2. CASE CloseRefused \/ CloseFile \/ SysCloseInterrupted
  BY <1>1, <1>2, QuietIsHidden DEF CloseRefused, CloseFile, SysCloseInterrupted, Mapped
<1>3. CASE CloseBuffer \/ SysCloseSucceeds \/ SysCloseFails
  <2>1. /\ pc \in {"close", "sysclose"} /\ ~is_closed /\ is_closed' /\ pc' = "ready"
        /\ UNCHANGED <<direction, input, got>>
    BY <1>3 DEF CloseBuffer, SysCloseSucceeds, SysCloseFails, Inv, IInv, Control
  <2>2. IsSource' /\ ~Unopened /\ ~Unopened'
    BY <2>1 DEF IsSource, Unopened
  <2>3. SourcePhase \notin {"unopened", "closed"} /\ SourcePhase' = "closed"
    BY <2>1, <2>2, PhaseOf DEF SourcePhase
  <2>4. Source!Close
    BY <1>1, <2>1, <2>2, <2>3, NoAnswer, NoAnswerNext
       DEF Source!Close, SourceFile, SourceDelivered
  <2> QED
    BY <2>4 DEF Mapped, Source!Next
<1> QED
  BY <1>2, <1>3 DEF Close, SysClose

LEMMA ClientMapped == ASSUME Inv, IsSource, Client PROVE Mapped
<1>1. CASE BufferedStream_release
  <2>1. /\ pc = "ready" /\ op = "close" /\ pc' \in {"released", "aborted"}
        /\ pc' = "released" => is_closed
        /\ UNCHANGED <<op, direction, input, got, is_closed, optional_failure,
                       is_exhausted, stream_type, buffer>>
    BY <1>1 DEF BufferedStream_release
  <2>2. IsSource' /\ ~Unopened /\ ~Unopened'
    BY <2>1 DEF IsSource, Unopened
  <2> QED
    BY <2>1, <2>2, NoAnswer, NoAnswerNext, PhaseStays
       DEF Mapped, Hidden, SourceFile, SourceDelivered
<1>2. ASSUME NEW o \in {"getc", "flush", "close", "putc"}, NEW c, Call(o, c)
      PROVE  Source!Call
  <2>1. /\ pc = "ready" /\ pc' \notin {"none", "released", "ready"}
        /\ UNCHANGED <<direction, input, got, is_closed, optional_failure,
                       is_exhausted, stream_type, buffer>>
    BY <1>2 DEF Call
  <2>2. IsSource' /\ ~Unopened /\ ~Unopened'
    BY <2>1 DEF IsSource, Unopened
  <2> QED
    BY <2>1, <2>2, NoAnswerNext, PhaseStays
       DEF Source!Call, Source!Silent, SourceFile, SourceDelivered
<1> QED
  BY <1>1, <1>2 DEF Client, Mapped, Source!Next

LEMMA FileGrowsMapped ==
  ASSUME Inv, IsSource, NEW b \in Byte, FileGrows(b) PROVE Mapped
<1>1. /\ pc \notin {"none", "released"} /\ input' = Append(input, b)
      /\ UNCHANGED <<pc, op, result, direction, got, is_closed, optional_failure,
                     is_exhausted, stream_type, buffer>>
  BY DEF FileGrows, Inv, ReleaseInv, FdClosed
<1>2. IsSource' /\ ~Unopened /\ ~Unopened'
  BY <1>1 DEF IsSource, Unopened
<1>3. SourcePhase # "unopened" /\ SourcePhase' = SourcePhase
  BY <1>1, <1>2, PhaseOf, PhaseStays
<1>4. SourceAnswer' = SourceAnswer
  BY <1>1, <1>2 DEF SourceAnswer, GetcAnswered
<1>5. Source!Grow
  BY <1>1, <1>2, <1>3, <1>4 DEF Source!Grow, SourceFile, SourceDelivered
<1> QED
  BY <1>5 DEF Mapped, Source!Next

\* Before and without a stream there is nothing to see.
LEMMA NothingBefore ==
  ASSUME Inv, pc = "none"
  PROVE  SourcePhase = "unopened" /\ SourceFile = <<>> /\ SourceDelivered = 0
         /\ SourceAnswer = <<>>
BY NoAnswer DEF Inv, ReadInv, Unopened, SourcePhase, SourceFile, SourceDelivered

LEMMA OpenMapped ==
  ASSUME Inv, Inv', pc = "none", pc' \in {"ready", "aborted"}, UNCHANGED <<op, got>>,
         direction' = STREAM_IN => pc' = "ready",
         UNCHANGED <<is_closed, is_exhausted, optional_failure>>
  PROVE  Mapped
<1>1. got = <<>> /\ op = "open" /\ ~is_closed /\ ~is_exhausted /\ ~optional_failure
  BY DEF Inv, IInv, Control, ReadInv, ReleaseInv, FdClosed, SourceInv
<1>2. SourceAnswer' = <<>> /\ SourceDelivered' = 0
  BY <1>1, NoAnswerNext DEF SourceDelivered
<1>3. CASE ~IsSource'
  <2>1. SourcePhase' = "unopened" /\ SourceFile' = <<>>
    BY <1>3 DEF SourcePhase, SourceFile, Unopened
  <2> QED
    BY <2>1, <1>2, NothingBefore DEF Mapped, Hidden
<1>4. CASE IsSource'
  <2>1. ~Unopened' /\ SourceFile' = input' /\ input' \in Seq(Byte)
    BY <1>4 DEF Unopened, IsSource, SourceFile, Inv, IInv, TypeOK
  <2>2. SourcePhase' = IF stream_type' = BUFFERSTREAM /\ LSlice_is_empty(buffer)'
                       THEN "ended" ELSE "open"
    BY <1>1, <2>1 DEF SourcePhase
  <2>3. stream_type' = BUFFERSTREAM /\ LSlice_is_empty(buffer)' => Len(input') = 0
    <3>1. Len(got') + (buffer'.endpos - buffer'.startpos) = offset'
      BY <1>1, <1>4 DEF Inv, ReadInv, InOrder, IsSource
    <3>2. /\ stream_type' = BUFFERSTREAM => offset' = Len(input')
          /\ buffer'.endpos \in Nat /\ buffer'.startpos \in Nat /\ got' = <<>>
          /\ buffer'.startpos <= buffer'.endpos
      BY <1>1 DEF Inv, IInv, TypeOK, BufferSound, Buffer_assert, SourceInv
    <3> QED
      BY <3>1, <3>2 DEF LSlice_is_empty
  <2>4. SourcePhase' \in Source!PhaseAt(0, SourceFile')
    BY <2>1, <2>2, <2>3 DEF Source!PhaseAt
  <2>5. Source!Open
    BY <1>2, <2>1, <2>4, NothingBefore DEF Source!Open
  <2> QED
    BY <2>5 DEF Mapped, Source!Next
<1> QED
  BY <1>3, <1>4

LEMMA ConstructorMapped == ASSUME Inv, Inv', Constructor PROVE Mapped
<1>1. ASSUME NEW dir, NEW nameOwned, FileStream(dir, nameOwned) PROVE Mapped
  BY <1>1, OpenMapped DEF FileStream
<1>2. ASSUME NEW dir, NEW array, NEW full, NEW dataOwned, NEW nameOwned,
             Buffer_to_BufferedStream(dir, array, full, dataOwned, nameOwned)
      PROVE  Mapped
  BY <1>2, OpenMapped DEF Buffer_to_BufferedStream, STREAM_IN
<1>3. ASSUME NEW dir, NEW nameOwned, open_BufferedStream(dir, nameOwned),
             ~FileStream(dir, nameOwned)
      PROVE  Mapped
  <2>1. /\ pc = "none" /\ pc' = "released" /\ ~is_closed'
        /\ UNCHANGED <<direction, input, got>>
    BY <1>3 DEF open_BufferedStream, Inv, IInv, Control
  <2>2. Unopened' /\ SourcePhase' = "unopened"
    BY <2>1 DEF Unopened, SourcePhase
  <2>3. SourceFile' = <<>> /\ SourceDelivered' = 0
    BY <2>1 DEF SourceFile, SourceDelivered, IsSource, Inv, ReadInv
  <2> QED
    BY <2>1, <2>2, <2>3, NothingBefore, NoAnswerNext DEF Mapped, Hidden
<1> QED
  BY <1>1, <1>2, <1>3 DEF Constructor, fd_BufferedStream, open_BufferedStream

\* Only a constructor sets the direction.
LEMMA DirectionStays ==
  ASSUME [Next]_vars, ~Constructor PROVE direction' = direction
BY DEF Next, Client, Call, BufferedStream_release, Progress, Getc, GetcRefused, GetcByte,
   GetcEnd, GetcFailed, GetcRefill, Read, ReadBytes, ReadEOF, ReadFails, Putc, PutcRefused,
   PutcByte, PutcNoSpace, PutcFlush, Flush, FlushNothing, FlushFile, Write, WriteAll,
   WritePart, WriteFails, Close, CloseRefused, CloseBuffer, CloseFile, SysClose,
   SysCloseSucceeds, SysCloseFails, SysCloseInterrupted, Interrupted, FileGrows, Finished

LEMMA EachStepIsMapped == Inv /\ Inv' /\ [Next]_vars => Mapped
<1> SUFFICES ASSUME Inv, Inv', [Next]_vars PROVE Mapped
  OBVIOUS
<1>1. CASE Constructor
  BY <1>1, ConstructorMapped
<1>2. CASE ~Constructor /\ ~IsSource
  BY <1>2, DirectionStays, OthersAreHidden DEF IsSource, Mapped
<1>3. CASE ~Constructor /\ IsSource
  <2>1. CASE Client
    BY <1>3, <2>1, ClientMapped
  <2>2. CASE Progress
    BY <1>3, <2>2, GetcMapped, ReadMapped, OutputMapped, CloseMapped DEF Progress
  <2>3. CASE SysCloseInterrupted
    BY <1>3, <2>3, CloseMapped
  <2>4. CASE \E b \in Byte : FileGrows(b)
    BY <1>3, <2>4, FileGrowsMapped
  <2>5. CASE Interrupted \/ Finished \/ UNCHANGED vars
    <3>1. UNCHANGED vars
      BY <2>5 DEF Interrupted, Finished
    <3> QED
      BY <3>1 DEF Mapped, Hidden, SourceFile, SourceDelivered, SourcePhase, SourceAnswer,
         IsSource, Unopened, GetcAnswered, LSlice_is_empty
  <2> QED
    BY <1>3, <2>1, <2>2, <2>3, <2>4, <2>5 DEF Next
<1> QED
  BY <1>1, <1>2, <1>3

\* To the caller of getc a stream opened for input is a ByteSource: the bytes
\* of a file that may grow, one by one and in their order, until an end, a
\* failure or a close that is final; refills, short reads, interrupts and the
\* recursion of getc (BufferedStream.h) do not show.
THEOREM StreamIsByteSource == Spec => ImplementsByteSource
<1>1. Init => Source!Init
  BY NoAnswer DEF Init, Source!Init, Source!Silent, SourceFile, SourceDelivered,
     SourcePhase, Unopened
<1>2. Inv /\ Inv' /\ [Next]_vars => [Source!Next]_(Source!vars)
  BY EachStepIsMapped DEF Mapped, Hidden, Source!vars
<1> QED
  BY <1>1, <1>2, SourceInvariance, PTL DEF Spec, ImplementsByteSource, Source!Spec
=============================================================================
