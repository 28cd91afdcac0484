---------------------------- MODULE ProgramProofs ----------------------------
(***************************************************************************)
(* Theorems about Program.  The first part is the book-keeping of main:    *)
(* where the stream is at each place, what is allocated and by whom, and   *)
(* how far a failure of the system has come on its way to the exit code.   *)
(* The second part takes the invariants of the stream, of the decoder and  *)
(* of report over to the program in which they run together, and the third *)
(* relates what was read, what was decoded and what was counted.           *)
(***************************************************************************)
EXTENDS Program, FiniteSetTheorems, SequenceTheorems, TLAPS

\* The places from which the stream is read, and those where it exists.
Reading == {"decode", "getc", "report", "close"}
Streaming == Reading \cup {"release"}

\* Which function of the stream may run.
PlaceOK ==
  /\ at \in Places \ {"aborted"}
  /\ at \in {"start", "test_case"} => pc = "none"
  /\ at \in {"decode", "report", "close"} => pc = "ready"
  /\ at = "getc" => pc \in {"getc", "read", "ready"} /\ op = "getc"
  /\ at = "release" => pc \in {"close", "sysclose", "ready"} /\ op = "close"
  /\ at \in {"open_failed", "monkey_release", "loop"} => pc = "released"
  /\ at \in {"verify", "exit"} => pc \in {"none", "released"}

LoopOK ==
  /\ testcases \in Nat
  /\ at \in {"start", "open_failed"} => ~InLoop
  /\ at \in {"test_case", "monkey_release", "loop"} => InLoop
  /\ InLoop => failures = 0 /\ ~fd_open
  /\ at \in Streaming => (InLoop <=> stream_type = "BUFFERSTREAM")
  /\ InLoop /\ at = "verify" => pc = "released"

StreamOK ==
  /\ at \in Streaming => direction = {"IN"}
  /\ at \in Reading \cup {"start", "test_case"} => ~is_closed
  /\ at = "release" => (is_closed <=> pc = "ready")
  /\ at = "release" /\ pc = "sysclose" => stream_type = "FILESTREAM"
  /\ owned \in {{}, {"data"}}
  /\ at \notin Streaming => owned = {} /\ ~fd_open
  /\ at = "release" /\ is_closed => ~fd_open

\* What there is to free is in the stream, in one of two results, or it is a
\* failure that another one has replaced.
Allocations ==
  /\ result.heap => /\ result.is_err
                    /\ \/ at = "open_failed"
                       \/ at \in {"getc", "release"} /\ pc = "ready"
  /\ c_heap => at = "report" /\ c.kind = "Err"
  /\ active_allocs =
       (IF owned = {} THEN 0 ELSE 1) + Stream!HeldBy(result) + (IF c_heap THEN 1 ELSE 0)
       + failures - (IF at \in Streaming THEN 0 ELSE Stream!StoredFailure)
       + (IF InLoop /\ at \in Streaming \cup {"test_case", "monkey_release"} THEN 1 ELSE 0)

\* A failing read comes back as the result of getc, then as that of the
\* decoder, then as the record; only close can fail after it.
FailureOnItsWay ==
  /\ failures \in Nat /\ (optional_failure <=> failures > 0)
  /\ pc = "none" => failures = 0
  /\ at \in {"start", "test_case", "open_failed", "decode"} => failures = 0
  /\ at \in Reading \/ (at = "release" /\ pc # "ready") => failures <= 1
  /\ at = "getc" =>
       /\ pc = "ready" => (optional_failure <=> result.is_err)
       /\ pc = "read" => ~optional_failure
       /\ pc = "read" \/ (pc = "getc" /\ optional_failure)
            => Stream!LSlice_is_empty(buffer) /\ ~Stream!AtEnd
  /\ at = "report" /\ optional_failure => c.kind = "Err"
  /\ at = "start" => ~result.is_err

\* What a run without AFL prints and returns.
Tells ==
  \/ /\ exit_code = 0 /\ printed.type # "none"
     /\ optional_failure => printed.type = "utf-8-failure" /\ failures = 1
  \/ exit_code = 1 /\ (printed.type = "none" \/ failures > 0)

RecordOK ==
  /\ at \in {"start", "open_failed"} => printed.type = "none"
  /\ at \in {"close", "release", "monkey_release", "loop"} => printed.type # "none"
  /\ optional_failure /\ (at = "close" \/ (at = "release" /\ pc # "ready")) =>
       printed.type = "utf-8-failure"
  /\ at = "release" /\ pc = "ready" =>
       IF result.is_err THEN failures > 0
       ELSE (optional_failure => printed.type = "utf-8-failure" /\ failures = 1)
  /\ at \in {"verify", "exit"} =>
       IF InLoop THEN printed.type # "none" /\ (at = "exit" => exit_code = 0) ELSE Tells

Books ==
  PlaceOK /\ LoopOK /\ StreamOK /\ Allocations /\ FailureOnItsWay /\ RecordOK

-----------------------------------------------------------------------------
(* The books are kept *)

USE DEF Reading, Streaming, mainVars, streamButResult, streamVars, decoderVars, reportVars,
        vars, InLoop, Stream!Ok, Stream!Err, Stream!HeldBy, Stream!StoredFailure,
        Stream!Return, Stream!StoreFailure, Stream!structVars, Stream!fileVars,
        Stream!osVars, Stream!historyVars, Stream!STREAM_IN, Stream!FILESTREAM,
        Stream!BUFFERSTREAM, Stream!FD_NONE

\* The stream counts what a set holds as this module does.
LEMMA StreamCardinality == \A S : Stream!Cardinality(S) = Cardinality(S)
BY Zenon DEF Stream!Cardinality, Cardinality

\* The stream's own part of a constructor.
LEMMA FileStreamBooks ==
  ASSUME Stream!FileStream(Stream!STREAM_IN, FALSE)
  PROVE  /\ pc = "none" /\ pc' = "ready" /\ direction' = {"IN"} /\ stream_type' = "FILESTREAM"
         /\ owned' = {"data"} /\ active_allocs' = active_allocs + 1 /\ fd_open'
         /\ UNCHANGED <<is_closed, is_exhausted, optional_failure, op, result, failures>>
<1>1. Stream!Name(FALSE) \cup {"data"} = {"data"} /\ Cardinality({"data"}) = 1
  BY FS_Singleton DEF Stream!Name
<1>2. /\ pc = "none" /\ pc' = "ready" /\ direction' = {"IN"} /\ stream_type' = "FILESTREAM"
      /\ fd_open' = TRUE
      /\ UNCHANGED <<is_closed, is_exhausted, optional_failure, op, result, failures>>
  BY DEF Stream!FileStream
<1>3. owned' = {"data"} /\ active_allocs' = active_allocs + 1
  <2>1. PICK parts : parts = Stream!Name(FALSE) \cup {"data"}
    OBVIOUS
  <2>2. parts = {"data"} /\ Cardinality(parts) = 1
    BY <1>1, <2>1
  <2>3. Stream!HandOver(parts)
    BY <2>1 DEF Stream!FileStream
  <2>4. owned' = parts /\ active_allocs' = active_allocs + Cardinality(parts)
    BY <2>3, StreamCardinality DEF Stream!HandOver
  <2> QED
    BY <2>2, <2>4
<1> QED
  BY <1>2, <1>3

LEMMA BufferStreamBooks ==
  ASSUME NEW array, Stream!Buffer_to_BufferedStream(Stream!STREAM_IN, array, TRUE, FALSE, FALSE)
  PROVE  /\ pc = "none" /\ pc' = "ready" /\ direction' = {"IN"}
         /\ stream_type' = "BUFFERSTREAM" /\ owned' = {} /\ active_allocs' = active_allocs + 0
         /\ UNCHANGED <<is_closed, is_exhausted, optional_failure, fd_open, op, result,
                        failures>>
<1>1. Stream!Name(FALSE) \cup {} = {} /\ Cardinality({}) = 0
  BY FS_EmptySet DEF Stream!Name
<1>2. /\ pc = "none" /\ pc' = "ready" /\ direction' = {"IN"} /\ stream_type' = "BUFFERSTREAM"
      /\ UNCHANGED <<is_closed, is_exhausted, optional_failure, fd_open, op, result, failures>>
  BY DEF Stream!Buffer_to_BufferedStream
<1>3. owned' = {} /\ active_allocs' = active_allocs + 0
  <2>1. PICK parts : parts = Stream!Name(FALSE) \cup {}
    OBVIOUS
  <2>2. parts = {} /\ Cardinality(parts) = 0
    BY <1>1, <2>1
  <2>3. Stream!HandOver(parts)
    BY <2>1 DEF Stream!Buffer_to_BufferedStream
  <2>4. owned' = parts /\ active_allocs' = active_allocs + Cardinality(parts)
    BY <2>3, StreamCardinality DEF Stream!HandOver
  <2> QED
    BY <2>2, <2>4
<1> QED
  BY <1>2, <1>3

LEMMA Held ==
  /\ Stream!Cardinality({} \cap {"data"}) = 0
  /\ Stream!Cardinality({"data"} \cap {"data"}) = 1
BY StreamCardinality, {} \cap {"data"} = {}, {"data"} \cap {"data"} = {"data"}, FS_EmptySet,
   FS_Singleton

LEMMA InitBooks == Init => Books
BY DEF Init, Stream!Init, Reporter!Init, Books, PlaceOK, LoopOK, StreamOK, Allocations,
   FailureOnItsWay, RecordOK, Places, Tells

LEMMA ReadStdinBooks == ASSUME Books, ReadStdin PROVE Books'
BY FileStreamBooks DEF ReadStdin, Stream!fd_BufferedStream, Books, PlaceOK, LoopOK, StreamOK,
   Allocations, FailureOnItsWay, RecordOK, Places, Tells

LEMMA ReadFileBooks == ASSUME Books, ReadFile PROVE Books'
<1> USE DEF Books, PlaceOK, LoopOK, StreamOK, Allocations, FailureOnItsWay, RecordOK, Places, Tells
<1>1. CASE Stream!FileStream(Stream!STREAM_IN, FALSE)
  BY <1>1, FileStreamBooks DEF ReadFile
<1>2. CASE /\ pc = "none" /\ pc' = "released" /\ result' = Stream!Err(TRUE)
           /\ active_allocs' = active_allocs + Stream!HeldBy(result')
           /\ UNCHANGED <<buffer, is_closed, Stream!structVars, Stream!fileVars,
                          Stream!osVars, op, arg, Stream!historyVars>>
  BY <1>2 DEF ReadFile
<1>3. Stream!open_BufferedStream(Stream!STREAM_IN, FALSE)
  BY Zenon DEF ReadFile
<1> QED
  BY <1>1, <1>2, <1>3, Zenon DEF Stream!open_BufferedStream

LEMMA ReadTestcaseBooks == ASSUME Books, ReadTestcase PROVE Books'
<1>1. PICK array : Stream!Buffer_to_BufferedStream(Stream!STREAM_IN, array, TRUE, FALSE, FALSE)
  BY DEF ReadTestcase
<1>2. /\ at = "test_case" /\ at' = "decode"
      /\ UNCHANGED <<decoderVars, reportVars, c_heap, exit_code, testcases>>
  BY DEF ReadTestcase
<1>3. /\ pc = "none" /\ pc' = "ready" /\ direction' = {"IN"}
      /\ stream_type' = "BUFFERSTREAM" /\ owned' = {} /\ active_allocs' = active_allocs + 0
      /\ UNCHANGED <<is_closed, is_exhausted, optional_failure, fd_open, op, result, failures>>
  BY <1>1, BufferStreamBooks
<1> QED
  BY <1>2, <1>3 DEF Books, PlaceOK, LoopOK, StreamOK, Allocations, FailureOnItsWay, RecordOK,
     Places, Tells

LEMMA OpenFailedBooks == ASSUME Books, OpenFailed PROVE Books'
BY DEF OpenFailed, Books, PlaceOK, LoopOK, StreamOK, Allocations, FailureOnItsWay, RecordOK,
   Places, Tells

LEMMA UsageBooks == ASSUME Books, Usage PROVE Books'
BY DEF Usage, Books, PlaceOK, LoopOK, StreamOK, Allocations, FailureOnItsWay, RecordOK, Places,
   Tells

LEMMA monkey_initBooks == ASSUME Books, monkey_init PROVE Books'
BY DEF monkey_init, NewLocals, Books, PlaceOK, LoopOK, StreamOK, Allocations, FailureOnItsWay,
   RecordOK, Places, Tells

LEMMA monkey_releaseBooks == ASSUME Books, monkey_release PROVE Books'
BY DEF monkey_release, Books, PlaceOK, LoopOK, StreamOK, Allocations, FailureOnItsWay, RecordOK,
   Places, Tells

LEMMA LoopEndsBooks == ASSUME Books, LoopEnds PROVE Books'
BY DEF LoopEnds, Books, PlaceOK, LoopOK, StreamOK, Allocations, FailureOnItsWay, RecordOK,
   Places, Tells

LEMMA CallGetcBooks == ASSUME Books, CallGetc PROVE Books'
BY DEF CallGetc, Stream!Call, Books, PlaceOK, LoopOK, StreamOK, Allocations, FailureOnItsWay,
   RecordOK, Places, Tells

LEMMA TakeErrBooks == ASSUME Books, TakeErr PROVE Books'
BY DEF TakeErr, GetcReturned, Decoder!StreamFails, Decoder!Err, Books, PlaceOK, LoopOK,
   StreamOK, Allocations, FailureOnItsWay, RecordOK, Places, Tells

LEMMA CountCharBooks == ASSUME Books, CountChar PROVE Books'
BY DEF CountChar, Reporter!CarriageReturn, Reporter!LineFeed, Reporter!OtherChar, Reporter!Read,
   Books, PlaceOK, LoopOK, StreamOK, Allocations, FailureOnItsWay, RecordOK, Places, Tells

LEMMA ReportCountsBooks == ASSUME Books, ReportCounts PROVE Books'
BY DEF ReportCounts, Reporter!EndOfText, Books, PlaceOK, LoopOK, StreamOK, Allocations,
   FailureOnItsWay, RecordOK, Places, Tells

LEMMA ReportFailureBooks == ASSUME Books, ReportFailure PROVE Books'
BY DEF ReportFailure, Reporter!Failure, Books, PlaceOK, LoopOK, StreamOK, Allocations,
   FailureOnItsWay, RecordOK, Places, Tells

LEMMA CallCloseBooks == ASSUME Books, CallClose PROVE Books'
BY DEF CallClose, Stream!Call, Books, PlaceOK, LoopOK, StreamOK, Allocations, FailureOnItsWay,
   RecordOK, Places, Tells

LEMMA TakeByteBooks == ASSUME Books, TakeByte \/ TakeEnd PROVE Books'
<1>1. /\ at = "getc" /\ pc = "ready" /\ ~result.is_err /\ at' \in {"decode", "report"}
      /\ at' = "report" => Copies
      /\ at' = "decode" => UNCHANGED <<c_heap, active_allocs>>
      /\ UNCHANGED <<streamButResult, result, reportVars, exit_code, testcases>>
  BY DEF TakeByte, TakeEnd, GetcReturned
<1>2. Copies => /\ c_heap' => c'.kind = "Err"
                /\ active_allocs' = active_allocs + (IF c_heap' THEN 1 ELSE 0)
  BY Zenon DEF Copies
<1>3. ~optional_failure /\ ~result.heap /\ ~c_heap
  BY <1>1 DEF Books, FailureOnItsWay, Allocations
<1> QED
  BY <1>1, <1>2, <1>3 DEF Books, PlaceOK, LoopOK, StreamOK, Allocations, FailureOnItsWay,
     RecordOK, Places, Tells

\* The stream is closed and its failure, if there is one, gone with it.
LEMMA ReleaseBooks == ASSUME Books, Release PROVE Books'
<1> USE DEF Books, PlaceOK, LoopOK, StreamOK, Allocations, FailureOnItsWay, RecordOK
<1>1. at = "release" /\ pc = "ready" /\ is_closed
  BY DEF Release
<1>2. /\ pc' = "released" /\ result' = Stream!Ok(None) /\ owned' = owned \ {"data"}
      /\ active_allocs' = active_allocs - Stream!HeldBy(result)
                          - Stream!Cardinality(owned \cap {"data"}) - Stream!StoredFailure
      /\ UNCHANGED <<buffer, is_closed, direction, stream_type, optional_fd, is_exhausted,
                     optional_failure, fd_open, op, failures>>
  BY <1>1 DEF Release, Stream!BufferedStream_release
<1>3. owned' = {} /\ Stream!Cardinality(owned \cap {"data"}) = (IF owned = {} THEN 0 ELSE 1)
  BY <1>2, Held
<1>4. /\ exit_code' = (IF result.is_err /\ ~InLoop THEN 1 ELSE 0)
      /\ at' = (IF InLoop THEN "monkey_release" ELSE "verify")
      /\ UNCHANGED <<decoderVars, reportVars, c_heap, testcases>>
  BY <1>2 DEF Release, ExitCodeOfClose
<1>5. Allocations'
  BY <1>1, <1>2, <1>3, <1>4
<1> QED
  BY <1>1, <1>2, <1>3, <1>4, <1>5 DEF Places, Tells

\* The leak check of a run for AFL finds nothing.
LEMMA VerifyBooks == ASSUME Books, leakcheck_verify PROVE Books'
<1> USE DEF Books, PlaceOK, LoopOK, StreamOK, Allocations, FailureOnItsWay, RecordOK
<1>1. InLoop => active_allocs = 0
  BY DEF leakcheck_verify
<1> QED
  BY <1>1 DEF leakcheck_verify, Places, Tells

\* The functions of the stream that main does not use do not run.
LEMMA GetcBooks == ASSUME Books, Stream!Getc, UNCHANGED <<decoderVars, reportVars, mainVars>>
                   PROVE  Books'
<1> USE DEF Books, PlaceOK, LoopOK, StreamOK, Allocations, FailureOnItsWay, RecordOK
<1>1. CASE Stream!GetcRefused
  BY <1>1 DEF Stream!GetcRefused
<1>2. CASE Stream!GetcByte
  BY <1>2 DEF Stream!GetcByte, Stream!Getting, Tells
<1>3. CASE Stream!GetcEnd
  BY <1>3 DEF Stream!GetcEnd, Stream!Getting, Stream!AtEnd, Tells
<1>4. CASE Stream!GetcFailed
  <2>1. /\ pc = "getc" /\ pc' = "ready" /\ result' = Stream!Err(TRUE) /\ optional_failure
        /\ active_allocs' = active_allocs + 1
        /\ UNCHANGED <<buffer, is_closed, direction, stream_type, owned, is_exhausted,
                       optional_failure, fd_open, op, failures>>
    BY <1>4 DEF Stream!GetcFailed, Stream!Getting
  <2>2. at = "getc" /\ ~result.heap /\ ~c_heap
    BY <2>1 DEF Places
  <2>3. Allocations'
    BY <2>1, <2>2
  <2> QED
    BY <2>1, <2>2, <2>3
<1>5. CASE Stream!GetcRefill
  BY <1>5 DEF Stream!GetcRefill, Stream!Getting, Stream!AtEnd, Tells
<1> QED
  BY <1>1, <1>2, <1>3, <1>4, <1>5, Zenon DEF Stream!Getc

LEMMA ReadBooks == ASSUME Books, Stream!Read, UNCHANGED <<decoderVars, reportVars, mainVars>>
                   PROVE  Books'
<1> USE DEF Books, PlaceOK, LoopOK, StreamOK, Allocations, FailureOnItsWay, RecordOK
<1>1. ASSUME NEW n \in 1 .. buffer.size, Stream!ReadBytes(n) PROVE Books'
  BY <1>1 DEF Stream!ReadBytes, Tells
<1>2. CASE Stream!ReadEOF
  BY <1>2 DEF Stream!ReadEOF, Tells
<1>3. CASE Stream!ReadFails
  <2>1. /\ pc = "read" /\ pc' = "getc" /\ optional_failure' /\ failures' = failures + 1
        /\ active_allocs' = active_allocs + 1
        /\ UNCHANGED <<buffer, is_closed, direction, stream_type, owned, is_exhausted, fd_open,
                       op, result>>
    BY <1>3 DEF Stream!ReadFails
  <2>2. at = "getc" /\ ~result.heap /\ ~c_heap /\ failures = 0 /\ ~optional_failure
    BY <2>1 DEF Places
  <2>3. Allocations'
    BY <2>1, <2>2
  <2>4. FailureOnItsWay'
    BY <2>1, <2>2 DEF Stream!AtEnd, Stream!LSlice_is_empty
  <2> QED
    BY <2>1, <2>2, <2>3, <2>4 DEF Stream!AtEnd, Stream!LSlice_is_empty
<1> QED
  BY <1>1, <1>2, <1>3, Zenon DEF Stream!Read

LEMMA CloseBooks == ASSUME Books, Stream!Close, UNCHANGED <<decoderVars, reportVars, mainVars>>
                    PROVE  Books'
<1> USE DEF Books, PlaceOK, LoopOK, StreamOK, Allocations, FailureOnItsWay, RecordOK
<1>1. CASE Stream!CloseRefused
  BY <1>1 DEF Stream!CloseRefused
<1>2. CASE Stream!CloseBuffer
  BY <1>2 DEF Stream!CloseBuffer, Stream!Closed, Tells
<1>3. CASE Stream!CloseFile
  BY <1>3 DEF Stream!CloseFile, Tells
<1> QED
  BY <1>1, <1>2, <1>3, Zenon DEF Stream!Close

LEMMA SysCloseBooks ==
  ASSUME Books, Stream!SysClose, UNCHANGED <<decoderVars, reportVars, mainVars>>
  PROVE  Books'
<1> USE DEF Books, PlaceOK, LoopOK, StreamOK, Allocations, FailureOnItsWay, RecordOK
<1>1. CASE Stream!SysCloseSucceeds
  BY <1>1 DEF Stream!SysCloseSucceeds, Stream!Closed, Tells
<1>2. CASE Stream!SysCloseFails
  <2>1. /\ pc = "sysclose" /\ pc' = "ready" /\ optional_failure' /\ failures' = failures + 1
        /\ active_allocs' = active_allocs + 2 /\ result' = Stream!Err(TRUE)
        /\ is_closed' = TRUE /\ fd_open' = FALSE
        /\ UNCHANGED <<direction, stream_type, owned, is_exhausted, op>>
    BY <1>2 DEF Stream!SysCloseFails, Stream!Closed
  <2>2. at = "release" /\ ~result.heap /\ ~c_heap
    BY <2>1 DEF Places
  <2>3. Allocations'
    BY <2>1, <2>2
  <2> QED
    BY <2>1, <2>2, <2>3
<1> QED
  BY <1>1, <1>2, Zenon DEF Stream!SysClose

\* No byte is put, and what is not put is not flushed.
LEMMA NothingIsPut == ASSUME Books PROVE ~Stream!Putc /\ ~Stream!Flush /\ ~Stream!Write
<1>1. pc \notin {"putc", "flush", "write"}
  BY DEF Books, PlaceOK, Places
<1> QED
  BY <1>1 DEF Stream!Putc, Stream!PutcRefused, Stream!PutcByte, Stream!PutcNoSpace,
     Stream!PutcFlush,
     Stream!Putting, Stream!Flush, Stream!FlushNothing, Stream!FlushFile, Stream!Write,
     Stream!WriteAll, Stream!WritePart, Stream!WriteFails

LEMMA EnvironmentBooks == ASSUME Books, Environment PROVE Books'
<1> USE DEF Books, PlaceOK, LoopOK, StreamOK, Allocations, FailureOnItsWay, RecordOK
<1>1. CASE Stream!SysCloseInterrupted
  BY <1>1 DEF Environment, Stream!SysCloseInterrupted, Stream!AtEnd, Tells
<1>2. ASSUME NEW b \in Byte, Stream!FileGrows(b) PROVE Books'
  BY <1>2 DEF Environment, Stream!FileGrows, Stream!AtEnd, Tells
<1> QED
  BY <1>1, <1>2, Zenon DEF Environment

LEMMA StutterBooks == ASSUME Books, UNCHANGED vars PROVE Books'
BY DEF Books, PlaceOK, LoopOK, StreamOK, Allocations, FailureOnItsWay, RecordOK, Tells,
   Stream!AtEnd

LEMMA NextBooks == ASSUME Books, [Next]_vars PROVE Books'
<1>1. CASE Main
  BY <1>1, ReadStdinBooks, ReadFileBooks, OpenFailedBooks, UsageBooks, monkey_initBooks,
     ReadTestcaseBooks, monkey_releaseBooks, LoopEndsBooks, CallGetcBooks, TakeByteBooks,
     TakeErrBooks, CountCharBooks, ReportCountsBooks, ReportFailureBooks, CallCloseBooks,
     ReleaseBooks, VerifyBooks, Zenon DEF Main
<1>2. CASE StreamProgress
  BY <1>2, GetcBooks, ReadBooks, CloseBooks, SysCloseBooks, NothingIsPut, Zenon
  DEF StreamProgress, Stream!Progress
<1>3. CASE Exited \/ UNCHANGED vars
  BY <1>3, StutterBooks, Zenon DEF Exited
<1> QED
  BY <1>1, <1>2, <1>3, EnvironmentBooks, Zenon DEF Next

LEMMA BooksAreKept == Spec => []Books
<1>1. Books /\ [Next]_vars => Books'
  BY NextBooks
<1> QED
  BY InitBooks, <1>1, PTL DEF Spec

\* main exits with 0 only if it printed a record in which the one failure of
\* the system it met is reported, and with 1 only if open, read or close failed
\* or it was called with the wrong arguments.
THEOREM ExitCodeTells == Spec => []ExitCodeTellsFailure
<1>1. Books => ExitCodeTellsFailure
  BY DEF Books, PlaceOK, LoopOK, FailureOnItsWay, RecordOK, Tells, ExitCodeTellsFailure
<1> QED
  BY BooksAreKept, <1>1, PTL

\* However main ends, the file is closed; nothing was aborted, neither by the
\* release of an open stream nor by the leak check; and with at most one
\* failure of the system every allocation has been freed.
THEOREM CleanExit == Spec => []ExitIsClean
<1>1. Books => ExitIsClean
  BY DEF Books, PlaceOK, StreamOK, LoopOK, Allocations, FailureOnItsWay, ExitIsClean
<1> QED
  BY BooksAreKept, <1>1, PTL

-----------------------------------------------------------------------------
(* The parts keep their invariants.  The modules of the proofs about the    *)
(* parts are instantiated as Program instantiates the parts; the two        *)
(* instances of a definition are the same.                                  *)

SP == INSTANCE BufferedStreamProofs
        WITH Directions <- {{"IN"}}, StreamTypes <- {"BUFFERSTREAM", "FILESTREAM"},
             NameOwned <- {FALSE},
             MaxInput <- [dir \in {{"IN"}} |-> MaxInput],
             MaxPut <- [dir \in {{"IN"}} |-> 0]

DP == INSTANCE UnicodeProofs WITH result <- c, bytes <- sequence

RP == INSTANCE ReportProofs
        WITH CR <- 13, LF <- 10, MaxText <- MaxInput

\* What the proofs about the stream assume.
LEMMA StreamAssumptions ==
  /\ BufferSize \in Nat \ {0}
  /\ Byte # {} /\ Uninit \notin Byte /\ None \notin Byte
  /\ {{"IN"}} \subseteq {SP!STREAM_IN, SP!STREAM_OUT, SP!STREAM_INOUT}
  /\ {"BUFFERSTREAM", "FILESTREAM"} \subseteq {SP!BUFFERSTREAM, SP!FILESTREAM}
  /\ {FALSE} \subseteq BOOLEAN /\ EintrCloses \subseteq BOOLEAN
  /\ [dir \in {{"IN"}} |-> MaxInput] \in [{{"IN"}} -> Nat]
  /\ [dir \in {{"IN"}} |-> 0] \in [{{"IN"}} -> Nat] /\ MaxFailures \in Nat
BY BufferSizeAssumption, ByteAssumption, ChoiceAssumption, BoundAssumption
   DEF SP!STREAM_IN, SP!STREAM_OUT, SP!STREAM_INOUT, SP!BUFFERSTREAM, SP!FILESTREAM

LEMMA SameStream == Stream!Next => SP!Next
BY Zenon
DEF Stream!LSlice_is_empty, SP!LSlice_is_empty, Stream!LSlice_length, SP!LSlice_length,
    Stream!Buffer_assert, SP!Buffer_assert, Stream!Buffer_from_array,
    SP!Buffer_from_array, Stream!Buffer_from_buf, SP!Buffer_from_buf,
    Stream!LSlice_ref_start, SP!LSlice_ref_start, Stream!Buffer_getc, SP!Buffer_getc,
    Stream!Buffer_has_room, SP!Buffer_has_room, Stream!Buffer_putc, SP!Buffer_putc,
    Stream!Buffer_clear, SP!Buffer_clear, Stream!Content, SP!Content,
    Stream!BUFFERSTREAM, SP!BUFFERSTREAM, Stream!FILESTREAM, SP!FILESTREAM,
    Stream!FD_NONE, SP!FD_NONE, Stream!STREAM_IN, SP!STREAM_IN, Stream!STREAM_OUT,
    SP!STREAM_OUT, Stream!STREAM_INOUT, SP!STREAM_INOUT, Stream!structVars,
    SP!structVars, Stream!fileVars, SP!fileVars, Stream!osVars, SP!osVars,
    Stream!historyVars, SP!historyVars, Stream!Ok, SP!Ok, Stream!Err, SP!Err,
    Stream!HeldBy, SP!HeldBy, Stream!Return, SP!Return, Stream!FlushReturns,
    SP!FlushReturns, Stream!StoredFailure, SP!StoredFailure, Stream!HandOver,
    SP!HandOver, Stream!Name, SP!Name, Stream!Buffer_to_BufferedStream,
    SP!Buffer_to_BufferedStream, Stream!FileStream, SP!FileStream,
    Stream!fd_BufferedStream, SP!fd_BufferedStream, Stream!open_BufferedStream,
    SP!open_BufferedStream, Stream!Call, SP!Call, Stream!BufferedStream_release,
    SP!BufferedStream_release, Stream!GetcRefused, SP!GetcRefused, Stream!Getting,
    SP!Getting, Stream!GetcByte, SP!GetcByte, Stream!AtEnd, SP!AtEnd, Stream!GetcEnd,
    SP!GetcEnd, Stream!GetcFailed, SP!GetcFailed, Stream!GetcRefill, SP!GetcRefill,
    Stream!StoreFailure, SP!StoreFailure, Stream!Refilled, SP!Refilled,
    Stream!ReadBytes, SP!ReadBytes, Stream!ReadEOF, SP!ReadEOF, Stream!ReadFails,
    SP!ReadFails, Stream!Interrupted, SP!Interrupted, Stream!PutcRefused,
    SP!PutcRefused, Stream!Putting, SP!Putting, Stream!PutcByte, SP!PutcByte,
    Stream!PutcNoSpace, SP!PutcNoSpace, Stream!PutcFlush, SP!PutcFlush,
    Stream!FlushNothing, SP!FlushNothing, Stream!FlushFile, SP!FlushFile,
    Stream!WriteAll, SP!WriteAll, Stream!Written, SP!Written, Stream!WritePart,
    SP!WritePart, Stream!WriteFails, SP!WriteFails, Stream!CloseRefused,
    SP!CloseRefused, Stream!Closed, SP!Closed, Stream!CloseBuffer, SP!CloseBuffer,
    Stream!CloseFile, SP!CloseFile, Stream!SysCloseSucceeds, SP!SysCloseSucceeds,
    Stream!SysCloseFails, SP!SysCloseFails, Stream!SysCloseInterrupted,
    SP!SysCloseInterrupted, Stream!FileGrows, SP!FileGrows, Stream!Finished,
    SP!Finished, Stream!Constructor, SP!Constructor, Stream!Client, SP!Client,
    Stream!Getc, SP!Getc, Stream!Read, SP!Read, Stream!Putc, SP!Putc, Stream!Flush,
    SP!Flush, Stream!Write, SP!Write, Stream!Close, SP!Close, Stream!SysClose,
    SP!SysClose, Stream!Progress, SP!Progress, Stream!Next, SP!Next, Stream!vars,
    SP!vars, Stream!Cardinality, SP!Cardinality

LEMMA SameStreamTypes == SP!TypeOK => Stream!TypeOK
BY DEF SP!TypeOK, Stream!TypeOK, SP!STREAM_INOUT, SP!STREAM_IN, SP!STREAM_OUT,
   SP!BUFFERSTREAM, SP!FILESTREAM, SP!FD_NONE, SP!Functions, Stream!STREAM_INOUT,
   Stream!STREAM_OUT, Stream!Functions

LEMMA SPCardinality == \A S : SP!Cardinality(S) = Cardinality(S)
BY Zenon DEF SP!Cardinality, Cardinality

StreamInv == SP!IInv /\ SP!ReadInv

LEMMA InitStreamInv == Init => StreamInv
<1>1. Init => SP!Init
  BY Zenon
  DEF Init, Stream!Init, SP!Init, Stream!Buffer_from_buf, SP!Buffer_from_buf, Stream!FILESTREAM,
      SP!FILESTREAM, Stream!FD_NONE, SP!FD_NONE, Stream!Ok, SP!Ok
<1>2. SP!Init => SP!ReadInv
  BY DEF SP!Init, SP!ReadInv, SP!STREAM_IN
<1> QED
  BY <1>1, <1>2, StreamAssumptions, SP!InitIInv, Zenon DEF StreamInv

LEMMA StreamSteps == ASSUME StreamInv, Stream!Next PROVE StreamInv'
<1>1. SP!Next
  BY SameStream
<1>2. SP!IInv'
  BY <1>1, StreamAssumptions, SP!NextIInv, Zenon DEF StreamInv
<1>3. SP!ReadInv'
  BY <1>1, StreamAssumptions, SP!NextReadInv, Zenon DEF StreamInv
<1> QED
  BY <1>2, <1>3 DEF StreamInv

\* What main does to the result it holds and to the count of the allocations.
OwnStep == UNCHANGED streamButResult /\ result' \in {result, Stream!Ok(None)}

\* The books balance: what is freed was allocated.
LEMMA AllocsAreCounted == Books => active_allocs \in Nat /\ SP!Accounting
<1> SUFFICES ASSUME Books PROVE active_allocs \in Nat /\ SP!Accounting
  OBVIOUS
<1>1. SP!Cardinality(owned) = IF owned = {} THEN 0 ELSE 1
  BY SPCardinality, FS_EmptySet, FS_Singleton DEF Books, StreamOK
<1>2. /\ owned \in {{}, {"data"}} /\ failures \in Nat /\ (optional_failure <=> failures > 0)
  BY DEF Books, StreamOK, FailureOnItsWay
<1>3. active_allocs \in Nat
  BY <1>2 DEF Books, Allocations
<1>4. ASSUME pc # "released"
      PROVE  active_allocs >= Stream!HeldBy(result) + Stream!StoredFailure
                              + (IF owned = {} THEN 0 ELSE 1)
  BY <1>2, <1>4 DEF Books, Allocations, PlaceOK, LoopOK, Places, RecordOK, FailureOnItsWay, Tells
<1> QED
  BY <1>1, <1>3, <1>4 DEF SP!Accounting, SP!HeldBy, SP!StoredFailure

LEMMA OwnSteps == ASSUME StreamInv, OwnStep, Books' PROVE StreamInv'
<1>1. active_allocs' \in Nat /\ SP!Accounting'
  <2>1. Books' => (active_allocs \in Nat /\ SP!Accounting)'
    BY AllocsAreCounted, PTL
  <2> QED
    BY <2>1
<1>2. result' \in [is_err : BOOLEAN, value : Byte \cup {None}, heap : BOOLEAN]
      /\ (result'.heap => result.heap)
  <2>1. result \in [is_err : BOOLEAN, value : Byte \cup {None}, heap : BOOLEAN]
    BY DEF StreamInv, SP!IInv, SP!TypeOK
  <2>2. Stream!Ok(None) \in [is_err : BOOLEAN, value : Byte \cup {None}, heap : BOOLEAN]
        /\ ~Stream!Ok(None).heap
    OBVIOUS
  <2> QED
    BY <2>1, <2>2, Zenon DEF OwnStep
<1> USE DEF OwnStep, StreamInv, SP!IInv
<1>3. SP!TypeOK'
  BY <1>1, <1>2, Zenon DEF SP!TypeOK
<1>4. SP!BufferSound' /\ SP!Control'
  BY <1>2 DEF SP!BufferSound, SP!Buffer_assert, SP!Control, SP!Functions, SP!OpenFile,
    SP!FILESTREAM
<1>5. SP!ReadInv'
  BY DEF SP!ReadInv, SP!InOrder, SP!Buffered, SP!LSlice_is_empty
<1> QED
  BY <1>1, <1>3, <1>4, <1>5

\* What a step of the program is for the stream.
LEMMA StepsOfStream == ASSUME Next PROVE Stream!Next \/ OwnStep \/ monkey_init
<1>1. ReadStdin \/ ReadFile \/ ReadTestcase => Stream!Constructor
  BY BoundAssumption
  DEF ReadStdin, ReadFile, ReadTestcase, Stream!Constructor
<1>2. CallGetc \/ CallClose \/ Release => Stream!Client
  BY Zenon DEF CallGetc, CallClose, Release, Stream!Client
<1>3. StreamProgress => Stream!Progress
  BY Zenon DEF StreamProgress
<1>4. Environment => Stream!SysCloseInterrupted \/ \E b \in Byte : Stream!FileGrows(b)
  BY Zenon DEF Environment
<1>5. OpenFailed \/ Usage \/ monkey_release \/ LoopEnds \/ TakeEnd \/ TakeErr \/ CountChar
        \/ ReportCounts \/ ReportFailure \/ leakcheck_verify \/ Exited => OwnStep
  BY DEF OpenFailed, Usage, monkey_release, LoopEnds, TakeEnd, TakeErr, CountChar,
     ReportCounts, ReportFailure, leakcheck_verify, Exited, OwnStep
<1>6. TakeByte => OwnStep
  BY DEF TakeByte, OwnStep
<1> QED
  BY <1>1, <1>2, <1>3, <1>4, <1>5, <1>6, Zenon DEF Next, Main, Stream!Next

LEMMA NewStream == ASSUME StreamInv, Books, Books', monkey_init PROVE StreamInv'
<1>1. active_allocs' \in Nat /\ SP!Accounting'
  <2>1. Books' => (active_allocs \in Nat /\ SP!Accounting)'
    BY AllocsAreCounted, PTL
  <2> QED
    BY <2>1
<1>2. pc' = "none" /\ ~result.heap /\ ~optional_failure /\ owned = {} /\ ~fd_open
  BY DEF monkey_init, NewLocals, Books, PlaceOK, LoopOK, StreamOK, Allocations, FailureOnItsWay
<1>3. /\ buffer' = SP!Buffer_from_buf([k \in {} |-> Uninit], 0)
      /\ is_closed' = FALSE /\ direction' = {} /\ stream_type' = "FILESTREAM"
      /\ op' = "open" /\ input' = <<>> /\ offset' = 0 /\ got' = <<>>
      /\ UNCHANGED <<optional_fd, is_exhausted, optional_failure, owned, output, fd_open, arg,
                     result, accepted, failures>>
  BY DEF monkey_init, NewLocals, Stream!Buffer_from_buf, SP!Buffer_from_buf
<1> USE DEF StreamInv, SP!IInv
<1>4. SP!TypeOK'
  <2>1. buffer' \in [startpos : Nat, endpos : Nat, size : Nat,
                     data : [0 .. buffer'.size - 1 -> Byte \cup {Uninit}]]
    <3>1. 0 .. 0 - 1 = {}
      OBVIOUS
    <3> QED
      BY <1>3, <3>1 DEF SP!Buffer_from_buf
  <2>2. input' \in Seq(Byte) /\ offset' \in 0 .. Len(input') /\ got' \in Seq(Byte)
    BY <1>3
  <2>3. /\ direction' \in SUBSET SP!STREAM_INOUT /\ is_closed' \in BOOLEAN
        /\ stream_type' \in {SP!BUFFERSTREAM, SP!FILESTREAM}
        /\ op' \in {"open", "getc", "putc", "flush", "close"}
        /\ pc' \in SP!Functions \cup {"none", "ready", "released", "aborted"}
    BY <1>2, <1>3, Zenon DEF SP!FILESTREAM
  <2> QED
    BY <1>1, <1>3, <2>1, <2>2, <2>3, Zenon DEF SP!TypeOK
<1>5. SP!BufferSound'
  BY <1>3 DEF SP!BufferSound, SP!Buffer_assert, SP!Buffer_from_buf
<1>6. SP!Control'
  BY <1>2, <1>3 DEF SP!Control, SP!Functions, SP!OpenFile
<1>7. SP!ReadInv'
  BY <1>2, <1>3 DEF SP!ReadInv, SP!STREAM_IN
<1> QED
  BY <1>1, <1>4, <1>5, <1>6, <1>7

LEMMA NextStreamInv == StreamInv /\ Books /\ Books' /\ [Next]_vars => StreamInv'
<1>1. UNCHANGED vars => OwnStep
  BY DEF OwnStep
<1> QED
  BY <1>1, StepsOfStream, StreamSteps, OwnSteps, NewStream, Zenon

-----------------------------------------------------------------------------
(* The decoder and report *)

LEMMA OctetAssumption == Byte \subseteq 0 .. 255
BY ByteAssumption

DecoderInv == DP!Inv /\ DP!LocalsOK

LEMMA SameDecoder ==
  /\ \A b : Decoder!StartByte(b) => DP!StartByte(b)
  /\ \A b : Decoder!ContinuationByte(b) => DP!ContinuationByte(b)
  /\ Decoder!EndOfStream => DP!EndOfStream
  /\ Decoder!StreamFails => DP!StreamFails
BY SMT
DEF Decoder!StartByte, DP!StartByte, Decoder!ContinuationByte, DP!ContinuationByte,
    Decoder!EndOfStream, DP!EndOfStream, Decoder!StreamFails, DP!StreamFails,
    Decoder!Running, DP!Running, Decoder!NoResult, DP!NoResult, Decoder!Err, DP!Err,
    Decoder!Some, DP!Some, Decoder!StartLength, DP!StartLength, Decoder!StartBits,
    DP!StartBits, Decoder!IsContinuation, DP!IsContinuation, Decoder!LoopResult,
    DP!LoopResult, Decoder!Checked, DP!Checked, Decoder!MaxCodepoint, DP!MaxCodepoint,
    Decoder!locals, DP!locals

LEMMA DecoderSteps ==
  ASSUME DecoderInv, NEW b \in Byte,
         \/ Decoder!StartByte(b) \/ Decoder!ContinuationByte(b)
         \/ Decoder!EndOfStream \/ Decoder!StreamFails
  PROVE  DecoderInv'
<1>1. DP!Next
  BY SameDecoder, Zenon DEF DP!Next
<1> QED
  BY <1>1, OctetAssumption, DP!NextInv, DP!NextLocals, Zenon DEF DecoderInv

LEMMA DecoderStart == DP!Init => DecoderInv
BY OctetAssumption, DP!InitInv, DP!InitLocals, Zenon DEF DecoderInv

LEMMA NewDecoder == ASSUME NextSequence PROVE DecoderInv'
<1>1. DP!Init'
  BY DEF NextSequence, DP!Init, DP!NoResult, Decoder!NoResult
<1>2. DP!Init' => DecoderInv'
  BY DecoderStart, PTL
<1> QED
  BY <1>1, <1>2

LEMMA NextDecoderInv == ASSUME StreamInv, DecoderInv, [Next]_vars PROVE DecoderInv'
<1>1. CASE TakeByte
  <2>1. result.value \in Byte
    BY <1>1 DEF TakeByte, StreamInv, SP!IInv, SP!TypeOK
  <2>2. Decoder!StartByte(result.value) \/ Decoder!ContinuationByte(result.value)
    BY <1>1, Zenon DEF TakeByte
  <2> QED
    BY <2>1, <2>2, DecoderSteps
<1>2. CASE TakeEnd \/ TakeErr
  <2>1. Decoder!EndOfStream \/ Decoder!StreamFails
    BY <1>2, Zenon DEF TakeEnd, TakeErr
  <2>2. PICK b \in Byte : TRUE
    BY ByteAssumption
  <2> QED
    BY <2>1, <2>2, DecoderSteps
<1>3. CASE CountChar
  BY <1>3, NewDecoder, Zenon DEF CountChar
<1>4. CASE monkey_init
  <2>1. NextSequence
    BY <1>4 DEF monkey_init, NewLocals, NextSequence
  <2> QED
    BY <2>1, NewDecoder
<1>5. CASE UNCHANGED decoderVars
  <2>1. DP!Inv'
    <3>1. [DP!Next]_DP!vars
      BY <1>5 DEF DP!vars, DP!locals
    <3> QED
      BY <3>1, OctetAssumption, DP!NextInv, Zenon DEF DecoderInv
  <2>2. DP!LocalsOK'
    BY <1>5, Zenon DEF DecoderInv, DP!LocalsOK
  <2> QED
    BY <2>1, <2>2 DEF DecoderInv
<1>6. ReadStdin \/ ReadFile \/ OpenFailed \/ Usage \/ ReadTestcase \/ monkey_release \/ LoopEnds
        \/ CallGetc \/ ReportCounts \/ ReportFailure \/ CallClose \/ Release
        \/ leakcheck_verify \/ StreamProgress \/ Environment \/ Exited \/ UNCHANGED vars
        => UNCHANGED decoderVars
  BY DEF ReadStdin, ReadFile, OpenFailed, Usage, ReadTestcase, monkey_release, LoopEnds,
     CallGetc, ReportCounts, ReportFailure, CallClose, Release, leakcheck_verify,
     StreamProgress, Environment, Exited
<1> QED
  BY <1>1, <1>2, <1>3, <1>4, <1>5, <1>6, Zenon DEF Next, Main

ReporterAssumptions == 13 \in Char /\ 10 \in Char /\ 13 # 10 /\ MaxInput \in Nat

LEMMA Codepoints ==
  /\ Decoder!MaxCodepoint \in Nat /\ Decoder!MaxCodepoint >= 13
  /\ DP!MaxCodepoint = Decoder!MaxCodepoint
BY SMT DEF Decoder!MaxCodepoint, DP!MaxCodepoint

LEMMA ReporterAssumptionsHold == ReporterAssumptions
BY BoundAssumption, Codepoints, SMT DEF ReporterAssumptions, Char

LEMMA ReporterStart == RP!Init => RP!Inv
BY ReporterAssumptionsHold, RP!InitInv, Zenon DEF ReporterAssumptions

LEMMA SameReporter ==
  /\ Reporter!CarriageReturn => RP!CarriageReturn
  /\ Reporter!LineFeed => RP!LineFeed
  /\ \A ch : Reporter!OtherChar(ch) => RP!OtherChar(ch)
  /\ Reporter!EndOfText => RP!EndOfText
  /\ Reporter!Failure => RP!Failure
BY SMT
DEF Reporter!CarriageReturn, RP!CarriageReturn, Reporter!LineFeed, RP!LineFeed,
    Reporter!OtherChar, RP!OtherChar, Reporter!EndOfText, RP!EndOfText, Reporter!Failure,
    RP!Failure, Reporter!Running, RP!Running, Reporter!Read, RP!Read, Reporter!CRcountNext,
    RP!CRcountNext, Reporter!counters, RP!counters, Reporter!Separators, RP!Separators,
    Reporter!Position, RP!Position, Reporter!Questionable, RP!Questionable,
    Reporter!linecount, RP!linecount, Reporter!MAX2, RP!MAX2, Reporter!MAX3, RP!MAX3

LEMMA NextReporterInv == ASSUME DecoderInv, RP!Inv, [Next]_vars PROVE RP!Inv'
<1>1. RP!Next \/ UNCHANGED reportVars => RP!Inv'
  <2>1. UNCHANGED reportVars => UNCHANGED RP!vars
    BY DEF RP!vars, RP!counters
  <2> QED
    BY <2>1, ReporterAssumptionsHold, RP!NextInv, Zenon DEF ReporterAssumptions
<1>2. CASE CountChar
  <2>1. c.value \in Char
    <3>1. c.kind = "Some" /\ DP!TypeOK
      BY <1>2, OctetAssumption, DP!TypeOfInv DEF CountChar, DecoderInv
    <3> QED
      BY <3>1, Codepoints, SMT DEF DP!TypeOK, DP!NoResult, Char
  <2>2. RP!Next
    BY <1>2, <2>1, SameReporter, Zenon DEF CountChar, RP!Next
  <2> QED
    BY <1>1, <2>2
<1>3. CASE ReportCounts \/ ReportFailure
  BY <1>1, <1>3, SameReporter, Zenon DEF ReportCounts, ReportFailure, RP!Next
<1>4. CASE monkey_init
  <2>1. RP!Init'
    BY <1>4 DEF monkey_init, NewLocals, RP!Init
  <2>2. RP!Init' => RP!Inv'
    BY ReporterStart, PTL
  <2> QED
    BY <2>1, <2>2
<1>5. ReadStdin \/ ReadFile \/ OpenFailed \/ Usage \/ ReadTestcase \/ monkey_release \/ LoopEnds
        \/ CallGetc \/ TakeByte \/ TakeEnd \/ TakeErr \/ CallClose \/ Release
        \/ leakcheck_verify \/ StreamProgress \/ Environment \/ Exited \/ UNCHANGED vars
        => UNCHANGED reportVars
  BY DEF ReadStdin, ReadFile, OpenFailed, Usage, ReadTestcase, monkey_release, LoopEnds,
     CallGetc, TakeByte, TakeEnd, TakeErr, CallClose, Release, leakcheck_verify,
     StreamProgress, Environment, Exited
<1> QED
  BY <1>1, <1>2, <1>3, <1>4, <1>5, Zenon DEF Next, Main

-----------------------------------------------------------------------------
(* The types *)

MainOK == c_heap \in BOOLEAN /\ exit_code \in {0, 1} /\ testcases \in 0 .. MaxTestcases

LEMMA NextMainOK == ASSUME StreamInv, MainOK, [Next]_vars PROVE MainOK'
<1>1. result.heap \in BOOLEAN
  BY DEF StreamInv, SP!IInv, SP!TypeOK
<1>2. CASE monkey_init
  <2>1. c_heap' = c_heap /\ exit_code' = exit_code /\ testcases' \in 0 .. MaxTestcases
    BY <1>2, BoundAssumption DEF monkey_init, NewLocals, MainOK
  <2> QED
    BY <2>1, Zenon DEF MainOK
<1>3. CASE TakeByte \/ TakeEnd
  <2>1. c_heap' \in BOOLEAN /\ exit_code' = exit_code /\ testcases' = testcases
    BY <1>3, Zenon DEF TakeByte, TakeEnd, Copies, MainOK
  <2> QED
    BY <2>1, Zenon DEF MainOK
<1>4. CASE TakeErr
  BY <1>1, <1>4, Zenon DEF TakeErr, MainOK
<1>5. CASE Release
  <2>1. exit_code' \in {0, 1} /\ c_heap' = c_heap /\ testcases' = testcases
    BY <1>5 DEF Release, ExitCodeOfClose
  <2> QED
    BY <2>1, Zenon DEF MainOK
<1>6. ReadStdin \/ ReadFile \/ ReadTestcase \/ monkey_release \/ CallGetc \/ CountChar
        \/ ReportCounts \/ CallClose \/ leakcheck_verify \/ StreamProgress \/ Environment
        \/ Exited \/ UNCHANGED vars => UNCHANGED <<c_heap, exit_code, testcases>>
  BY DEF ReadStdin, ReadFile, ReadTestcase, monkey_release, CallGetc, CountChar, ReportCounts,
     CallClose, leakcheck_verify, StreamProgress, Environment, Exited
<1>7. OpenFailed \/ Usage \/ LoopEnds \/ ReportFailure =>
        c_heap' \in {c_heap, FALSE} /\ exit_code' \in {exit_code, 0, 1} /\ testcases' = testcases
  BY DEF OpenFailed, Usage, LoopEnds, ReportFailure
<1>8. CASE OpenFailed \/ Usage \/ LoopEnds \/ ReportFailure
  BY <1>7, <1>8, Zenon DEF MainOK
<1>9. CASE UNCHANGED <<c_heap, exit_code, testcases>>
  BY <1>9, Zenon DEF MainOK
<1> QED
  BY <1>2, <1>3, <1>4, <1>5, <1>6, <1>8, <1>9, Zenon DEF Next, Main

PartsInv == Books /\ StreamInv /\ DecoderInv /\ RP!Inv /\ MainOK

LEMMA InitPartsInv == Init => PartsInv
<1>1. Init => DP!Init
  BY DEF Init, Decoder!Init, DP!Init, Decoder!NoResult, DP!NoResult
<1>2. Init => RP!Init
  BY DEF Init, Reporter!Init, RP!Init
<1>3. 0 \in 0 .. MaxTestcases
  BY BoundAssumption
<1>4. Init => MainOK
  BY <1>3, Zenon DEF Init, MainOK
<1> QED
  BY <1>1, <1>2, <1>4, InitBooks, InitStreamInv, DecoderStart, ReporterStart, Zenon DEF PartsInv

LEMMA NextPartsInv == PartsInv /\ [Next]_vars => PartsInv'
<1> SUFFICES ASSUME PartsInv, [Next]_vars PROVE PartsInv'
  OBVIOUS
<1>1. Books'
  BY NextBooks DEF PartsInv
<1> QED
  BY <1>1, NextStreamInv, NextDecoderInv, NextReporterInv, NextMainOK, Zenon DEF PartsInv

LEMMA PartsAreKept == Spec => []PartsInv
BY InitPartsInv, NextPartsInv, PTL DEF Spec

LEMMA SameDecoderTypes == DP!TypeOK => Decoder!TypeOK
<1>1. DP!NoResult = Decoder!NoResult
  BY DEF DP!NoResult, Decoder!NoResult
<1> QED
  BY <1>1, Codepoints, Zenon DEF DP!TypeOK, Decoder!TypeOK

LEMMA SameReporterTypes == RP!TypeOK => Reporter!TypeOK
BY SMT DEF RP!TypeOK, Reporter!TypeOK, RP!Positive, Reporter!Positive

LEMMA TypesOfParts == PartsInv => TypeOK
<1> SUFFICES ASSUME PartsInv PROVE TypeOK
  OBVIOUS
<1>1. Stream!TypeOK
  BY SameStreamTypes, Zenon DEF PartsInv, StreamInv, SP!IInv
<1>2. Decoder!TypeOK
  BY OctetAssumption, DP!TypeOfInv, SameDecoderTypes, Zenon DEF PartsInv, DecoderInv
<1>3. Reporter!TypeOK
  BY SameReporterTypes, Zenon DEF PartsInv, RP!Inv
<1>4. at \in Places
  BY DEF PartsInv, Books, PlaceOK
<1> QED
  BY <1>1, <1>2, <1>3, <1>4, Zenon DEF TypeOK, PartsInv, MainOK

\* All variables of the program keep their types, those of the stream, of the
\* decoder and of report where they run together, and in every test case of the
\* loop for AFL; the count of the allocations never falls below zero.
THEOREM TypeCorrect == Spec => []TypeOK
BY PartsAreKept, TypesOfParts, PTL

-----------------------------------------------------------------------------
(* What was read, what was decoded and what was counted                     *)

\* The byte getc has returned and the decoder has not taken yet.
ByteReturned == GetcReturned /\ ~result.is_err /\ result.value # None
Pending == IF ByteReturned THEN <<result.value>> ELSE <<>>

\* getc has met the end of the input.
InputRead == Stream!LSlice_is_empty(buffer) /\ Stream!AtEnd

\* The bytes s make up the characters that were counted; behind them are the
\* sequence the decoder works at, and the byte that is on its way to it.
CountedUpTo(s) == IsTextOf(text, s) /\ got = s \o (sequence \o Pending)

TextPlaces == {"start", "test_case", "decode", "getc", "report", "close"}

TextOK == at \in TextPlaces => \E s \in Seq(Byte) : CountedUpTo(s)

\* An end is only reported where it was met, a failure only where there was one.
EndOK ==
  /\ at = "getc" /\ pc = "ready" /\ ~result.is_err /\ result.value = None => InputRead
  /\ at \in {"report", "close"} =>
       /\ c.kind = "None" => InputRead
       /\ c = Decoder!Err("premature_EOF") => InputRead /\ sequence # <<>>
       /\ c = Decoder!Err("stream") => optional_failure
  /\ at = "close" => \/ printed.type = "linecount" /\ c.kind = "None"
                     \/ printed.type = "utf-8-failure" /\ c.kind = "Err"

LEMMA EmptyText == IsTextOf(<<>>, <<>>)
<1> DEFINE end == [k \in 0 .. 0 |-> 0]
<1>1. end \in [0 .. 0 -> 0 .. 0] /\ end[0] = 0
  OBVIOUS
<1>2. Len(<<>>) = 0 /\ 1 .. 0 = {}
  OBVIOUS
<1> HIDE DEF end
<1> QED
  BY <1>1, <1>2, Zenon DEF IsTextOf

\* A text grows by a character when one of its forms is put behind its bytes.
LEMMA LongerText ==
  ASSUME NEW t \in Seq(Char), NEW ch \in Char, NEW s \in Seq(Byte), NEW w \in Seq(Byte),
         NEW n \in 1 .. 4, Len(w) = n, w = Decoder!Form(ch, n), IsTextOf(t, s)
  PROVE  IsTextOf(Append(t, ch), s \o w)
<1> DEFINE t2 == Append(t, ch)
           s2 == s \o w
           Ends(end, tt, ss) ==
             \A k \in 1 .. Len(tt) :
               \E m \in 1 .. 4 : /\ end[k] = end[k - 1] + m
                                 /\ SubSeq(ss, end[k - 1] + 1, end[k]) = Decoder!Form(tt[k], m)
<1>1. PICK end \in [0 .. Len(t) -> 0 .. Len(s)] :
         end[0] = 0 /\ end[Len(t)] = Len(s) /\ Ends(end, t, s)
  BY Zenon DEF IsTextOf
<1> DEFINE end2 == [k \in 0 .. Len(t2) |-> IF k <= Len(t) THEN end[k] ELSE Len(s2)]
<1>2. /\ Len(t2) = Len(t) + 1 /\ Len(t) \in Nat /\ t2[Len(t) + 1] = ch
      /\ \A k \in 1 .. Len(t) : t2[k] = t[k]
  OBVIOUS
<1>3. s2 \in Seq(Byte) /\ Len(s2) = Len(s) + n /\ Len(s) \in Nat
  BY ConcatProperties
<1>4. end2 \in [0 .. Len(t2) -> 0 .. Len(s2)]
  BY <1>1, <1>2, <1>3
<1>5. end2[Len(t2)] = Len(s2) /\ \A k \in 0 .. Len(t) : end2[k] = end[k]
  BY <1>2
<1>6. end2[0] = 0
  BY <1>1, <1>2, <1>5
<1> HIDE DEF t2, end2
<1>7. ASSUME NEW k \in 1 .. Len(t)
      PROVE  \E m \in 1 .. 4 : /\ end2[k] = end2[k - 1] + m
                               /\ SubSeq(s2, end2[k - 1] + 1, end2[k]) = Decoder!Form(t2[k], m)
  <2>1. PICK m \in 1 .. 4 : /\ end[k] = end[k - 1] + m
                            /\ SubSeq(s, end[k - 1] + 1, end[k]) = Decoder!Form(t[k], m)
    BY <1>1
  <2>2. k \in 0 .. Len(t) /\ k - 1 \in 0 .. Len(t)
    BY <1>2
  <2>3. end2[k] = end[k] /\ end2[k - 1] = end[k - 1] /\ t2[k] = t[k]
    BY <1>2, <1>5, <2>2
  <2>4. end[k - 1] \in 0 .. Len(s) /\ end[k] \in 0 .. Len(s)
    BY <1>1, <2>2
  <2>5. end[k - 1] + 1 \in 1 .. Len(s) /\ end[k] \in 1 .. Len(s)
    <3>1. end[k] = end[k - 1] + m
      BY <2>1, Zenon
    <3>2. \A a, b, l \in Nat : a <= l /\ b <= l /\ b = a + m => a + 1 <= l /\ b >= 1
      OBVIOUS
    <3> QED
      BY <1>3, <2>4, <3>1, <3>2
  <2>6. SubSeq(s2, end[k - 1] + 1, end[k]) = SubSeq(s, end[k - 1] + 1, end[k])
    BY <2>5, SubSeqOfConcat1, Zenon
  <2> QED
    BY <2>1, <2>3, <2>6, Zenon
<1>8. ASSUME NEW k, k = Len(t) + 1
      PROVE  \E m \in 1 .. 4 : /\ end2[k] = end2[k - 1] + m
                               /\ SubSeq(s2, end2[k - 1] + 1, end2[k]) = Decoder!Form(t2[k], m)
  <2>1. end2[k] = Len(s) + n /\ end2[k - 1] = Len(s) /\ t2[k] = ch
    BY <1>1, <1>2, <1>3, <1>5, <1>8
  <2>2. SubSeq(s2, Len(s) + 1, Len(s) + n) = w
    <3>1. /\ Len(s) + 1 \in Len(s) + 1 .. Len(s) + Len(w)
          /\ Len(s) + n \in Len(s) + 1 .. Len(s) + Len(w)
      BY <1>3
    <3>2. SubSeq(s2, Len(s) + 1, Len(s) + n) = SubSeq(w, Len(s) + 1 - Len(s), Len(s) + n - Len(s))
      BY <3>1, SubSeqOfConcat2
    <3>3. Len(s) + 1 - Len(s) = 1 /\ Len(s) + n - Len(s) = Len(w)
      BY <1>3
    <3>4. SubSeq(w, 1, Len(w)) = w
      BY SubSeqFull, Zenon
    <3> QED
      BY <3>2, <3>3, <3>4, Zenon
  <2> QED
    BY <2>1, <2>2, Zenon
<1>9. \A k \in 1 .. Len(t2) : k \in 1 .. Len(t) \/ k = Len(t) + 1
  BY <1>2
<1> HIDE DEF s2
<1>10. Ends(end2, t2, s2)
  BY <1>7, <1>8, <1>9, Zenon
<1>11. IsTextOf(t2, s2)
  BY <1>4, <1>5, <1>6, <1>10, Zenon DEF IsTextOf
<1> QED
  BY <1>11 DEF t2, s2

LEMMA TextTypes ==
  ASSUME PartsInv
  PROVE  /\ got \in Seq(Byte) /\ sequence \in Seq(Byte) /\ text \in Seq(Char)
         /\ result.value \in Byte \cup {None} /\ Pending \in Seq(Byte)
<1>1. got \in Seq(Byte) /\ result.value \in Byte \cup {None}
  BY DEF PartsInv, StreamInv, SP!IInv, SP!TypeOK
<1>2. sequence \in Seq(Byte)
  BY Zenon DEF PartsInv, DecoderInv, DP!Inv
<1>3. text \in Seq(Char)
  BY Zenon DEF PartsInv, RP!Inv, RP!TypeOK
<1>4. Pending \in Seq(Byte)
  BY <1>1 DEF Pending, ByteReturned
<1> QED
  BY <1>1, <1>2, <1>3, <1>4

\* A step that neither takes nor counts anything.
LEMMA TextFrame ==
  ASSUME TextOK, UNCHANGED <<text, got, sequence>>, Pending' = Pending,
         at' \in TextPlaces => at \in TextPlaces
  PROVE  TextOK'
<1>1. ASSUME NEW s \in Seq(Byte), CountedUpTo(s) PROVE CountedUpTo(s)'
  <2>1. text' = text /\ got' = got /\ sequence' = sequence /\ Pending' = Pending
    OBVIOUS
  <2> HIDE DEF Pending
  <2> QED
    BY <1>1, <2>1, Zenon DEF CountedUpTo, IsTextOf
<1> QED
  BY <1>1, Zenon DEF TextOK

\* getc returns the byte behind those it has returned before.
LEMMA TextGetcByte ==
  ASSUME PartsInv, TextOK, Stream!GetcByte, UNCHANGED <<decoderVars, reportVars, mainVars>>
  PROVE  TextOK'
<1> DEFINE b == Stream!LSlice_ref_start(buffer)
<1>1. /\ pc = "getc" /\ pc' = "ready" /\ got' = Append(got, b) /\ ~result'.is_err
      /\ result'.value = b /\ at' = at /\ at = "getc"
      /\ UNCHANGED <<text, sequence>> /\ Stream!Getting /\ ~Stream!LSlice_is_empty(buffer)
  BY DEF Stream!GetcByte, Stream!Getting, PartsInv, Books, PlaceOK, Places
<1>2. b \in Byte
  <2>1. /\ buffer.startpos < buffer.endpos /\ buffer.startpos \in Nat /\ buffer.endpos \in Nat
        /\ \A k \in 0 .. buffer.endpos - 1 : buffer.data[k] \in Byte
    BY <1>1 DEF PartsInv, StreamInv, SP!IInv, SP!TypeOK, SP!BufferSound, SP!Buffer_assert,
       Stream!LSlice_is_empty
  <2> QED
    BY <2>1 DEF Stream!LSlice_ref_start
<1> HIDE DEF b
<1>3. Pending = <<>> /\ Pending' = <<b>>
  BY <1>1, <1>2, ByteAssumption DEF Pending, ByteReturned, GetcReturned
<1>4. PICK s \in Seq(Byte) : CountedUpTo(s)
  BY <1>1, Zenon DEF TextOK, TextPlaces
<1>5. got' = s \o (sequence \o <<b>>)
  <2>1. sequence \in Seq(Byte) /\ got \in Seq(Byte) /\ <<b>> \in Seq(Byte)
    BY <1>2, TextTypes
  <2>2. got = s \o sequence
    BY <1>3, <1>4, <2>1, ConcatEmptySeq, Zenon DEF CountedUpTo
  <2>3. got' = got \o <<b>>
    BY <1>1, <1>2, <2>1, AppendIsConcat, Zenon
  <2> QED
    <3>1. PICK last \in Seq(Byte) : last = <<b>>
      BY <2>1
    <3>2. (s \o sequence) \o last = s \o (sequence \o last)
      BY <2>1, ConcatAssociative
    <3> QED
      BY <2>2, <2>3, <3>1, <3>2, Zenon
<1>6. IsTextOf(text', s)
  BY <1>1, <1>4, Zenon DEF CountedUpTo
<1> QED
  BY <1>1, <1>3, <1>5, <1>6, Zenon DEF TextOK, CountedUpTo, IsTextOf

\* The decoder takes it into its sequence.
LEMMA TextTakeByte == ASSUME PartsInv, TextOK, TakeByte PROVE TextOK'
<1> DEFINE b == result.value
<1>1. /\ at = "getc" /\ at' \in {"decode", "report"} /\ ByteReturned /\ UNCHANGED <<text, got>>
      /\ Decoder!StartByte(b) \/ Decoder!ContinuationByte(b)
  BY Zenon DEF TakeByte, ByteReturned, GetcReturned
<1>2. b \in Byte /\ sequence \in Seq(Byte)
  BY <1>1, TextTypes DEF ByteReturned
<1> HIDE DEF b
<1>3. Pending = <<b>> /\ Pending' = <<>>
  BY <1>1 DEF Pending, ByteReturned, GetcReturned, b
<1>4. sequence' = sequence \o <<b>>
  <2>1. CASE Decoder!StartByte(b)
    <3>1. i = 0 /\ DP!Running /\ sequence' = <<b>>
      BY <2>1 DEF Decoder!StartByte, Decoder!Running, DP!Running, Decoder!NoResult, DP!NoResult
    <3>2. Len(sequence) = 0
      BY <3>1 DEF PartsInv, DecoderInv, DP!Inv, DP!LoopState
    <3>3. sequence = <<>>
      BY <1>2, <3>2
    <3> QED
      BY <1>2, <3>1, <3>3
  <2>2. CASE Decoder!ContinuationByte(b)
    <3>1. sequence' = Append(sequence, b)
      BY <2>2 DEF Decoder!ContinuationByte
    <3> QED
      BY <1>2, <3>1, AppendIsConcat
  <2> QED
    BY <1>1, <2>1, <2>2
<1>5. PICK s \in Seq(Byte) : CountedUpTo(s)
  BY <1>1, Zenon DEF TextOK, TextPlaces
<1>6. sequence' \o Pending' = sequence \o Pending
  BY <1>2, <1>3, <1>4
<1>7. CountedUpTo(s)'
  BY <1>1, <1>5, <1>6, Zenon DEF CountedUpTo, IsTextOf
<1> QED
  BY <1>7, Zenon DEF TextOK

\* report counts the character whose form was read.
LEMMA TextCountChar == ASSUME PartsInv, TextOK, CountChar PROVE TextOK'
<1> DEFINE ch == c.value
<1>1. /\ at = "report" /\ at' = "decode" /\ c.kind = "Some" /\ NextSequence
      /\ UNCHANGED got
  BY DEF CountChar
<1>2. text' = Append(text, ch)
  BY DEF CountChar, Reporter!CarriageReturn, Reporter!LineFeed, Reporter!OtherChar, Reporter!Read
<1>3. ch \in Char
  <2>1. DP!TypeOK
    BY OctetAssumption, DP!TypeOfInv, Zenon DEF PartsInv, DecoderInv
  <2> QED
    BY <1>1, <2>1, Codepoints, SMT DEF DP!TypeOK, DP!NoResult, Char
<1>4. PICK n \in 1 .. 4 : n = Len(sequence) /\ sequence = Decoder!Form(ch, n)
  <2>1. DP!DecodedIsRead
    BY OctetAssumption, DP!Decoded, Zenon DEF PartsInv, DecoderInv
  <2>2. \A v, n : Decoder!Form(v, n) = DP!Form(v, n)
    BY SMT DEF Decoder!Form, DP!Form
  <2>3. PICK n \in 1 .. 4 : n = Len(sequence) /\ sequence = DP!Form(ch, n)
    BY <1>1, <2>1, Zenon DEF DP!DecodedIsRead
  <2> QED
    BY <2>2, <2>3, Zenon
<1> HIDE DEF ch
<1>5. /\ sequence \in Seq(Byte) /\ text \in Seq(Char) /\ sequence' = <<>>
      /\ Pending = <<>> /\ Pending' = <<>>
  BY <1>1, TextTypes DEF NextSequence, Pending, ByteReturned, GetcReturned
<1>6. PICK s \in Seq(Byte) : CountedUpTo(s)
  BY <1>1, Zenon DEF TextOK, TextPlaces
<1>7. PICK s2 \in Seq(Byte) : s2 = s \o sequence
  BY <1>5, ConcatProperties
<1>8. IsTextOf(Append(text, ch), s2)
  BY <1>3, <1>4, <1>5, <1>6, <1>7, LongerText, Zenon DEF CountedUpTo
<1>9. got' = s2 \o (sequence' \o Pending')
  BY <1>1, <1>5, <1>6, <1>7, ConcatEmptySeq DEF CountedUpTo
<1>10. CountedUpTo(s2)'
  BY <1>2, <1>8, <1>9, Zenon DEF CountedUpTo, IsTextOf
<1> QED
  BY <1>10, Zenon DEF TextOK

\* The other functions of the stream return no byte.
LEMMA TextStream ==
  ASSUME PartsInv, TextOK, StreamProgress
  PROVE  TextOK'
<1>1. CASE Stream!GetcByte
  BY <1>1, TextGetcByte, Zenon DEF StreamProgress
<1>2. ASSUME pc # "ready", UNCHANGED <<got, text, sequence, at>>,
             pc' # "ready" \/ result'.is_err \/ result'.value = None
      PROVE  TextOK'
  <2>1. Pending = <<>> /\ Pending' = <<>>
    BY <1>2 DEF Pending, ByteReturned, GetcReturned
  <2> QED
    BY <1>2, <2>1, TextFrame
<1>3. UNCHANGED <<text, sequence, at>>
  BY DEF StreamProgress
<1>4. CASE Stream!GetcRefused \/ Stream!GetcEnd \/ Stream!GetcFailed \/ Stream!GetcRefill
  BY <1>2, <1>3, <1>4
  DEF Stream!GetcRefused, Stream!GetcEnd, Stream!GetcFailed, Stream!GetcRefill, Stream!Getting
<1>5. CASE Stream!Read
  <2>1. pc = "read" /\ pc' = "getc" /\ got' = got
    BY <1>5 DEF Stream!Read, Stream!ReadBytes, Stream!ReadEOF, Stream!ReadFails
  <2> QED
    BY <1>2, <1>3, <2>1
<1>6. CASE Stream!Close \/ Stream!SysClose
  <2>1. pc \in {"close", "sysclose"} /\ got' = got
    BY <1>6 DEF Stream!Close, Stream!CloseRefused, Stream!CloseBuffer, Stream!CloseFile,
      Stream!SysClose, Stream!SysCloseSucceeds, Stream!SysCloseFails
  <2>2. at' \notin TextPlaces
    BY <1>3, <2>1 DEF PartsInv, Books, PlaceOK, Places, TextPlaces
  <2> QED
    BY <2>2, Zenon DEF TextOK
<1> QED
  BY <1>1, <1>4, <1>5, <1>6, NothingIsPut, Zenon
  DEF StreamProgress, Stream!Progress, Stream!Getc, PartsInv

LEMMA NextTextOK == ASSUME PartsInv, TextOK, [Next]_vars PROVE TextOK'
<1>1. CASE monkey_init
  <2>1. text' = <<>> /\ got' = <<>> /\ sequence' = <<>> /\ at' = "test_case"
    BY <1>1 DEF monkey_init, NewLocals
  <2>2. Pending' = <<>> /\ <<>> \o (<<>> \o <<>>) = <<>> /\ <<>> \in Seq(Byte)
    BY <2>1 DEF Pending, ByteReturned, GetcReturned
  <2>3. CountedUpTo(<<>>)'
    BY <2>1, <2>2, EmptyText, Zenon DEF CountedUpTo, IsTextOf
  <2> QED
    BY <2>2, <2>3, Zenon DEF TextOK
<1>2. CASE at' \notin TextPlaces
  BY <1>2, Zenon DEF TextOK
<1>3. OpenFailed \/ Usage \/ monkey_release \/ LoopEnds \/ CallClose \/ Release
        \/ leakcheck_verify => at' \notin TextPlaces
  BY DEF OpenFailed, Usage, monkey_release, LoopEnds, CallClose, Release, leakcheck_verify,
     TextPlaces
<1>4. ASSUME UNCHANGED <<text, got, sequence>>, ~ByteReturned, ~ByteReturned', at \in TextPlaces
      PROVE  TextOK'
  <2>1. Pending' = Pending
    BY <1>4 DEF Pending
  <2> QED
    BY <1>4, <2>1, TextFrame
<1>5. CASE ReadStdin \/ ReadFile
  <2>1. at = "start" /\ at' # "getc" /\ UNCHANGED <<text, sequence>>
    BY <1>5 DEF ReadStdin, ReadFile
  <2>2. got' = got
    BY <1>5 DEF ReadStdin, ReadFile, Stream!fd_BufferedStream, Stream!open_BufferedStream,
      Stream!FileStream
  <2> QED
    BY <1>4, <2>1, <2>2 DEF ByteReturned, GetcReturned, TextPlaces
<1>6. CASE ReadTestcase
  <2>1. at = "test_case" /\ at' # "getc" /\ UNCHANGED <<text, sequence>>
    BY <1>6 DEF ReadTestcase
  <2>2. got' = got
    BY <1>6 DEF ReadTestcase, Stream!Buffer_to_BufferedStream
  <2> QED
    BY <1>4, <2>1, <2>2 DEF ByteReturned, GetcReturned, TextPlaces
<1>7. CASE CallGetc
  BY <1>4, <1>7 DEF CallGetc, Stream!Call, ByteReturned, GetcReturned, TextPlaces
<1>8. CASE TakeEnd \/ TakeErr
  BY <1>4, <1>8
  DEF TakeEnd, TakeErr, Decoder!EndOfStream, Decoder!StreamFails, ByteReturned, GetcReturned,
      TextPlaces
<1>9. CASE ReportCounts \/ ReportFailure
  <2>1. at = "report" /\ at' = "close" /\ text' = text
    BY <1>9 DEF ReportCounts, ReportFailure, Reporter!EndOfText, Reporter!Failure
  <2>2. UNCHANGED <<got, sequence>>
    BY <1>9 DEF ReportCounts, ReportFailure
  <2> QED
    BY <1>4, <2>1, <2>2 DEF ByteReturned, GetcReturned, TextPlaces
<1>10. CASE Environment \/ Exited \/ UNCHANGED vars
  <2>1. UNCHANGED <<text, got, sequence, at, pc, result>>
    BY <1>10 DEF Environment, Exited, Stream!SysCloseInterrupted, Stream!FileGrows
  <2>2. Pending' = Pending
    BY <2>1, Zenon DEF Pending, ByteReturned, GetcReturned
  <2> QED
    BY <2>1, <2>2, TextFrame
<1> QED
  BY <1>1, <1>2, <1>3, <1>5, <1>6, <1>7, <1>8, <1>9, <1>10, TextTakeByte, TextCountChar,
     TextStream, Zenon
  DEF Next, Main

\* A step after which nothing is at its end that was not there before.
LEMMA EndFrame ==
  ASSUME EndOK, UNCHANGED <<decoderVars, reportVars, at>>,
         InputRead => InputRead', optional_failure => optional_failure',
         at = "getc" /\ pc' = "ready" /\ ~result'.is_err /\ result'.value = None
           => InputRead' \/ UNCHANGED <<pc, result>>
  PROVE  EndOK'
BY Zenon DEF EndOK

LEMMA EndStream == ASSUME PartsInv, EndOK, StreamProgress PROVE EndOK'
<1>1. UNCHANGED <<decoderVars, reportVars, at>>
  BY DEF StreamProgress
<1>2. CASE at \notin {"getc", "report", "close"}
  BY <1>1, <1>2 DEF EndOK
<1>3. CASE at \in {"report", "close"}
  <2>1. pc = "ready"
    BY <1>3 DEF PartsInv, Books, PlaceOK
  <2> QED
    BY <2>1, NothingIsPut
    DEF PartsInv, StreamProgress, Stream!Progress, Stream!Getc, Stream!GetcRefused,
        Stream!GetcByte, Stream!GetcEnd, Stream!GetcFailed, Stream!GetcRefill,
        Stream!Getting, Stream!Read, Stream!ReadBytes, Stream!ReadEOF, Stream!ReadFails,
        Stream!Close, Stream!CloseRefused, Stream!CloseBuffer, Stream!CloseFile,
        Stream!SysClose, Stream!SysCloseSucceeds, Stream!SysCloseFails
<1>4. CASE at = "getc"
  <2>1. pc' # "ready" \/ result'.is_err \/ result'.value # None \/ InputRead' => EndOK'
    BY <1>1, <1>4 DEF EndOK
  <2>2. CASE Stream!GetcByte
    <3>1. result'.value = Stream!LSlice_ref_start(buffer)
      BY <2>2 DEF Stream!GetcByte
    <3>2. Stream!LSlice_ref_start(buffer) \in Byte
      <4>1. /\ buffer.startpos < buffer.endpos /\ buffer.startpos \in Nat
            /\ buffer.endpos \in Nat
            /\ \A k \in 0 .. buffer.endpos - 1 : buffer.data[k] \in Byte
        BY <2>2 DEF Stream!GetcByte, PartsInv, StreamInv, SP!IInv, SP!TypeOK,
           SP!BufferSound, SP!Buffer_assert, Stream!LSlice_is_empty
      <4> QED
        BY <4>1 DEF Stream!LSlice_ref_start
    <3> QED
      BY <2>1, <3>1, <3>2, ByteAssumption
  <2>3. CASE Stream!GetcEnd
    BY <2>1, <2>3 DEF Stream!GetcEnd, InputRead, Stream!AtEnd
  <2>4. CASE Stream!GetcRefused \/ Stream!GetcFailed
    BY <2>1, <2>4 DEF Stream!GetcRefused, Stream!GetcFailed
  <2>5. CASE Stream!GetcRefill \/ Stream!Read
    BY <2>1, <2>5
    DEF Stream!GetcRefill, Stream!Read, Stream!ReadBytes, Stream!ReadEOF, Stream!ReadFails
  <2>6. ~Stream!Close /\ ~Stream!SysClose
    <3>1. pc \in {"getc", "read", "ready"}
      BY <1>4 DEF PartsInv, Books, PlaceOK
    <3> QED
      BY <3>1
      DEF Stream!Close, Stream!CloseRefused, Stream!CloseBuffer, Stream!CloseFile,
          Stream!SysClose, Stream!SysCloseSucceeds, Stream!SysCloseFails
  <2> QED
    BY <2>2, <2>3, <2>4, <2>5, <2>6, NothingIsPut, Zenon
    DEF StreamProgress, Stream!Progress, Stream!Getc, PartsInv
<1> QED
  BY <1>2, <1>3, <1>4, Zenon

LEMMA EndTaken == ASSUME PartsInv, EndOK, TakeByte \/ TakeEnd \/ TakeErr PROVE EndOK'
<1>1. at = "getc" /\ pc = "ready" /\ at' \in {"decode", "report"}
      /\ UNCHANGED <<buffer, stream_type, is_exhausted, optional_failure>>
  BY DEF TakeByte, TakeEnd, TakeErr, GetcReturned
<1>2. InputRead' = InputRead
  BY <1>1 DEF InputRead, Stream!LSlice_is_empty, Stream!AtEnd
<1>3. CASE TakeByte
  <2>1. c'.kind \in {"none", "Some"}
          \/ c' \in {[kind |-> "Err", reason |-> r] :
                       r \in {"start_byte", "continuation_byte", "codepoint"}}
    <3>1. Decoder!StartByte(result.value) \/ Decoder!ContinuationByte(result.value)
      BY <1>3, Zenon DEF TakeByte
    <3> QED
      BY <3>1, SMT
      DEF Decoder!StartByte, Decoder!ContinuationByte, Decoder!LoopResult, Decoder!Checked,
          Decoder!Err, Decoder!Some, Decoder!NoResult
  <2>2. c'.kind # "None" /\ c' # Decoder!Err("premature_EOF") /\ c' # Decoder!Err("stream")
    BY <2>1 DEF Decoder!Err
  <2> QED
    BY <1>1, <2>2 DEF EndOK
<1>4. CASE TakeEnd
  <2>1. InputRead
    BY <1>1, <1>4 DEF TakeEnd, EndOK
  <2>2. c' = (IF i = 0 THEN [kind |-> "None"] ELSE Decoder!Err("premature_EOF"))
        /\ sequence' = sequence /\ Decoder!Running
    BY <1>4 DEF TakeEnd, Decoder!EndOfStream
  <2>3. i # 0 => sequence # <<>>
    <3>1. i = Len(sequence)
      BY <2>2 DEF PartsInv, DecoderInv, DP!Inv, DP!LoopState, DP!Running, DP!NoResult,
         Decoder!Running, Decoder!NoResult
    <3> QED
      BY <3>1
  <2>4. c' # Decoder!Err("stream") /\ (c' = Decoder!Err("premature_EOF") => sequence' # <<>>)
    BY <2>2, <2>3 DEF Decoder!Err
  <2> QED
    BY <1>1, <1>2, <2>1, <2>4 DEF EndOK
<1>5. CASE TakeErr
  <2>1. c' = Decoder!Err("stream") /\ result.is_err
    BY <1>5 DEF TakeErr, Decoder!StreamFails
  <2>2. optional_failure'
    BY <1>1, <2>1 DEF PartsInv, Books, FailureOnItsWay
  <2>3. c'.kind # "None" /\ c' # Decoder!Err("premature_EOF")
    BY <2>1 DEF Decoder!Err
  <2> QED
    BY <1>1, <2>2, <2>3 DEF EndOK
<1> QED
  BY <1>3, <1>4, <1>5

LEMMA NextEndOK == ASSUME PartsInv, EndOK, [Next]_vars PROVE EndOK'
<1>1. CASE at' \notin {"getc", "report", "close"}
  BY <1>1 DEF EndOK
<1>2. ReadStdin \/ ReadFile \/ ReadTestcase \/ CountChar \/ OpenFailed \/ Usage \/ monkey_init
        \/ monkey_release \/ LoopEnds \/ CallClose \/ Release \/ leakcheck_verify
        => at' \notin {"getc", "report", "close"}
  BY DEF ReadStdin, ReadFile, ReadTestcase, CountChar, OpenFailed, Usage, monkey_init,
     monkey_release, LoopEnds, CallClose, Release, leakcheck_verify
<1>3. CASE CallGetc
  BY <1>3 DEF CallGetc, Stream!Call, EndOK
<1>4. CASE ReportCounts \/ ReportFailure
  <2>1. /\ at = "report" /\ at' = "close"
        /\ UNCHANGED <<buffer, stream_type, is_exhausted, optional_failure, c, sequence>>
    BY <1>4 DEF ReportCounts, ReportFailure
  <2>2. \/ printed'.type = "linecount" /\ c.kind = "None"
        \/ printed'.type = "utf-8-failure" /\ c.kind = "Err"
    <3>1. CASE ReportCounts
      BY <3>1 DEF ReportCounts, Reporter!EndOfText
    <3>2. CASE ReportFailure
      BY <3>2 DEF ReportFailure, Reporter!Failure
    <3> QED
      BY <1>4, <3>1, <3>2
  <2>3. InputRead' = InputRead
    BY <2>1 DEF InputRead, Stream!LSlice_is_empty, Stream!AtEnd
  <2> QED
    BY <2>1, <2>2, <2>3 DEF EndOK
<1>5. CASE Environment \/ Exited \/ UNCHANGED vars
  <2>1. UNCHANGED <<decoderVars, reportVars, at, pc, result, buffer, stream_type,
                    is_exhausted, optional_failure>>
    BY <1>5 DEF Environment, Exited, Stream!SysCloseInterrupted, Stream!FileGrows
  <2>2. InputRead' = InputRead
    BY <2>1 DEF InputRead, Stream!LSlice_is_empty, Stream!AtEnd
  <2> QED
    BY <2>1, <2>2, EndFrame
<1> QED
  BY <1>1, <1>2, <1>3, <1>4, <1>5, EndStream, EndTaken, Zenon DEF Next, Main

TextInv == PartsInv /\ TextOK /\ EndOK

LEMMA TextIsKept == Spec => []TextInv
<1>1. Init => TextOK /\ EndOK
  <2> SUFFICES ASSUME Init PROVE TextOK /\ EndOK
    OBVIOUS
  <2>1. text = <<>> /\ got = <<>> /\ sequence = <<>> /\ at = "start"
    BY DEF Init, Stream!Init, Decoder!Init, Reporter!Init
  <2>2. Pending = <<>> /\ <<>> \o (<<>> \o <<>>) = <<>> /\ <<>> \in Seq(Byte)
    BY <2>1 DEF Pending, ByteReturned, GetcReturned
  <2>3. CountedUpTo(<<>>)
    BY <2>1, <2>2, EmptyText, Zenon DEF CountedUpTo
  <2> QED
    BY <2>1, <2>2, <2>3 DEF TextOK, EndOK
<1>2. TextInv /\ [Next]_vars => TextInv'
  BY NextPartsInv, NextTextOK, NextEndOK, Zenon DEF TextInv
<1> QED
  BY <1>1, <1>2, InitPartsInv, PTL DEF Spec, TextInv

\* At the end of a text or at a fault, the stream has handed out what it read.
LEMMA AllHandedOut ==
  ASSUME PartsInv, at = "close", InputRead
  PROVE  offset = Len(got) /\ InputEnded /\ got = SubSeq(input, 1, offset)
<1>1. direction = SP!STREAM_IN /\ ~is_closed
  BY DEF PartsInv, Books, StreamOK, SP!STREAM_IN
<1>2. /\ Len(got) + (buffer.endpos - buffer.startpos) = offset
      /\ \A k \in 1 .. Len(got) : got[k] = input[k]
  BY <1>1 DEF PartsInv, StreamInv, SP!ReadInv, SP!InOrder
<1>3. /\ got \in Seq(Byte) /\ input \in Seq(Byte) /\ offset \in 0 .. Len(input)
      /\ buffer.endpos \in Nat /\ buffer.startpos \in Nat /\ buffer.startpos <= buffer.endpos
  BY DEF PartsInv, StreamInv, SP!IInv, SP!TypeOK, SP!BufferSound, SP!Buffer_assert
<1>4. offset = Len(got)
  BY <1>2, <1>3 DEF InputRead, Stream!LSlice_is_empty
<1>5. got = SubSeq(input, 1, offset)
  <2>1. \A k \in 1 .. offset : input[k] \in Byte
    BY <1>3
  <2>2. /\ SubSeq(input, 1, offset) \in Seq(Byte) /\ Len(SubSeq(input, 1, offset)) = offset
        /\ \A k \in 1 .. offset : SubSeq(input, 1, offset)[k] = input[k]
    BY <1>3, <2>1, SubSeqProperties
  <2>3. PICK front \in Seq(Byte) : front = SubSeq(input, 1, offset)
    BY <2>2
  <2> QED
    BY <1>2, <1>3, <1>4, <2>2, <2>3, SeqEqual
<1> QED
  BY <1>4, <1>5 DEF InputEnded, InputRead

\* What was read, at close: the text and the sequence behind it.
LEMMA ReadAtClose ==
  ASSUME TextInv, at = "close"
  PROVE  \E s \in Seq(Byte) : IsTextOf(text, s) /\ got = s \o sequence
<1>1. PICK s \in Seq(Byte) : CountedUpTo(s)
  BY Zenon DEF TextInv, TextOK, TextPlaces
<1>2. Pending = <<>> /\ sequence \in Seq(Byte)
  BY TextTypes DEF Pending, ByteReturned, GetcReturned, TextInv
<1> QED
  BY <1>1, <1>2, ConcatEmptySeq, Zenon DEF CountedUpTo

LEMMA LinecountInv == TextInv => LinecountIsOfWholeInput
<1> SUFFICES ASSUME TextInv, at = "close", printed.type = "linecount"
             PROVE  /\ IsTextOf(text, got) /\ got = SubSeq(input, 1, offset)
                    /\ InputEnded /\ ~optional_failure
  BY Zenon DEF LinecountIsOfWholeInput
<1>1. c.kind = "None" /\ InputRead
  BY DEF TextInv, EndOK
<1>2. sequence = <<>>
  <2>1. DP!Outcome
    BY DEF TextInv, PartsInv, DecoderInv, DP!Inv
  <2> QED
    BY <1>1, <2>1, SMT DEF DP!Outcome, DP!NoResult, DP!Err, DP!Some
<1>3. IsTextOf(text, got)
  <2>1. PICK s \in Seq(Byte) : IsTextOf(text, s) /\ got = s \o sequence
    BY ReadAtClose, Zenon
  <2>2. got = s
    BY <1>2, <2>1, ConcatEmptySeq, Zenon
  <2> QED
    BY <2>1, <2>2, Zenon
<1>4. ~optional_failure
  BY DEF TextInv, PartsInv, Books, RecordOK
<1> QED
  BY <1>1, <1>3, <1>4, AllHandedOut, Zenon DEF TextInv

\* If main prints a linecount record, the text that was counted is all of the
\* input: its bytes were returned by getc in their order, decoded and counted
\* once each, up to an end that read() or the array has told of, and no failing
\* read was taken for that end.
THEOREM CountsWholeInput == Spec => []LinecountIsOfWholeInput
BY TextIsKept, LinecountInv, PTL

LEMMA BothParts ==
  ASSUME NEW s \in Seq(Byte), NEW w \in Seq(Byte), NEW both, both = s \o w
  PROVE  /\ Len(s) \in 0 .. Len(both) /\ SubSeq(both, 1, Len(s)) = s
         /\ SubSeq(both, Len(s) + 1, Len(both)) = w
<1>1. /\ both \in Seq(Byte) /\ Len(both) = Len(s) + Len(w) /\ Len(s) \in Nat /\ Len(w) \in Nat
      /\ \A k \in 1 .. Len(s) : both[k] = s[k]
      /\ \A k \in 1 .. Len(w) : both[Len(s) + k] = w[k]
  BY ConcatProperties
<1>2. PICK front : front = SubSeq(both, 1, Len(s))
  OBVIOUS
<1>3. PICK back : back = SubSeq(both, Len(s) + 1, Len(both))
  OBVIOUS
<1>4. front = s
  <2>1. \A k \in 1 .. Len(s) : both[k] \in Byte
    BY <1>1
  <2>2. front \in Seq(Byte) /\ Len(front) = Len(s) /\ \A k \in 1 .. Len(s) : front[k] = both[k]
    BY <1>1, <1>2, <2>1, SubSeqProperties
  <2> QED
    BY <1>1, <2>2, SeqEqual
<1>5. back = w
  <2>1. \A k \in Len(s) + 1 .. Len(both) : both[k] \in Byte
    BY <1>1
  <2>2. /\ back \in Seq(Byte) /\ Len(back) = Len(w)
        /\ \A k \in 1 .. Len(w) : back[k] = both[Len(s) + k]
    BY <1>1, <1>3, <2>1, SubSeqProperties
  <2> QED
    BY <1>1, <2>2, SeqEqual
<1> QED
  BY <1>1, <1>2, <1>3, <1>4, <1>5

LEMMA SameWellFormed ==
  /\ \A s : Decoder!WellFormed(s) => DP!WellFormed(s)
  /\ \A s : Decoder!BeginsWellFormed(s) => DP!BeginsWellFormed(s)
<1>1. Decoder!TailByte = DP!TailByte
  BY DEF Decoder!TailByte, DP!TailByte
<1>2. Decoder!WellFormedRows = DP!WellFormedRows
  BY <1>1, Zenon DEF Decoder!WellFormedRows, DP!WellFormedRows
<1> QED
  BY <1>2, Zenon
  DEF Decoder!WellFormed, DP!WellFormed, Decoder!BeginsWellFormed, DP!BeginsWellFormed,
      Decoder!FitsRow, DP!FitsRow

\* What the decoder has refused.
LEMMA Refused ==
  ASSUME TextInv, at = "close", c.kind = "Err", ~optional_failure
  PROVE  /\ sequence # <<>> /\ ~Decoder!WellFormed(sequence)
         /\ Decoder!BeginsWellFormed(sequence) => InputRead
<1>1. DP!Outcome /\ DP!WellFormedAccepted
  BY OctetAssumption, DP!Accepted, Zenon DEF TextInv, PartsInv, DecoderInv, DP!Inv
<1>2. /\ c = Decoder!Err("premature_EOF") => InputRead /\ sequence # <<>>
      /\ c # Decoder!Err("stream")
  BY DEF TextInv, EndOK
<1>3. DP!Err("premature_EOF") = Decoder!Err("premature_EOF")
      /\ DP!Err("stream") = Decoder!Err("stream")
  BY DEF DP!Err, Decoder!Err
<1>4. \/ c = Decoder!Err("premature_EOF")
      \/ c = DP!Err("start_byte") /\ Len(sequence) = 1
      \/ c = DP!Err("continuation_byte") /\ Len(sequence) >= 2
      \/ c = DP!Err("codepoint") /\ DP!Complete(sequence)
  <2>1. \A v : DP!Some(v).kind = "Some" /\ DP!NoResult.kind = "none"
               /\ [kind |-> "None"].kind = "None"
    BY DEF DP!Some, DP!NoResult
  <2> QED
    BY <1>1, <1>2, <1>3, <2>1, Zenon DEF DP!Outcome
<1>5. sequence # <<>>
  <2>1. DP!Complete(sequence) => Len(sequence) >= 1
    BY DEF DP!Complete, DP!Sequence
  <2>2. Len(<<>>) = 0
    OBVIOUS
  <2> QED
    BY <1>2, <1>4, <2>1, <2>2
<1>6. c \notin [kind : {"Some"}, value : 0 .. DP!MaxCodepoint]
  OBVIOUS
<1>7. c = Decoder!Err("premature_EOF")
      \/ c \in [kind : {"Err"}, reason : {"start_byte", "continuation_byte", "codepoint"}]
  BY <1>4 DEF DP!Err
<1> QED
  BY <1>1, <1>2, <1>5, <1>6, <1>7, SameWellFormed, Zenon DEF DP!WellFormedAccepted

LEMMA FailureInv == TextInv => FailureIsAtFirstFault
<1> SUFFICES ASSUME TextInv, at = "close", printed.type = "utf-8-failure"
             PROVE  FailureIsAtFirstFault
  BY Zenon DEF FailureIsAtFirstFault
<1>1. c.kind = "Err"
  BY DEF TextInv, EndOK
<1>2. PICK s \in Seq(Byte) : IsTextOf(text, s) /\ got = s \o sequence
  BY ReadAtClose, Zenon
<1>3. PICK k : k = Len(s)
  OBVIOUS
<1>4. /\ k \in 0 .. Len(got) /\ SubSeq(got, 1, k) = s
      /\ SubSeq(got, k + 1, Len(got)) = sequence
  <2>1. sequence \in Seq(Byte)
    BY TextTypes DEF TextInv
  <2>2. /\ Len(s) \in 0 .. Len(got) /\ SubSeq(got, 1, Len(s)) = s
        /\ SubSeq(got, Len(s) + 1, Len(got)) = sequence
    BY <1>2, <2>1, BothParts
  <2> QED
    BY <1>3, <2>2, Zenon
<1>5. optional_failure \/ /\ sequence # <<>> /\ ~Decoder!WellFormed(sequence)
                          /\ Decoder!BeginsWellFormed(sequence) => InputEnded
  BY <1>1, Refused, AllHandedOut, Zenon DEF TextInv
<1> QED
  BY <1>2, <1>4, <1>5, Zenon DEF FailureIsAtFirstFault

\* If main prints a utf-8-failure record, the text that was counted is what was
\* read in front of the first fault: the bytes read behind it are no well-formed
\* sequence, either by themselves or because the input ends in the middle of
\* one, or read() failed there.
THEOREM FailsAtFirstFault == Spec => []FailureIsAtFirstFault
BY TextIsKept, FailureInv, PTL
=============================================================================
