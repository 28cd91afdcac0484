------------------------------ MODULE Program ------------------------------
(***************************************************************************)
(* main() of utf-8-lineseparator.c: one input is opened, read through      *)
(* get_unicodechar by report(), closed and released, and the exit code     *)
(* tells how that went.  The modules BufferedStream, Unicode and Report    *)
(* run together here: every byte the decoder takes is the result of a call *)
(* of getc, every iteration of report takes a result of the decoder.       *)
(*                                                                         *)
(* `at' is the place main has reached.  While a call of the stream runs,   *)
(* pc (of BufferedStream) is not "ready", and main waits for it.           *)
(*                                                                         *)
(* A run for AFL++ goes through a loop, one test case after the other in   *)
(* one process: the locals of the loop's body are new each time, the count *)
(* of the allocations lives on.  monkey_init copies MONKEY_INIT_LEN, that  *)
(* is 0, bytes of the test case, and monkey_release frees the copy.        *)
(***************************************************************************)
EXTENDS Integers, Sequences, FiniteSets

CONSTANTS
  Byte, Uninit, None, BufferSize, EintrCloses,  \* see BufferedStream
  MaxInput, MaxFailures,                        \* bounds, see BufferedStream
  MaxTestcases,    \* bound: number of test cases of a run for AFL
  CopiedMessages   \* the messages of the decoder that copy_String allocates

\* What BufferedStream and Unicode assume.
ASSUME ByteAssumption ==
  Byte # {} /\ Byte \subseteq 0 .. 255 /\ Uninit \notin Byte /\ None \notin Byte
ASSUME BufferSizeAssumption == BufferSize \in Nat \ {0}
ASSUME ChoiceAssumption == EintrCloses \subseteq BOOLEAN
ASSUME BoundAssumption == MaxInput \in Nat /\ MaxFailures \in Nat /\ MaxTestcases \in Nat

VARIABLES
  \* Of BufferedStream.
  buffer, is_closed, direction, stream_type, optional_fd, is_exhausted,
  optional_failure, owned, input, offset, output, fd_open, pc, op, arg, result,
  active_allocs, got, accepted, failures,
  \* Of Unicode; c is its result, in report().
  codepoint, numbytes, i, c, sequence,
  \* Of Report.
  charcount, LFcount, CRcount, CRLFcount, column, last_was_CR, printed, text,
  \* Of main.
  at,
  c_heap,      \* is c an Err whose string needs freeing?
  exit_code,   \* res, the value main returns
  testcases    \* number of test cases the loop for AFL has begun

Stream == INSTANCE BufferedStream
            WITH Directions <- {{"IN"}}, StreamTypes <- {"BUFFERSTREAM", "FILESTREAM"},
                 NameOwned <- {FALSE},
                 MaxInput <- [dir \in {{"IN"}} |-> MaxInput],
                 MaxPut <- [dir \in {{"IN"}} |-> 0]

Decoder == INSTANCE Unicode WITH result <- c, bytes <- sequence

\* The code points the decoder returns.
Char == 0 .. Decoder!MaxCodepoint

Reporter == INSTANCE Report
              WITH CR <- 13, LF <- 10, MaxText <- MaxInput

mainVars == <<at, c_heap, exit_code, testcases>>

\* All of the stream but the result its client holds and the allocations.
streamButResult ==
  <<buffer, is_closed, direction, stream_type, optional_fd, is_exhausted,
    optional_failure, owned, input, offset, output, fd_open, pc, op, arg, got, accepted,
    failures>>
streamVars == <<streamButResult, result, active_allocs>>
decoderVars == <<codepoint, numbytes, i, c, sequence>>
reportVars ==
  <<charcount, LFcount, CRcount, CRLFcount, column, last_was_CR, printed, text>>
vars == <<streamVars, decoderVars, reportVars, mainVars>>

Init ==
  /\ Stream!Init /\ Decoder!Init /\ Reporter!Init
  /\ at = "start" /\ c_heap = FALSE /\ exit_code = 0 /\ testcases = 0

-----------------------------------------------------------------------------
(* The start of main *)

\* argc == 1
ReadStdin ==
  /\ at = "start"
  /\ Stream!fd_BufferedStream(Stream!STREAM_IN, FALSE)
  /\ at' = "decode"
  /\ UNCHANGED <<decoderVars, reportVars, c_heap, exit_code, testcases>>

\* argc == 2; the string of a failure is released after the warning.
ReadFile ==
  /\ at = "start"
  /\ Stream!open_BufferedStream(Stream!STREAM_IN, FALSE)
  /\ at' = IF result'.is_err THEN "open_failed" ELSE "decode"
  /\ UNCHANGED <<decoderVars, reportVars, c_heap, exit_code, testcases>>

OpenFailed ==
  /\ at = "open_failed"
  /\ result' = Stream!Ok(None)
  /\ active_allocs' = active_allocs - Stream!HeldBy(result)
  /\ exit_code' = 1
  /\ at' = "verify"
  /\ UNCHANGED <<streamButResult, decoderVars, reportVars, c_heap, testcases>>

\* More arguments.
Usage ==
  /\ at = "start"
  /\ exit_code' = 1
  /\ at' = "verify"
  /\ UNCHANGED <<streamVars, decoderVars, reportVars, c_heap, testcases>>

-----------------------------------------------------------------------------
(* The loop for AFL *)

InLoop == testcases > 0

\* The locals of an iteration are gone with it: `in', and those of report and
\* of get_unicodechar.
NewLocals ==
  /\ buffer' = Stream!Buffer_from_buf([k \in {} |-> Uninit], 0)
  /\ is_closed' = FALSE /\ direction' = {} /\ stream_type' = "FILESTREAM"
  /\ pc' = "none" /\ op' = "open" /\ input' = <<>> /\ offset' = 0 /\ got' = <<>>
  /\ codepoint' = 0 /\ numbytes' = 0 /\ i' = 0 /\ c' = Decoder!NoResult /\ sequence' = <<>>
  /\ charcount' = 0 /\ LFcount' = 0 /\ CRcount' = 0 /\ CRLFcount' = 0 /\ column' = 0
  /\ last_was_CR' = FALSE /\ printed' = [type |-> "none"] /\ text' = <<>>
  /\ UNCHANGED <<optional_fd, is_exhausted, optional_failure, owned, output, fd_open, arg,
                 result, accepted, failures, c_heap, exit_code>>

\* __AFL_LOOP has a first test case, and more.
monkey_init ==
  /\ at \in {"start", "loop"} /\ testcases < MaxTestcases
  /\ active_allocs' = active_allocs + 1
  /\ testcases' = testcases + 1
  /\ NewLocals
  /\ at' = "test_case"

\* The test case is a buffer of the fuzzer.
ReadTestcase ==
  /\ at = "test_case"
  /\ \E n \in 0 .. MaxInput : \E array \in [1 .. n -> Byte] :
        Stream!Buffer_to_BufferedStream(Stream!STREAM_IN, array, TRUE, FALSE, FALSE)
  /\ at' = "decode"
  /\ UNCHANGED <<decoderVars, reportVars, c_heap, exit_code, testcases>>

monkey_release ==
  /\ at = "monkey_release"
  /\ active_allocs' = active_allocs - 1
  /\ at' = "verify"
  /\ UNCHANGED <<streamButResult, result, decoderVars, reportVars, c_heap, exit_code,
                 testcases>>

\* main returns 0, whatever report found.
LoopEnds ==
  /\ at = "loop"
  /\ at' = "exit" /\ exit_code' = 0
  /\ UNCHANGED <<streamVars, decoderVars, reportVars, c_heap, testcases>>

-----------------------------------------------------------------------------
(* get_unicodechar *)

CallGetc ==
  /\ at = "decode"
  /\ Stream!Call("getc", None)
  /\ at' = "getc"
  /\ UNCHANGED <<decoderVars, reportVars, c_heap, exit_code, testcases>>

GetcReturned == at = "getc" /\ pc = "ready"

\* The decoder has come to its result c, whose message may be a copy.
Copies ==
  /\ c_heap' = (c'.kind = "Err" /\ c'.reason \in CopiedMessages)
  /\ active_allocs' = active_allocs + (IF c_heap' THEN 1 ELSE 0)

TakeByte ==
  /\ GetcReturned /\ ~result.is_err /\ result.value # None
  /\ Decoder!StartByte(result.value) \/ Decoder!ContinuationByte(result.value)
  /\ at' = IF c' = Decoder!NoResult THEN "decode" ELSE "report"
  /\ IF at' = "report" THEN Copies ELSE UNCHANGED <<c_heap, active_allocs>>
  /\ UNCHANGED <<streamButResult, result, reportVars, exit_code, testcases>>

TakeEnd ==
  /\ GetcReturned /\ ~result.is_err /\ result.value = None
  /\ Decoder!EndOfStream
  /\ at' = "report"
  /\ Copies
  /\ UNCHANGED <<streamButResult, result, reportVars, exit_code, testcases>>

\* Mutant: without PROPAGATE_return a failure looks like the end.
TakeErr_AsEnd ==
  /\ GetcReturned /\ result.is_err
  /\ Decoder!EndOfStream
  /\ at' = "report"
  /\ UNCHANGED <<streamVars, reportVars, c_heap, exit_code, testcases>>

\* PROPAGATE_return: the string goes from the result of getc to c.
TakeErr ==
  /\ GetcReturned /\ result.is_err
  /\ Decoder!StreamFails
  /\ at' = "report"
  /\ c_heap' = result.heap
  /\ result' = Stream!Ok(None)
  /\ UNCHANGED <<streamButResult, active_allocs, reportVars, exit_code, testcases>>

-----------------------------------------------------------------------------
(* report *)

\* Mutant: the place in a sequence outlives the call.
NextSequence_GoesOn ==
  /\ codepoint' = 0
  /\ c' = Decoder!NoResult
  /\ sequence' = <<>>
  /\ UNCHANGED <<numbytes, i>>

\* The next call of get_unicodechar starts with locals of its own.
NextSequence ==
  /\ codepoint' = 0 /\ numbytes' = 0 /\ i' = 0
  /\ c' = Decoder!NoResult
  /\ sequence' = <<>>

CountChar ==
  /\ at = "report" /\ c.kind = "Some"
  /\ \/ c.value = 13 /\ Reporter!CarriageReturn
     \/ c.value = 10 /\ Reporter!LineFeed
     \/ Reporter!OtherChar(c.value)
  /\ NextSequence
  /\ at' = "decode"
  /\ UNCHANGED <<streamVars, c_heap, exit_code, testcases>>

ReportCounts ==
  /\ at = "report" /\ c.kind = "None"
  /\ Reporter!EndOfText
  /\ at' = "close"
  /\ UNCHANGED <<streamVars, decoderVars, c_heap, exit_code, testcases>>

\* Mutant: a literal message is freed, too.
ReportFailure_FreesLiteral ==
  /\ at = "report" /\ c.kind = "Err"
  /\ Reporter!Failure
  /\ active_allocs' = active_allocs - 1
  /\ c_heap' = FALSE
  /\ at' = "close"
  /\ UNCHANGED <<streamButResult, result, decoderVars, exit_code, testcases>>

\* Mutant: report does not release the result of get_unicodechar.
ReportFailure_Keeps ==
  /\ at = "report" /\ c.kind = "Err"
  /\ Reporter!Failure
  /\ c_heap' = FALSE
  /\ at' = "close"
  /\ UNCHANGED <<streamButResult, result, active_allocs, decoderVars, exit_code, testcases>>

ReportFailure ==
  /\ at = "report" /\ c.kind = "Err"
  /\ Reporter!Failure
  /\ active_allocs' = active_allocs - (IF c_heap THEN 1 ELSE 0)
  /\ c_heap' = FALSE
  /\ at' = "close"
  /\ UNCHANGED <<streamButResult, result, decoderVars, exit_code, testcases>>

-----------------------------------------------------------------------------
(* The end of main *)

CallClose ==
  /\ at = "close"
  /\ Stream!Call("close", None)
  /\ at' = "release"
  /\ UNCHANGED <<decoderVars, reportVars, c_heap, exit_code, testcases>>

\* Mutant: a failure of close does not reach the exit code.
ExitCodeOfClose_Ignores == 0

\* The result of report is always 0; the run for AFL ignores that of close.
ExitCodeOfClose ==
  IF result.is_err /\ ~InLoop THEN 1 ELSE 0

\* The result of close and the stream are released; release aborts if the
\* stream is not closed.
Release ==
  /\ at = "release" /\ pc = "ready"
  /\ Stream!BufferedStream_release
  /\ exit_code' = ExitCodeOfClose
  /\ at' = IF pc' = "aborted" THEN "aborted"
           ELSE IF InLoop THEN "monkey_release" ELSE "verify"
  /\ UNCHANGED <<decoderVars, reportVars, c_heap, testcases>>

\* A leak aborts the run for AFL, otherwise it is only warned of.
leakcheck_verify ==
  /\ at = "verify"
  /\ at' = IF ~InLoop THEN "exit" ELSE IF active_allocs # 0 THEN "aborted" ELSE "loop"
  /\ UNCHANGED <<streamVars, decoderVars, reportVars, c_heap, exit_code, testcases>>

-----------------------------------------------------------------------------

Main ==
  \/ ReadStdin \/ ReadFile \/ OpenFailed \/ Usage
  \/ monkey_init \/ ReadTestcase \/ monkey_release \/ LoopEnds
  \/ CallGetc \/ TakeByte \/ TakeEnd \/ TakeErr
  \/ CountChar \/ ReportCounts \/ ReportFailure
  \/ CallClose \/ Release \/ leakcheck_verify

StreamProgress ==
  /\ Stream!Progress
  /\ UNCHANGED <<decoderVars, reportVars, mainVars>>

\* Signals, and other processes that append to the file.
Environment ==
  /\ Stream!SysCloseInterrupted \/ \E b \in Byte : Stream!FileGrows(b)
  /\ UNCHANGED <<decoderVars, reportVars, mainVars>>

Exited == at \in {"exit", "aborted"} /\ UNCHANGED vars

Next == Main \/ StreamProgress \/ Environment \/ Exited

Spec == Init /\ [][Next]_vars

\* main runs, and system calls that were interrupted come to an end.
FairSpec == Spec /\ WF_vars(Main) /\ WF_vars(StreamProgress)

-----------------------------------------------------------------------------
(* Properties *)

Places == {"start", "open_failed", "decode", "getc", "report", "close", "release",
           "verify", "exit", "aborted", "loop", "test_case", "monkey_release"}

TypeOK ==
  /\ Stream!TypeOK /\ Decoder!TypeOK /\ Reporter!TypeOK
  /\ at \in Places /\ c_heap \in BOOLEAN /\ exit_code \in {0, 1}
  /\ testcases \in 0 .. MaxTestcases

\* The bytes s are the characters of t, one behind the other and each in one of
\* its forms: end[k] is the number of bytes up to the k-th character's last.
IsTextOf(t, s) ==
  \E end \in [0 .. Len(t) -> 0 .. Len(s)] :
    /\ end[0] = 0 /\ end[Len(t)] = Len(s)
    /\ \A k \in 1 .. Len(t) :
         \E n \in 1 .. 4 : /\ end[k] = end[k - 1] + n
                          /\ SubSeq(s, end[k - 1] + 1, end[k]) = Decoder!Form(t[k], n)

\* getc has nothing left to return, now or later.
InputEnded == offset = Len(got) /\ Stream!AtEnd

\* A linecount record is about the whole input: all bytes that were read were
\* decoded and counted once and in their order, up to an end that was met, and
\* no failing read was taken for the end.
LinecountIsOfWholeInput ==
  at = "close" /\ printed.type = "linecount" =>
    /\ IsTextOf(text, got) /\ got = SubSeq(input, 1, offset)
    /\ InputEnded
    /\ ~optional_failure

\* A utf-8-failure record is printed at the first place that is no text: what
\* is in front of it was decoded and counted, and what was read there is not
\* well-formed, is cut off by the end of the input, or by a failing read.
FailureIsAtFirstFault ==
  at = "close" /\ printed.type = "utf-8-failure" =>
    \E k \in 0 .. Len(got) :
      LET rest == SubSeq(got, k + 1, Len(got)) IN
      /\ IsTextOf(text, SubSeq(got, 1, k))
      /\ rest = sequence
      /\ \/ optional_failure
         \/ /\ rest # <<>> /\ ~Decoder!WellFormed(rest)
            /\ Decoder!BeginsWellFormed(rest) => InputEnded

\* A program that exits with 0 has printed a record, and has met no failure of
\* the system that is not in it; a program that exits with 1 has printed none,
\* or has met a failure of the system.
ExitCodeTellsFailure ==
  at = "exit" =>
    /\ exit_code = 0 =>
         /\ printed.type # "none"
         /\ optional_failure => printed.type = "utf-8-failure" /\ failures = 1
    /\ exit_code = 1 => printed.type = "none" \/ (optional_failure /\ failures > 0)

\* The leak check finds nothing, with at most one failure of the system, and
\* the program neither aborts nor exits with its file open.
ExitIsClean ==
  /\ at = "exit" => ~fd_open /\ (failures <= 1 => active_allocs = 0)
  /\ at # "aborted"

\* main comes to its end, over interrupted system calls and a file that grows
\* for a while.
Terminates == <>(at = "exit")
=============================================================================
