------------------------- MODULE TestBufferedStream -------------------------
(***************************************************************************)
(* test_BufferedStream_1 (test_BufferedStream.h), as main of test.c runs   *)
(* it: two streams, one after the other, over one file.  The first writes  *)
(* what the second reads back; they share the file, the count of the       *)
(* allocations and the system that may fail.  Each is an instance of       *)
(* BufferedStream, with w_ and r_ in front of the variables of its own.    *)
(*                                                                         *)
(* The client is a C function with the error handling of Result.h: labels  *)
(* that clean up on the way out (PROPAGATE_goto, RETURN_goto), and blocks  *)
(* that do (if_Ok, if_let_Ok).  `at' is the label or the statement it has  *)
(* reached.  While a stream runs, its pc is not "ready" and the test waits.*)
(***************************************************************************)
EXTENDS Integers, Sequences

CONSTANTS
  Byte, Uninit, None, BufferSize, EintrCloses, MaxFailures,  \* see BufferedStream
  buf          \* the bytes the test writes, TBUFSIZ of them

TBUFSIZ == Len(buf)

ASSUME ByteAssumption == Byte # {} /\ Uninit \notin Byte /\ None \notin Byte
ASSUME BufferSizeAssumption == BufferSize \in Nat \ {0}
ASSUME ChoiceAssumption == EintrCloses \subseteq BOOLEAN
ASSUME BoundAssumption == MaxFailures \in Nat
ASSUME BufAssumption == buf \in Seq(Byte)

VARIABLES
  \* Of rs, the stream that writes.
  w_buffer, w_is_closed, w_owned, w_optional_fd, w_is_exhausted, w_optional_failure,
  w_fd_open, w_pc, w_op, w_arg, w_result, w_accepted,
  \* Of s2, the stream that reads.
  r_buffer, r_is_closed, r_owned, r_optional_fd, r_is_exhausted, r_optional_failure,
  r_fd_open, r_pc, r_op, r_arg, r_result, r_offset, r_got,
  \* What the streams share: the content of .test.out, and see BufferedStream.
  file, active_allocs, failures,
  \* Of the test and of main.
  at,
  i,           \* of the loops of the test
  __return,    \* what the test returns: an Err, and whether its string was freed
  stats, exit_code,
  dropped      \* history: strings of results that nobody looked at or released

Writer == INSTANCE BufferedStream
  WITH buffer <- w_buffer, is_closed <- w_is_closed, direction <- {"OUT"},
       stream_type <- "FILESTREAM", owned <- w_owned, optional_fd <- w_optional_fd,
       is_exhausted <- w_is_exhausted, optional_failure <- w_optional_failure,
       input <- <<>>, offset <- 0, output <- file, fd_open <- w_fd_open,
       pc <- w_pc, op <- w_op, arg <- w_arg, result <- w_result,
       got <- <<>>, accepted <- w_accepted,
       Directions <- {{"OUT"}}, StreamTypes <- {"FILESTREAM"}, NameOwned <- {FALSE},
       MaxInput <- [dir \in {{"OUT"}} |-> 0], MaxPut <- [dir \in {{"OUT"}} |-> TBUFSIZ]

Reader == INSTANCE BufferedStream
  WITH buffer <- r_buffer, is_closed <- r_is_closed, direction <- {"IN"},
       stream_type <- "FILESTREAM", owned <- r_owned, optional_fd <- r_optional_fd,
       is_exhausted <- r_is_exhausted, optional_failure <- r_optional_failure,
       input <- file, offset <- r_offset, output <- <<>>, fd_open <- r_fd_open,
       pc <- r_pc, op <- r_op, arg <- r_arg, result <- r_result,
       got <- r_got, accepted <- <<>>,
       Directions <- {{"IN"}}, StreamTypes <- {"FILESTREAM"}, NameOwned <- {FALSE},
       MaxInput <- [dir \in {{"IN"}} |-> TBUFSIZ + 1], MaxPut <- [dir \in {{"IN"}} |-> 0]

\* Each stream but the result that the test holds of it.
writerButResult ==
  <<w_buffer, w_is_closed, w_owned, w_optional_fd, w_is_exhausted, w_optional_failure,
    w_fd_open, w_pc, w_op, w_arg, w_accepted>>
readerButResult ==
  <<r_buffer, r_is_closed, r_owned, r_optional_fd, r_is_exhausted, r_optional_failure,
    r_fd_open, r_pc, r_op, r_arg, r_offset, r_got>>
writerVars == <<writerButResult, w_result>>
readerVars == <<readerButResult, r_result>>
sharedVars == <<file, active_allocs, failures>>
mainVars   == <<stats, exit_code, dropped>>
testVars   == <<at, i, __return, mainVars>>
vars == <<writerVars, readerVars, sharedVars, testVars>>

Init ==
  /\ w_buffer = Writer!Buffer_from_buf([k \in {} |-> Uninit], 0)
  /\ w_is_closed = FALSE /\ w_owned = {} /\ w_optional_fd = "FD_NONE"
  /\ w_is_exhausted = FALSE /\ w_optional_failure = FALSE /\ w_fd_open = FALSE
  /\ w_pc = "none" /\ w_op = "open" /\ w_arg = None /\ w_result = Writer!Ok(None)
  /\ w_accepted = <<>>
  /\ r_buffer = w_buffer
  /\ r_is_closed = FALSE /\ r_owned = {} /\ r_optional_fd = "FD_NONE"
  /\ r_is_exhausted = FALSE /\ r_optional_failure = FALSE /\ r_fd_open = FALSE
  /\ r_pc = "none" /\ r_op = "open" /\ r_arg = None /\ r_result = Reader!Ok(None)
  /\ r_offset = 0 /\ r_got = <<>>
  /\ file = <<>> /\ active_allocs = 0 /\ failures = 0
  /\ at = "open" /\ i = 0
  /\ __return = [is_err |-> FALSE, heap |-> FALSE, freed |-> FALSE]
  /\ stats = [successes |-> 0, failures |-> 0] /\ exit_code = 0 /\ dropped = 0

-----------------------------------------------------------------------------
(* The macros of Result.h *)

\* Err(Unit, r.err), with the string of r; freed if r was released thereafter.
ErrOf(r, freed) == [is_err |-> TRUE, heap |-> r.heap, freed |-> freed]
Literal == [is_err |-> TRUE, heap |-> FALSE, freed |-> FALSE]
OkUnit  == [is_err |-> FALSE, heap |-> FALSE, freed |-> FALSE]

RETURN(val) == __return' = val

\* Mutant: both the local result and __return own the string.
GivenAway_Shared(r) == r

\* r.err.needs_freeing = false; also a result that is dropped unreleased.
GivenAway(r) == [r EXCEPT !.heap = FALSE]

\* PROPAGATE_goto(label, Unit, r) of an Err: the string is now __return's.
WriterPropagates(label) ==
  /\ w_result.is_err
  /\ RETURN(ErrOf(w_result, FALSE))
  /\ w_result' = GivenAway(w_result)
  /\ at' = label
  /\ UNCHANGED <<writerButResult, readerVars, sharedVars, i, mainVars>>

ReaderPropagates(label) ==
  /\ r_result.is_err
  /\ RETURN(ErrOf(r_result, FALSE))
  /\ r_result' = GivenAway(r_result)
  /\ at' = label
  /\ UNCHANGED <<readerButResult, writerVars, sharedVars, i, mainVars>>

\* if_Ok and if_let_Ok of an Err: the string is __return's, and is freed.
if_Ok_Err(r) ==
  /\ r.is_err
  /\ RETURN(ErrOf(r, r.heap))
  /\ active_allocs' = active_allocs - Writer!HeldBy(r)
  /\ UNCHANGED <<file, failures, i, mainVars>>

-----------------------------------------------------------------------------
(* test_BufferedStream_1: the stream that writes *)

\* The test calls an operation of a stream, and waits for it at `place'.
CallWriter(operation, c, place) ==
  /\ Writer!Call(operation, c)
  /\ at' = place
  /\ UNCHANGED <<readerVars, i, __return, mainVars>>

WriterReturned(place) == at = place /\ w_pc = "ready"

Open ==
  /\ at = "open"
  /\ Writer!open_BufferedStream({"OUT"}, FALSE)
  /\ at' = "opened"
  /\ UNCHANGED <<readerVars, i, __return, mainVars>>

\* The stream of a file that cannot be opened: label rs treats it as a stream.
OpenFailed == at = "opened" /\ WriterPropagates("rs_err")

\* A write-only stream is asked for a byte.
GetcMustFail ==
  /\ at = "opened" /\ ~w_result.is_err
  /\ CallWriter("getc", None, "rmc0")

\* TEST_ASSERT
Counted(ok) ==
  IF ok THEN [stats EXCEPT !.successes = @ + 1] ELSE [stats EXCEPT !.failures = @ + 1]

\* The Err must be there, and be the one about the direction.
AssertRefused ==
  /\ WriterReturned("rmc0")
  /\ stats' = IF w_result.is_err
              THEN [stats EXCEPT !.successes = @ + (IF w_is_closed THEN 1 ELSE 2),
                                 !.failures  = @ + (IF w_is_closed THEN 1 ELSE 0)]
              ELSE Counted(FALSE)
  /\ at' = "putc"
  /\ UNCHANGED <<writerVars, readerVars, sharedVars, i, __return, exit_code, dropped>>

Putc ==
  /\ at = "putc" /\ i < TBUFSIZ
  /\ CallWriter("putc", buf[i + 1], "ru")

PutcOk ==
  /\ WriterReturned("ru") /\ ~w_result.is_err
  /\ at' = "putc" /\ i' = i + 1
  /\ UNCHANGED <<writerVars, readerVars, sharedVars, __return, mainVars>>

PutcFailed == WriterReturned("ru") /\ WriterPropagates("rs")

CloseWriter ==
  /\ at = "putc" /\ i = TBUFSIZ
  /\ CallWriter("close", None, "if_Ok")

CloseFailed ==
  /\ WriterReturned("if_Ok")
  /\ if_Ok_Err(w_result)
  /\ w_result' = GivenAway(w_result)
  /\ at' = "rs"
  /\ UNCHANGED <<writerButResult, readerVars>>

-----------------------------------------------------------------------------
(* The stream that reads back *)

CallReader(operation, place) ==
  /\ Reader!Call(operation, None)
  /\ at' = place
  /\ UNCHANGED <<writerVars, i, __return, mainVars>>

ReaderReturned(place) == at = place /\ r_pc = "ready"

OpenReader ==
  /\ WriterReturned("if_Ok") /\ ~w_result.is_err
  /\ Reader!open_BufferedStream({"IN"}, FALSE)
  /\ at' = "if_let_Ok" /\ i' = 0
  /\ UNCHANGED <<writerVars, __return, mainVars>>

OpenReaderFailed ==
  /\ at = "if_let_Ok"
  /\ if_Ok_Err(r_result)
  /\ r_result' = GivenAway(r_result)
  /\ at' = "rs"
  /\ UNCHANGED <<readerButResult, writerVars>>

Getc ==
  /\ at = "if_let_Ok" /\ ~r_result.is_err
  /\ CallReader("getc", "getc")

GetcFailed == ReaderReturned("getc") /\ ReaderPropagates("rmc")

\* Mutant: nobody asks for the end of the file.
AsWritten_NoEnd(v) == IF i < TBUFSIZ THEN v = buf[i + 1] ELSE TRUE

\* The i-th result of getc is the i-th byte of the test, and an end follows.
AsWritten(v) == v = IF i < TBUFSIZ THEN buf[i + 1] ELSE None

GetcNext ==
  /\ ReaderReturned("getc") /\ ~r_result.is_err
  /\ i < TBUFSIZ /\ AsWritten(r_result.value)
  /\ i' = i + 1
  /\ Reader!Call("getc", None)
  /\ UNCHANGED <<at, writerVars, __return, mainVars>>

\* "bug: file is too small", "rmc.ok.value == buf[i] failed", "bug: file is
\* too large"
GetcWrong ==
  /\ ReaderReturned("getc") /\ ~r_result.is_err /\ ~AsWritten(r_result.value)
  /\ RETURN(Literal)
  /\ at' = "rmc"
  /\ UNCHANGED <<readerVars, writerVars, sharedVars, i, mainVars>>

CloseReader ==
  /\ ReaderReturned("getc") /\ ~r_result.is_err
  /\ i = TBUFSIZ /\ AsWritten(r_result.value)
  /\ CallReader("close", "ru3")

CloseReaderFailed == ReaderReturned("ru3") /\ ReaderPropagates("rmc")

CloseReaderOk ==
  /\ ReaderReturned("ru3") /\ ~r_result.is_err
  /\ RETURN(OkUnit)
  /\ at' = "rmc"
  /\ UNCHANGED <<readerVars, writerVars, sharedVars, i, mainVars>>

-----------------------------------------------------------------------------
(* The labels, on the way out *)

rmc == at = "rmc" /\ CallReader("close", "release_s2")

\* The result of the second close is dropped, with its string if it has one.
DropReaderClose ==
  /\ ReaderReturned("release_s2") /\ r_result.heap
  /\ r_result' = GivenAway(r_result)
  /\ dropped' = dropped + 1
  /\ UNCHANGED <<readerButResult, writerVars, sharedVars, at, i, __return, stats, exit_code>>

ReleaseReader ==
  /\ ReaderReturned("release_s2") /\ ~r_result.heap
  /\ Reader!BufferedStream_release
  /\ at' = IF r_pc' = "aborted" THEN "aborted" ELSE "rs"
  /\ UNCHANGED <<writerVars, i, __return, mainVars>>

rs == at = "rs" /\ CallWriter("close", None, "release_rs")

DropWriterClose ==
  /\ WriterReturned("release_rs") /\ w_result.heap
  /\ w_result' = GivenAway(w_result)
  /\ dropped' = dropped + 1
  /\ UNCHANGED <<writerButResult, readerVars, sharedVars, at, i, __return, stats, exit_code>>

ReleaseWriter ==
  /\ WriterReturned("release_rs") /\ ~w_result.heap
  /\ Writer!BufferedStream_release
  /\ at' = IF w_pc' = "aborted" THEN "aborted" ELSE "CHECK"
  /\ UNCHANGED <<readerVars, i, __return, mainVars>>

\* rs is an Err, but its union is read as a stream: close and release find
\* what they find there, and abort, or come back.
rs_Union ==
  /\ at = "rs_err"
  /\ at' \in {"aborted", "CHECK"}
  /\ UNCHANGED <<writerVars, readerVars, sharedVars, i, __return, mainVars>>

-----------------------------------------------------------------------------
(* main of test.c *)

\* Result_release of __return
Released(r) == IF r.heap THEN 1 ELSE 0

\* CHECK: the failure is counted, and the string is freed, perhaps once more;
\* the C library may notice.
CHECK ==
  /\ at = "CHECK"
  /\ stats' = IF __return.is_err THEN Counted(FALSE) ELSE stats
  /\ \/ /\ at' = "leakcheck_verify"
        /\ active_allocs' = active_allocs - Released(__return)
     \/ /\ __return.freed
        /\ at' = "aborted"
        /\ UNCHANGED active_allocs
  /\ UNCHANGED <<writerVars, readerVars, file, failures, i, __return, exit_code, dropped>>

\* A leak is reported, and the issues of the tests make the exit code.
ExitWithIssues ==
  /\ at = "leakcheck_verify"
  /\ at' = "exit"
  /\ exit_code' = IF stats.failures # 0 THEN 1 ELSE 0
  /\ UNCHANGED <<writerVars, readerVars, sharedVars, i, __return, stats, dropped>>

-----------------------------------------------------------------------------

Test ==
  \/ Open \/ OpenFailed \/ GetcMustFail \/ AssertRefused
  \/ Putc \/ PutcOk \/ PutcFailed \/ CloseWriter \/ CloseFailed
  \/ OpenReader \/ OpenReaderFailed \/ Getc \/ GetcFailed \/ GetcNext \/ GetcWrong
  \/ CloseReader \/ CloseReaderFailed \/ CloseReaderOk
  \/ rmc \/ DropReaderClose \/ ReleaseReader
  \/ rs \/ DropWriterClose \/ ReleaseWriter \/ rs_Union
  \/ CHECK \/ ExitWithIssues

StreamProgress ==
  \/ Writer!Progress /\ UNCHANGED <<readerVars, testVars>>
  \/ Reader!Progress /\ UNCHANGED <<writerVars, testVars>>

\* A signal arrives during a close(), or another process appends to the file
\* that is read back.
Environment ==
  \/ Writer!SysCloseInterrupted /\ UNCHANGED <<readerVars, testVars>>
  \/ /\ Reader!SysCloseInterrupted \/ \E b \in Byte : Reader!FileGrows(b)
     /\ UNCHANGED <<writerVars, testVars>>

Exited == at \in {"exit", "aborted"} /\ UNCHANGED vars

Next == Test \/ StreamProgress \/ Environment \/ Exited

Spec == Init /\ [][Next]_vars

\* The program runs, and signals do not arrive forever.
FairSpec == Spec /\ WF_vars(Test) /\ WF_vars(StreamProgress)

-----------------------------------------------------------------------------
(* Properties *)

\* open, read, write or close has failed.
SystemFailed ==
  \/ failures > 0
  \/ w_pc = "released" /\ ~w_is_closed
  \/ r_pc = "released" /\ ~r_is_closed

\* The program reports no issue only if the second stream has read what the
\* test put into the first one, to the end and with no failure on the way that
\* some result kept to itself; and it reports none if the system did not fail
\* and nobody else wrote to the file.  The file is complete before it is read.
PassesIffReadBack ==
  /\ at = "exit" /\ exit_code = 0 => r_got = buf /\ ~SystemFailed
  /\ at = "exit" /\ file = buf /\ ~SystemFailed => exit_code = 0
  /\ r_pc # "none" => SubSeq(file, 1, TBUFSIZ) = buf

\* Through all labels and blocks the string of an Err keeps one owner, but for
\* those of if_Ok and if_let_Ok: with at most one failure of read, write or
\* close every string is freed once, that of an if_Ok twice, and none leaks but
\* that of a second close nobody looks at.  Both files are closed at the exit.
ExitIsClean ==
  at = "exit" =>
    /\ ~w_fd_open /\ ~r_fd_open
    /\ failures <= 1 => active_allocs = dropped - (IF __return.freed THEN 1 ELSE 0)

\* The assertion of a release fails only for the stream that writes, before the
\* other one was opened, and when two of its flushes have failed: that of a putc
\* or of the first close, and that of the close at label rs.  (A close() that
\* fails marks the stream closed.)  Everything else that may abort is a file
\* that cannot be opened, read as a stream, and a string freed twice.
AbortsForAReason ==
  at = "aborted" =>
    \/ w_pc = "aborted" /\ ~w_is_closed /\ failures > 1 /\ r_pc = "none"
    \/ w_pc = "released" /\ (~w_is_closed \/ __return.freed)

\* The test comes to its end, over short reads and writes and signals.
Ends == <>(at \in {"exit", "aborted"})

-----------------------------------------------------------------------------
(* What a comment in the code says and the code does not do *)

\* malloc calls are "compensated by as many free calls" (leakcheck.h:10-11):
\* there are no more calls of free than of malloc.
FreesAreMatched == at = "exit" => active_allocs >= 0
=============================================================================
