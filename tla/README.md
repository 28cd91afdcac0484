# A TLA+ verification of utf-8-lineseparator

`utf-8-lineseparator` reads a file or its standard input, checks that it is
UTF-8, counts its characters and its line separators (LF, CR, CRLF), and prints
one JSON record. It is a single process without threads. What is hard in it is
the stream layer (buffering, partial reads and writes, interrupts, failures that
are stored and answered later, ownership of heap strings that is tracked by
hand) and the off-by-one places of the decoder and the counter.

Contents: inventory, modules, properties and runs, proofs, findings, what is
not modelled, plan.

## Inventory

**Buffer / LSlice** (`Buffer.h`, `LSlice.h`). State: memory of a fixed size,
`startpos`, `endpos`. Operations: the two constructors, `Buffer_getc`,
`Buffer_putc`. The stream on top also sets the positions itself. Hard:
`startpos` is the read position, the putc position or the position of the next
write, depending on who called last. Correct when the positions stay in order
and in bounds, and everything below `endpos` was put there.

**BufferedStream** (`BufferedStream.h`). State: the buffer, `is_closed`, the
direction, the type (on memory, or on an fd), and for a file the fd,
`is_exhausted` and `optional_failure`. Operations: `Buffer_to_BufferedStream`,
`fd_BufferedStream`, `open_BufferedStream`, `getc`, `putc`, `flush`, `close`,
`release`. Calls `read`, `write`, `close` and `open`. Hard: short reads and writes,
EINTR, failures at every call, a file that grows while it is read, the recursion of
getc and putc, a failing flush inside close, strings that are overwritten. Correct
when bytes arrive once and in order, an end or a failure that was answered stays,
an Ok means that all is written, calls return, and a release frees everything.

**UTF-8 decoder** (`get_unicodechar` in `unicode.h`). Locals only. Reads one to
four bytes with `getc`, returns a code point, the end or an error. Correct when
the code point is the one whose form was read, every well-formed text is accepted
and no other.

**report** (`utf-8-lineseparator.c`). State: five counters and `last_was_CR`. Calls
the decoder until the end or an error and prints a record. Hard: a CR is counted an
iteration late. Correct when each separator is counted once and the position of a
failure is right.

**main** (same file). Hard: where the string of a failure is released. Chooses the stream, calls report, close, release and
`leakcheck_verify`, and makes the exit code; under AFL, loops over inputs.

**Ownership** (`Result.h`, `Option.h`, `String.h`, `leakcheck.h`, `mem.h`, `io.h`).
Every String says whether it needs freeing; Results hand it on; `leakcheck`
counts mallocs and frees. `String_quote_sh` quotes into a fixed buffer.

**Fault injection** (`monkey.h`, `monkey-posix.h`), AFL builds only. State: a countdown and
a byte for each wrapper of a system call, the table of the wrappers, the array all of them
draw from. Nothing includes a wrapper any more. Correct when the array alone decides which
calls fail, and no byte is drawn twice.

**Tests** (`test*.h`, `testinfra.h`). `test_BufferedStream_1` writes a file through one
stream and reads it back through another, with the labels and blocks of `Result.h` for what
goes wrong. Correct when it passes only if the bytes came back and nothing failed unseen.

**Unused containers** (`Vec.h`, `Slice.h`). **Build, scripts, docs.**

Interaction is by direct calls: main -> report -> get_unicodechar ->
BufferedStream_getc -> Buffer_getc and read(2); a Result is handed up the same way,
and with it the ownership of its string.

## Modules

| module | models | state and actions |
| --- | --- | --- |
| `Buffer` | `Buffer.h`, `LSlice.h` | operators on a record: startpos, endpos, size, data |
| `BufferedStream` | `BufferedStream.h`, with the client and the system around it | the fields of the struct, the file behind the fd, the program counter |
| `ByteSource` | the promise of getc on an input stream | file, delivered, phase, answer |
| `BufferedStreamSource` | the refinement mapping to `ByteSource` | - |
| `Unicode` | `get_unicodechar` | its locals, the bytes it has read |
| `Report` | `report()` | its counters, the text it has read |
| `Program` | `main`, composed of `BufferedStream`, `Unicode` and `Report` | theirs, the place in main, the exit code |
| `TestBufferedStream` | `test_BufferedStream_1`, its CHECK and the end of `main` of `test.c`, over two streams | two times the stream, the file they share, the place in the test, `__return`, the statistics |
| `Monkey` | the fault injection: `monkey.h` and a wrapper | the table, the array, the countdowns, what runs |
| `QuoteSh` | `String_quote_sh` | the string, its index, the array |
| `MC...` | values of constants for TLC, for each module that has runs | - |
| `BufferedStreamProofs` | theorems about `BufferedStream` | - |
| `BufferedStreamSourceProofs` | the theorem that it implements `ByteSource` | - |
| `ReportProofs`, `UnicodeProofs`, `MonkeyProofs`, `QuoteShProofs` | theorems about `Report`, `Unicode`, `Monkey`, `QuoteSh` | - |
| `ProgramProofs` | theorems about `Program`, from the invariants of its parts | - |
| `TestBufferedStreamProofs` | theorems about `TestBufferedStream` | - |

In `BufferedStream` a call of the client takes several steps. `pc` names the function
that runs (`"read"`, `"write"` and `"sysclose"` are the system calls it waits for,
`"ready"` is the client), `op` the call the client made; flush returns into whichever
of putc, close or the client has called it. Each outcome of a function is an action:
`GetcRefused`, `GetcByte`, `GetcEnd`, `GetcFailed`, `GetcRefill` are the paths through
`BufferedStream_getc`, `ReadBytes(n)`, `ReadEOF` and `ReadFails` what comes back from
read. The client calls getc, putc, flush and close in any order until it releases the
stream, which every caller in the code does after a close, whatever that returned. It may
call in the wrong direction or after a close. It calls flush only on a stream opened for
output, as the code does: `BufferedStream_flush` does not look at the direction itself.
The allocations of the program are one number, `leakcheck_active_allocs`, changed where the
code allocates and frees. `got`, `accepted` and `failures` are history.

What is read and what is written are two sequences, so a file opened for both is modelled
as a terminal or a socket is.

In `Unicode` masks and shifts are divisions and remainders. In `Report` the counters are
naturals: an int64_t cannot overflow on a text that exists. Formatting and the wording of
messages are left out, as no property is about them.

`Program` takes the three modules by INSTANCE and shares their actions: `CallGetc` is
`Call("getc")` of the stream, the steps of the stream run until it is "ready" again, then
`TakeByte`, `TakeEnd` and `TakeErr` give its result to the decoder, and `CountChar`,
`ReportCounts` and `ReportFailure` give the decoder's result to report. Besides, it follows
the string of an Err through these hands (`c_heap`) up to the release in report.

A run for AFL takes `Program` through its loop: `monkey_init` counts its copy (of 0 bytes, as
`MONKEY_INIT_LEN` is 0, which malloc nevertheless returns a pointer for) and gives the
iteration new locals, `ReadTestcase` makes the stream, and after `monkey_release` and
`leakcheck_verify` the next test case starts with the count of allocations that this one has
left.

`TestBufferedStream` has two instances of `BufferedStream`, one after the other over one
`file`: the output of the first is the input of the second. An action of the test is what it
does between two calls of a stream. `at` is a label of the code, or the name of the variable
that takes the result of the call that runs. `PROPAGATE_goto` (`WriterPropagates`,
`ReaderPropagates`) gives the string of an Err to `__return`; `if_Ok` and `if_let_Ok`
(`if_Ok_Err`) give it to `__return` and free it. What close and release do with the union of
an Err, which label rs reads as a stream when open has failed, is undefined: they abort or
come back.

In `Monkey`, the constructors register their states in any order; `CallPasses` and
`CallFails` are the two branches of a wrapper. `log` is history: who drew at which position,
which calls went through.

`QuoteSh` takes one step per iteration of the loop. What a POSIX shell makes of the array
(`ShellReads`, a recursive function over its chars) is the reference it is compared with.

## Properties and runs

`stream` (`MCBufferedStream`): all types, directions and owned or borrowed names; a buffer of
2, 2 failures, close with EINTR that has or has not closed the fd. The bounds depend on the
direction: a stream opened for input has up to 5 bytes (three refills, full and partial) and
one putc that is refused, one opened for output takes 5 bytes (two flushes, and a third in
close), one opened for both has 2 and 1. Two values of a byte.
- `TypeOK`.
- `BufferSound`: positions in order and in bounds, and only bytes that were put there are
  below endpos, in every state of every call, also on a stream that is read and written
  through its one buffer.
- `AssertsHold`: at a system call the stream is an open file stream with its fd.
- `ReadInOrder`: what was returned and what is buffered is what was read.
- `WriteInOrder`: what was written and what is buffered is what putc took, until a failure.
  After one the code promises nothing: a failed flush leaves startpos at the write position,
  so that the next putc writes over bytes no write has taken (the comment at
  `BufferedStream.h:256` expects it back at 0), and a flush that wrote a part and failed writes
  it again when it is called again.
- `OkMeansWritten`: as long as the stream has met no failure, an Ok of flush or close says that
  all was written. (After one, bytes that putc has written over are lost in spite of an Ok.)
- `BalancedAllocs`: after the release of a stream whose name is a literal or borrowed, and with
  at most one failure, the count of allocations is what the client holds. A second failure is
  stored over the first, whose string is then leaked: hence the condition. A name that the
  stream owns is leaked as well: see the finding `owned_name`.
- `ReleaseIsClean`: no fd left open; the assertion of release fails only after a failed flush.
- `FdIsNotStale`: between calls the stream has an fd if and only if that is open. (When
  close() is interrupted after it has released the fd, it is called again for it; as nothing
  else opens files meanwhile this is a failing call and no more.)
- `ImplementsByteSource`: refinement of `ByteSource!Spec`: the end and failures are final.
- `CallsReturn`: every call returns.

`report`: all texts of up to 8 characters, each ended by the end of the text or a failure.
- `EachCountedOnce`, `LinecountCorrect`, `FailurePositionCorrect`, `QuestionableCorrect`:
  against definitions by the places of the separators in the text.

`unicode`: both ends of each range of bytes that the code or the Unicode Standard (table 3-7)
tells apart; ends and stream failures in every place.
- `DecodedIsRead`, `WellFormedAccepted`, `AcceptedForms`.

`program`: five byte values (CR, LF, a start of two, a start of four, a continuation byte), up
to 4 bytes through a buffer of 2, 2 failures; standard input, a file, a call with wrong
arguments, and up to two test cases of the fuzzer one after the other. Inputs of 4 bytes hold a CRLF between characters, a
character across two fillings, and a code point that is too great.
- `LinecountIsOfWholeInput`: a linecount record is about all bytes up to an end that was met.
- `FailureIsAtFirstFault`: all in front of the failure was counted, and what was read there
  is not well-formed, cut off, or met a failing read.
- `ExitCodeTellsFailure`: exit code 0 hides no failure of the system. (It does not mean that the
  text was valid: report returns 0 in any case.)
- `ExitIsClean`: no leak with at most one failure, no open file, no abort; that the loop for
  AFL is never aborted by its leak check is part of it.
- `Terminates`: main ends.

`quote_sh`: all strings of up to 7 chars over a quote, a backslash, a dot and a plain char, in
an array of 12, which cuts them at every place.
- `StaysInArray`, `ReadsBack`: as the names say.
- `CutReadsAsPrefix`: a shell reads a cut string as a prefix and three dots, unless the cut
  is behind the first or third char of a quoted quote: then the shell's quotes stay open.

`test_stream`: eight different bytes through buffers of 3 (two flushes of putc and a part for
close, three refills), 3 failures of read, write and close, any open, and another process
that appends to the file while it is read.
- `PassesIffReadBack`: exit code 0 says that the second stream returned what was put into the
  first, up to the end, and that nothing failed; and no failure of the system and no foreign
  byte give exit code 0. The file is complete when it is opened for reading.
- `ExitIsClean`: both files are closed; with at most one failure each string is freed once, but
  for that of a second close nobody looks at (`dropped`: the count ends one above for each) and
  that of if_Ok and if_let_Ok (`__return.freed`: it is freed twice, the count ends one below).
- `AbortsForAReason`: an assertion of release fails only for the stream that writes, before the
  other one was opened, and after two of its flushes have failed: that of a putc or of the first
  close, and that of the close at label rs. The other reasons are an open that failed and a
  string freed twice.
- `Ends`: the test ends.

`monkey`: five wrappers for a table of four, all arrays of six bytes of three values, logs of
up to 7 entries (wrappers are symmetric). A wrapper draws two bytes at the start and two for each
failure: with six bytes two wrappers take turns and one of them fails.
- `TypeOK`: the table is not overrun.
- `CountdownExact`: between two draws of a wrapper as many calls go through as the byte says.
- `EachByteOnce`: no byte is drawn twice or left out, none behind the end.

The bounds are enough because every branch depends only on whether the buffer is empty,
full or in between, on whether a transfer was complete, and on the last character or byte
class; two fillings of a buffer of two, and two failures, meet every combination. Deadlock is
checked in every run: a program that has ended or was aborted stutters.

Fairness: weak fairness of `Progress`, the steps of the program and the returns of its
system calls other than EINTR (and than a write of 0 bytes). It says that the process is
scheduled, that the device answers, and that signals do not interrupt forever. The client
is under no fairness: it may stop calling. In `Program`, main is under weak fairness as well:
it is never idle, and so is the test in `TestBufferedStream`. `Terminates` holds for a file that grows up to a bound; one that grows as
fast as it is read is read forever.

## Findings

Each is a run that expects a violation.
- `close_keeps_fd`: close returns early when its flush fails, before close(2) and before the
  stream is marked closed; the release that follows aborts. (Comment at
  `BufferedStream.h:278`.)
- `owned_name`: release frees the buffer and a stored failure, but never the name, which the
  constructors take over as `/* owned */` (`BufferedStream.h:94`, 118, 144; what an owner has to
  do is said in `docs/design.md:181`). Every caller in the repository passes a literal or a
  borrowed string, so the program itself does not leak.
- `report_failure_line`: `a CR b` with an invalid b is reported in line 1, column 1: the CR
  in front of a failure is not counted. (Comment at `utf-8-lineseparator.c:55`.)
- `unicode_wellformed`: overlong forms and surrogates are accepted. (`README.md:3`.)
- `test_if_ok`: `if_Ok` frees the string it hands on, and `CHECK` frees it again, for instance
  when the close of the first stream fails. (`leakcheck.h:10`.)

## Proofs

The theorems hold for every value of the constants that satisfies the assumptions named in
the modules: every size of the buffer, every set of bytes, every bound on files, failures and
texts, every table of wrappers. Each has an inductive invariant, as none of the properties is
inductive as it stands.

**The stream.** Every safety property of the run `stream`, and its refinement.

| module | theorems (`Spec => ...`) | invariant |
| --- | --- | --- |
| `BufferedStreamProofs` | `TypeCorrect`: `[]TypeOK`; `BufferStaysSound`: `[]BufferSound`; `NoAssertionFails`: `[]AssertsHold`; `FdStaysFresh`: `[]FdIsNotStale` | `IInv` |
| | `ReleasesAreClean`: `[]ReleaseIsClean`; `AllocsBalance`: `[]BalancedAllocs` | `IInv`, `ReleaseInv` |
| | `ReadsInOrder`: `[]ReadInOrder` | `IInv`, `ReadInv` |
| | `WritesInOrder`: `[]WriteInOrder`; `OkOnlyWhenWritten`: `[]OkMeansWritten` | `IInv`, `WriteInv` |
| `BufferedStreamSourceProofs` | `StreamIsByteSource`: `ImplementsByteSource` | all but `WriteInv`, and `SourceInv` |

`IInv` adds to the types and to `BufferSound` `Control` (which call led to the function that
runs, and what was checked on the way: a flush inside putc or close has an open file stream,
so that its write may rely on the fd) and `Accounting` (the allocations are at least the held
result, the stored failure and the owned parts, so that a release does not free more than
there is). The lemmas about `Buffer` say that each operation keeps a sound buffer sound; then
there is one lemma per function of the stream, with one case per path through it.

`ReadInv` states the order of what is read place by place of the memory (`Buffered`) instead
of through `Content`, and adds that a read happens only when the buffer is empty and that a
flush, which moves startpos back, never meets an input stream. `WriteInv` does the same for
what is written; it adds that startpos is at the end of what putc has put there whenever no
write runs, and that behind a flush that has returned Ok the buffer is empty, which gives
`OkMeansWritten`. `ReleaseInv` says who may have an open file, that a close that leaves the
stream open has met a failure, and that the allocations are exactly the result, the failure and
the owned parts while no failure was stored over another one, and that of a released stream's
parts only the name is left.

For the refinement, `SourceInv` says that an end or a failure is met only with an empty
buffer, and never both of them. With it each step of the stream is, through the mapping, a
delivery, an end, a failure or a growing file of `ByteSource`, or leaves all of its variables
alone (`Hidden`).

**Report** (`ReportProofs`): `TypeCorrect` (`[]TypeOK`), `CountsAreRight`
(`[]EachCountedOnce`), `LinecountIsRight`, `FailurePositionIsRight` and `QuestionableIsRight`
(`[]LinecountCorrect`, `[]FailurePositionCorrect`, `[]QuestionableCorrect`), for texts of every
length. The invariant compares the counters with the sets of places of the separators;
`last_was_CR` is true exactly if the text ends in a CR. The lemmas say how these sets change
when a character is appended: a LF behind a CR takes a place from the lone CRs and
gives it to the CRLFs.

**The decoder** (`UnicodeProofs`): `DecodesWhatIsRead` (`[]DecodedIsRead`), `OnlyTheseAccepted`
(`[]AcceptedForms`) and `NothingWellFormedIsRefused` (`[]WellFormedAccepted`), for all bytes,
where TLC has the ends of the ranges. The invariant says that codepoint is the value of
the bytes read (`Value`), that these are a start byte and continuation bytes, no more than it
announces, and what each result says of them. The rest is arithmetic about one sequence: its
form is computed back from its value, length by length, and the eight rows of the Standard's
table are gone through in both directions. `TypeCorrect` (`[]TypeOK`) bounds the code points.

**The program** (`ProgramProofs`). All safety properties of the run `program`, for inputs of any
length, any buffer, any number of failures and of test cases. The parts meet in three layers.

| theorems (`Spec => ...`) | invariant |
| --- | --- |
| `ExitCodeTells`: `[]ExitCodeTellsFailure`; `CleanExit`: `[]ExitIsClean` | `Books` |
| `TypeCorrect`: `[]TypeOK` | `PartsInv` = `Books`, `StreamInv`, `DecoderInv`, the invariant of `Report`, `MainOK` |
| `CountsWholeInput`: `[]LinecountIsOfWholeInput`; `FailsAtFirstFault`: `[]FailureIsAtFirstFault` | `TextInv` = `PartsInv`, `TextOK`, `EndOK` |

`Books` is about main alone: what place it is at, which stream it has there, who owns the string
of a failure (the stream's clone, the decoder's result, report), and that the allocations are
what these owners hold. `PartsInv` takes the invariants that are proved of `BufferedStream`,
`Unicode` and `Report` over to the instances in `Program`: the instances `SP`, `DP` and `RP` of
their proof modules bring these with their lemmas, and it is shown that each step of `Program` is,
for each part, a step of that part, a stutter, or its new start (`NewStream`, `NewDecoder`).
`TextOK` says that the text report has counted and the sequence the decoder is reading are
together what the stream has returned (`IsTextOf`: a split of the bytes into forms of code
points, whose ends grow by one to four bytes), and `EndOK` that an end is reported only when the
stream has handed out all it has read and has met the end of the file, and a failure only for
a failing read or for bytes that are refused.

**Fault injection** (`MonkeyProofs`): `TypeCorrect` (`[]TypeOK`, which has the bound of the
table), `BytesAreDrawnOnce` (`[]EachByteOnce`) and `CountsDownExactly` (`[]CountdownExact`). The
first two need that the buffer is over the whole array, and that the log is empty only at the
array's begin. For the last, `Memory` says that the buffer holds the
array, `AllSet` that a wrapper that runs has drawn a countdown before, and `Counted` that since the
last draw of a wrapper the calls that went through and what is left of its countdown add up to
the byte: the countdown of u8 must not wrap, and no other wrapper's call may touch it.

**Quoting** (`QuoteShProofs`): `StaysWithin` (`[]StaysInArray`), `QuotedReadsBack`
(`[]ReadsBack`) and `CutIsPrefix` (`[]CutReadsAsPrefix`), for strings of any length and arrays of
any size. What a shell reads is defined by recursion on the chars of the array, about which the
provers know nothing without an induction; that the recursion has exactly one solution
(`Readable`) is therefore part of the invariant: it holds of the empty array and is kept by every
char that is appended (`ReadOneMore`). The rest of the invariant says what the shell has read in
each place of the code (`InLoop`, `Whole`, `Cut`) and how long it is; a quoted quote is gone
through cut by cut (`CutQuoteReads`).

**The test of the stream** (`TestBufferedStreamProofs`). All safety properties of the run
`test_stream`, for buffers of any size, any bytes of the test, and any number of failures and
writes of other processes.

| theorems (`Spec => ...`) | invariant |
| --- | --- |
| `CleanExit`: `[]ExitIsClean`; `AbortsExplained`: `[]AbortsForAReason` | `Books` |
| `PassesOnlyIfReadBack`: `[]PassesIffReadBack` | `Books`, `Carried` |

`Books` says, place by place, which functions of the two streams may run, when each has its memory
and its file open, who owns each allocation (a stream, a result, `__return`, or nobody: the second
close), where a failure is known (in the stream that met it, in its result, or in the way the
test has taken since), and what the counts of the test say of it. `Carried` is what the test hands
from one part to the next: until something fails, the file and the buffer of the first stream
hold the bytes that putc took (`Holds`); its close leaves all of them in the file, and no step
behind it takes them away (`FileComplete`); the second stream returns the file in its order and
each byte is compared before the next one is read (`Reads`); an Ok on the way to the exit says
that it was read back (`ReadBack`), and an Err that the system failed or somebody else wrote to
the file (`Blame`). The two streams share `file`, which `BufferedStream` has as two variables,
`output` and `input`, so the invariant is stated anew over both instead of being taken over from
`BufferedStreamProofs`.

Only model-checked: the liveness properties, as TLAPS does not prove liveness under fairness.
Every safety property of a run that passes is stated by a theorem.

## Not modelled

- `test_unicode`: its cases are covered by the run `unicode`, but its helper
  `buf_to_utf8_codepoint`, which uses `if_let_Ok` around the decoder, is not modelled; what
  `if_let_Ok` does with an Err is shown by `test_if_ok`.
- `Vec.h` and `Slice.h`: macros that nothing uses, some of which do not compile.
- `env.h`, `String_perror.h`, the wording of messages, `BufferedStream_name_sh`: they read the
  environment or write text, and change no state.
- Running out of memory: `die_outofmemory` ends the program.
- The Makefile and the scripts around the fuzzer and its coverage (`bin/`, `runtests`).
- A `MONKEY_INIT_LEN` other than 0: then main would give its buffer the length of the whole
  test case though it starts behind these bytes.

## Plan

1. Done: `Buffer`, `BufferedStream`, `ByteSource` and the refinement, `Unicode`, `Report`,
   `Program` with the loop for AFL, `QuoteSh`, `TestBufferedStream`, `Monkey`.
2. Done: theorems for all safety properties of the stream, `Report`, the decoder, `Program`,
   `Monkey`, `QuoteSh` and `TestBufferedStream`, and the refinement of `ByteSource`.
3. Left: `ByteSink`, the promise of an output stream.
