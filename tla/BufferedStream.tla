--------------------------- MODULE BufferedStream ---------------------------
(***************************************************************************)
(* BufferedStream.h: one stream, from its construction to its release, a   *)
(* client that calls its operations one after the other, and the operating *)
(* system behind its file descriptor.                                      *)
(*                                                                         *)
(* A call of the client runs through several steps: pc names the function  *)
(* that runs now ("read", "write" and "sysclose" are the system calls it   *)
(* waits for, "ready" is the client's own code) and op the call the client *)
(* made, to which that function's result finally goes.  The recursion of   *)
(* getc and putc is a return of pc to "getc" or "putc".                    *)
(*                                                                         *)
(* The system is nondeterministic: short reads and writes, EINTR, errors,  *)
(* a file that grows while it is read.  What is read and what is written   *)
(* are two separate sequences, as behind a terminal or a socket.           *)
(***************************************************************************)
EXTENDS Buffer, Sequences, FiniteSets

CONSTANTS
  Byte,             \* the values of an unsigned char
  Uninit,           \* the content of memory that malloc returned
  None,             \* None(u8), and the value of a Result(Unit)
  BufferSize,       \* BufferedStream_buffersize
  Directions,       \* the directions a client may ask for
  StreamTypes,      \* the stream types a client may construct
  NameOwned,        \* may the name the client hands over need freeing?
  MaxInput,         \* bound, for each direction: length of the input
  MaxPut,           \* bound, for each direction: number of bytes put
  MaxFailures,      \* bound: number of system calls that fail
  EintrCloses       \* may close() with EINTR have closed the fd all the same?

BUFFERSTREAM == "BUFFERSTREAM"
FILESTREAM   == "FILESTREAM"
FD_NONE      == "FD_NONE"

\* The bit mask of a direction is the set of its bits.
STREAM_IN    == {"IN"}
STREAM_OUT   == {"OUT"}
STREAM_INOUT == STREAM_IN \cup STREAM_OUT

ASSUME BufferSizeAssumption == BufferSize \in Nat \ {0}
ASSUME ByteAssumption == Byte # {} /\ Uninit \notin Byte /\ None \notin Byte
ASSUME ChoiceAssumption ==
  /\ Directions \subseteq {STREAM_IN, STREAM_OUT, STREAM_INOUT}
  /\ StreamTypes \subseteq {BUFFERSTREAM, FILESTREAM}
  /\ NameOwned \subseteq BOOLEAN /\ EintrCloses \subseteq BOOLEAN
ASSUME BoundAssumption ==
  MaxInput \in [Directions -> Nat] /\ MaxPut \in [Directions -> Nat] /\ MaxFailures \in Nat

VARIABLES
  \* The BufferedStream struct.
  buffer, is_closed, direction, stream_type,
  optional_fd, is_exhausted,
  optional_failure, \* is optional_failure.str not NULL?
  owned,            \* the heap parts whose needs_freeing is set
  \* The operating system.
  input, offset,    \* the bytes there are to read, and how many were read
  output,           \* the bytes that were written
  fd_open,          \* does the fd refer to the file that was opened?
  \* The running program.
  pc, op, arg, result,
  active_allocs,    \* leakcheck_active_allocs
  \* History: bytes getc returned, bytes putc took, assignments of a failure.
  got, accepted, failures

structVars  == <<direction, stream_type, owned>>
fileVars    == <<optional_fd, is_exhausted, optional_failure>>
osVars      == <<input, offset, output, fd_open>>
historyVars == <<got, accepted, failures>>
vars == <<buffer, is_closed, structVars, fileVars, osVars, pc, op, arg, result,
          active_allocs, historyVars>>

-----------------------------------------------------------------------------
(* Results *)

\* Ok(T, v), and Err(T, string) where heap is the string's needs_freeing.
Ok(v)     == [is_err |-> FALSE, value |-> v, heap |-> FALSE]
Err(heap) == [is_err |-> TRUE, value |-> None, heap |-> heap]

\* Mutant: a string is freed whether or not it needs freeing.
HeldBy_Always(r) == 1

\* Result_release: the allocations that go with it.
HeldBy(r) == IF r.heap THEN 1 ELSE 0

\* The call op ends and r goes to the client, who owns it.
Return(r) ==
  /\ pc' = "ready"
  /\ result' = r

\* PROPAGATE_return hands on an Err; an Ok goes on in the function that
\* called flush.
FlushReturns(r) ==
  IF r.is_err \/ op = "flush"
  THEN Return(r)
  ELSE pc' = (IF op = "putc" THEN "putc" ELSE "sysclose") /\ UNCHANGED result

\* Mutant: the release of a stream forgets its failure.
StoredFailure_Kept == 0

\* The allocation that optional_failure stands for.
StoredFailure == IF optional_failure THEN 1 ELSE 0

-----------------------------------------------------------------------------
(* Construction *)

Init ==
  /\ buffer = Buffer_from_buf([i \in {} |-> Uninit], 0)
  /\ is_closed = FALSE
  /\ direction = {} /\ stream_type = FILESTREAM /\ owned = {}
  /\ optional_fd = FD_NONE /\ is_exhausted = FALSE /\ optional_failure = FALSE
  /\ input = <<>> /\ offset = 0 /\ output = <<>> /\ fd_open = FALSE
  /\ pc = "none" /\ op = "open" /\ arg = None /\ result = Ok(None)
  /\ active_allocs = 0
  /\ got = <<>> /\ accepted = <<>> /\ failures = 0


\* What the client hands over to the stream, counted when it was allocated.
HandOver(parts) ==
  /\ owned' = parts
  /\ active_allocs' = active_allocs + Cardinality(parts)

Name(heap) == IF heap THEN {"name"} ELSE {}

\* Buffer_to_BufferedStream of a buffer of n bytes; DIE if it has no room to
\* write to.  `full' tells Buffer_from_array from Buffer_from_buf.
Buffer_to_BufferedStream(dir, array, full, dataOwned, nameOwned) ==
  LET n    == Len(array)
      data == [i \in 0 .. n - 1 |-> IF full THEN array[i + 1] ELSE Uninit]
  IN
  /\ pc = "none" /\ BUFFERSTREAM \in StreamTypes
  /\ pc' = IF "OUT" \in dir /\ n = 0 THEN "aborted" ELSE "ready"
  /\ buffer' = IF full THEN Buffer_from_array(data, n) ELSE Buffer_from_buf(data, n)
  /\ direction' = dir /\ stream_type' = BUFFERSTREAM
  /\ HandOver(Name(nameOwned) \cup IF dataOwned THEN {"data"} ELSE {})
  /\ input' = IF full THEN array ELSE <<>>
  /\ offset' = Len(input')
  /\ UNCHANGED <<is_closed, fileVars, output, fd_open, op, arg, result, historyVars>>

\* What fd_BufferedStream and a successful open_BufferedStream build.
FileStream(dir, nameOwned) ==
  /\ pc = "none" /\ FILESTREAM \in StreamTypes
  /\ pc' = "ready"
  /\ buffer' = Buffer_from_buf([i \in 0 .. BufferSize - 1 |-> Uninit], BufferSize)
  /\ direction' = dir /\ stream_type' = FILESTREAM
  /\ HandOver(Name(nameOwned) \cup {"data"})
  /\ optional_fd' = "fd" /\ fd_open' = TRUE
  /\ UNCHANGED <<is_closed, is_exhausted, optional_failure, input, offset, output,
                 op, arg, result, historyVars>>

fd_BufferedStream(dir, nameOwned) == FileStream(dir, nameOwned)

\* On failure the path and the buffer are freed, and the Err is all that is left.
open_BufferedStream(dir, nameOwned) ==
  \/ FileStream(dir, nameOwned)
  \/ /\ pc = "none" /\ FILESTREAM \in StreamTypes
     /\ pc' = "released"
     /\ result' = Err(TRUE)
     /\ active_allocs' = active_allocs + HeldBy(result')
     /\ UNCHANGED <<buffer, is_closed, structVars, fileVars, osVars, op, arg,
                    historyVars>>

-----------------------------------------------------------------------------
(* The client *)

\* The client releases the result it holds and calls another operation.  It
\* may use a stream in the wrong direction or after a close, which getc, putc
\* and close refuse.  flush looks at no direction: its callers, putc and close,
\* have done so, and a client does too.
Call(operation, c) ==
  /\ pc = "ready"
  /\ operation = "putc" => Len(accepted) < MaxPut[direction]
  /\ operation = "flush" => "OUT" \in direction
  /\ pc' = operation /\ op' = operation /\ arg' = c
  /\ result' = Ok(None)
  /\ active_allocs' = active_allocs - HeldBy(result)
  /\ UNCHANGED <<buffer, is_closed, structVars, fileVars, osVars, historyVars>>

\* BufferedStream_release, which every caller calls after a close, whatever
\* that returned.  It asserts is_closed.
BufferedStream_release ==
  /\ pc = "ready" /\ op = "close"
  /\ \/ /\ is_closed
        /\ pc' = "released"
        /\ result' = Ok(None)
        /\ owned' = owned \ {"data"}
        /\ active_allocs' = active_allocs - HeldBy(result)
                            - Cardinality(owned \cap {"data"}) - StoredFailure
     \/ /\ ~is_closed
        /\ pc' = "aborted"
        /\ UNCHANGED <<result, owned, active_allocs>>
  /\ UNCHANGED <<buffer, is_closed, direction, stream_type, fileVars, osVars, op, arg,
                 historyVars>>

-----------------------------------------------------------------------------
(* getc *)

\* The stream is closed or was not opened for input.
GetcRefused ==
  /\ pc = "getc"
  /\ is_closed \/ "IN" \notin direction
  /\ Return(Err(FALSE))
  /\ UNCHANGED <<buffer, is_closed, structVars, fileVars, osVars, op, arg,
                 active_allocs, historyVars>>

\* Mutant: getc does not ask whether the stream is closed.
Getting_Closed == pc = "getc" /\ "IN" \in direction

Getting == pc = "getc" /\ ~is_closed /\ "IN" \in direction

GetcByte ==
  /\ Getting /\ ~LSlice_is_empty(buffer)
  /\ buffer' = Buffer_getc(buffer)
  /\ got' = Append(got, LSlice_ref_start(buffer))
  /\ Return(Ok(LSlice_ref_start(buffer)))
  /\ UNCHANGED <<is_closed, structVars, fileVars, osVars, op, arg, active_allocs,
                 accepted, failures>>

\* Mutant: an end of file that was seen is forgotten.
AtEnd_Forgets == stream_type = BUFFERSTREAM

\* Mutant: an end of file is not final, the next getc reads again.
AtEnd_Retries ==
  stream_type = BUFFERSTREAM \/ (is_exhausted /\ offset = Len(input))

\* Nothing is left to read, now or later.
AtEnd == stream_type = BUFFERSTREAM \/ is_exhausted

GetcEnd ==
  /\ Getting /\ LSlice_is_empty(buffer) /\ AtEnd
  /\ Return(Ok(None))
  /\ UNCHANGED <<buffer, is_closed, structVars, fileVars, osVars, op, arg,
                 active_allocs, historyVars>>

\* A failure seen before is returned again, as a clone.
GetcFailed ==
  /\ Getting /\ LSlice_is_empty(buffer) /\ ~AtEnd /\ optional_failure
  /\ Return(Err(TRUE))
  /\ active_allocs' = active_allocs + 1
  /\ UNCHANGED <<buffer, is_closed, structVars, fileVars, osVars, op, arg, historyVars>>

GetcRefill ==
  /\ Getting /\ LSlice_is_empty(buffer) /\ ~AtEnd /\ ~optional_failure
  /\ pc' = "read"
  /\ UNCHANGED <<buffer, is_closed, structVars, fileVars, osVars, op, arg, result,
                 active_allocs, historyVars>>

\* strerror_String into optional_failure, whatever that held before.
StoreFailure(allocs) ==
  /\ optional_failure' = TRUE
  /\ failures' = failures + 1
  /\ active_allocs' = active_allocs + allocs

\* Mutant: startpos stays behind what was read before.
Refilled_KeepsStart(n) ==
  [buffer EXCEPT !.endpos = n,
                 !.data = [k \in DOMAIN buffer.data |->
                             IF k < n THEN input[offset + k + 1] ELSE buffer.data[k]]]

\* The buffer after read() put n bytes at the start of its memory.
Refilled(n) ==
  [buffer EXCEPT !.startpos = 0, !.endpos = n,
                 !.data = [k \in DOMAIN buffer.data |->
                             IF k < n THEN input[offset + k + 1] ELSE buffer.data[k]]]

ReadBytes(n) ==
  /\ pc = "read" /\ n <= buffer.size /\ n <= Len(input) - offset
  /\ buffer' = Refilled(n)
  /\ offset' = offset + n
  /\ pc' = "getc"
  /\ UNCHANGED <<is_closed, structVars, fileVars, input, output, fd_open, op, arg,
                 result, active_allocs, historyVars>>

ReadEOF ==
  /\ pc = "read" /\ offset = Len(input)
  /\ is_exhausted' = TRUE
  /\ pc' = "getc"
  /\ UNCHANGED <<buffer, is_closed, structVars, optional_fd, optional_failure, osVars,
                 op, arg, result, active_allocs, historyVars>>

ReadFails ==
  /\ pc = "read" /\ failures < MaxFailures
  /\ StoreFailure(1)
  /\ pc' = "getc"
  /\ UNCHANGED <<buffer, is_closed, structVars, optional_fd, is_exhausted, osVars,
                 op, arg, result, got, accepted>>

\* EINTR in read or write, and a write of 0 bytes: the call is made again.
Interrupted == pc \in {"read", "write"} /\ UNCHANGED vars

-----------------------------------------------------------------------------
(* putc and flush *)

PutcRefused ==
  /\ pc = "putc"
  /\ is_closed \/ "OUT" \notin direction
  /\ Return(Err(FALSE))
  /\ UNCHANGED <<buffer, is_closed, structVars, fileVars, osVars, op, arg,
                 active_allocs, historyVars>>

Putting == pc = "putc" /\ ~is_closed /\ "OUT" \in direction

PutcByte ==
  /\ Putting /\ Buffer_has_room(buffer)
  /\ buffer' = Buffer_putc(buffer, arg)
  /\ accepted' = Append(accepted, arg)
  /\ Return(Ok(None))
  /\ UNCHANGED <<is_closed, structVars, fileVars, osVars, op, arg, active_allocs,
                 got, failures>>

PutcNoSpace ==
  /\ Putting /\ ~Buffer_has_room(buffer) /\ stream_type = BUFFERSTREAM
  /\ Return(Err(FALSE))
  /\ UNCHANGED <<buffer, is_closed, structVars, fileVars, osVars, op, arg,
                 active_allocs, historyVars>>

PutcFlush ==
  /\ Putting /\ ~Buffer_has_room(buffer) /\ stream_type = FILESTREAM
  /\ pc' = "flush"
  /\ UNCHANGED <<buffer, is_closed, structVars, fileVars, osVars, op, arg, result,
                 active_allocs, historyVars>>

\* A closed stream, and one without a file.
FlushNothing ==
  /\ pc = "flush" /\ (is_closed \/ stream_type = BUFFERSTREAM)
  /\ FlushReturns(IF is_closed THEN Err(FALSE) ELSE Ok(None))
  /\ UNCHANGED <<buffer, is_closed, structVars, fileVars, osVars, op, arg,
                 active_allocs, historyVars>>

\* startpos, the putc writing position, becomes the write position.
FlushFile ==
  /\ pc = "flush" /\ ~is_closed /\ stream_type = FILESTREAM
  /\ buffer' = [buffer EXCEPT !.startpos = 0]
  /\ pc' = "write"
  /\ UNCHANGED <<is_closed, structVars, fileVars, osVars, op, arg, result,
                 active_allocs, historyVars>>

WriteAll ==
  /\ pc = "write"
  /\ output' = output \o Content(buffer)
  /\ buffer' = Buffer_clear(buffer)
  /\ FlushReturns(Ok(None))
  /\ UNCHANGED <<is_closed, structVars, fileVars, input, offset, fd_open, op, arg,
                 active_allocs, historyVars>>

\* Mutant: a partial write is repeated from where it began.
Written_Nothing(n) == buffer

\* The buffer after write() took n bytes, not all of them.
Written(n) == [buffer EXCEPT !.startpos = @ + n]

WritePart(n) ==
  /\ pc = "write" /\ n < LSlice_length(buffer)
  /\ output' = output \o SubSeq(Content(buffer), 1, n)
  /\ buffer' = Written(n)
  /\ UNCHANGED <<is_closed, structVars, fileVars, input, offset, fd_open, pc, op, arg,
                 result, active_allocs, historyVars>>

\* The failure is stored; the Err itself carries the String {}.
WriteFails ==
  /\ pc = "write" /\ failures < MaxFailures
  /\ StoreFailure(1)
  /\ Return(Err(FALSE))
  /\ UNCHANGED <<buffer, is_closed, structVars, optional_fd, is_exhausted, osVars,
                 op, arg, got, accepted>>

-----------------------------------------------------------------------------
(* close *)

CloseRefused ==
  /\ pc = "close" /\ is_closed
  /\ Return(Err(FALSE))
  /\ UNCHANGED <<buffer, is_closed, structVars, fileVars, osVars, op, arg,
                 active_allocs, historyVars>>

\* Mutant: close forgets to mark the stream.
Closed_Unmarked(r) ==
  /\ UNCHANGED is_closed
  /\ buffer' = Buffer_clear(buffer)
  /\ Return(r)

\* What close does on its way out, below the comment "on RETURN".
Closed(r) ==
  /\ is_closed' = TRUE
  /\ buffer' = Buffer_clear(buffer)
  /\ Return(r)

CloseBuffer ==
  /\ pc = "close" /\ ~is_closed /\ stream_type = BUFFERSTREAM
  /\ Closed(Ok(None))
  /\ UNCHANGED <<structVars, fileVars, osVars, op, arg, active_allocs, historyVars>>

\* Mutant: an output stream is closed without a flush.
CloseFile_Unflushed ==
  /\ pc = "close" /\ ~is_closed /\ stream_type = FILESTREAM
  /\ pc' = "sysclose"
  /\ UNCHANGED <<buffer, is_closed, structVars, fileVars, osVars, op, arg, result,
                 active_allocs, historyVars>>

CloseFile ==
  /\ pc = "close" /\ ~is_closed /\ stream_type = FILESTREAM
  /\ pc' = IF "OUT" \in direction THEN "flush" ELSE "sysclose"
  /\ UNCHANGED <<buffer, is_closed, structVars, fileVars, osVars, op, arg, result,
                 active_allocs, historyVars>>

SysCloseSucceeds ==
  /\ pc = "sysclose" /\ fd_open
  /\ fd_open' = FALSE
  /\ optional_fd' = FD_NONE
  /\ Closed(Ok(None))
  /\ UNCHANGED <<structVars, is_exhausted, optional_failure, input, offset, output,
                 op, arg, active_allocs, historyVars>>

\* Mutant: close() failed, and the fd is kept.
SysCloseFails_KeepsFd ==
  /\ pc = "sysclose" /\ (fd_open => failures < MaxFailures)
  /\ fd_open' = FALSE
  /\ UNCHANGED optional_fd
  /\ StoreFailure(2)
  /\ Closed(Err(TRUE))
  /\ UNCHANGED <<structVars, is_exhausted, input, offset, output, op, arg, got, accepted>>

\* close() fails, with EBADF when the fd is closed already.  The failure is
\* stored, and the client is given a clone of it.
SysCloseFails ==
  /\ pc = "sysclose" /\ (fd_open => failures < MaxFailures)
  /\ fd_open' = FALSE
  /\ optional_fd' = FD_NONE
  /\ StoreFailure(2)
  /\ Closed(Err(TRUE))
  /\ UNCHANGED <<structVars, is_exhausted, input, offset, output, op, arg, got, accepted>>

\* EINTR: close() is called again.
SysCloseInterrupted ==
  /\ pc = "sysclose"
  /\ \E closed \in EintrCloses : fd_open' = (fd_open /\ ~closed)
  /\ UNCHANGED <<buffer, is_closed, structVars, fileVars, input, offset, output,
                 pc, op, arg, result, active_allocs, historyVars>>

-----------------------------------------------------------------------------

\* Another process appends to the file.
FileGrows(b) ==
  /\ fd_open /\ Len(input) < MaxInput[direction]
  /\ input' = Append(input, b)
  /\ UNCHANGED <<buffer, is_closed, structVars, fileVars, offset, output, fd_open,
                 pc, op, arg, result, active_allocs, historyVars>>

\* The program went on without the stream, or was aborted.
Finished == pc \in {"released", "aborted"} /\ UNCHANGED vars

Constructor ==
  \E dir \in Directions, nameOwned \in NameOwned :
     \/ \E n \in 0 .. MaxInput[dir], full, dataOwned \in BOOLEAN :
           \E array \in [1 .. n -> Byte] :
              Buffer_to_BufferedStream(dir, array, full, dataOwned, nameOwned)
     \/ fd_BufferedStream(dir, nameOwned)
     \/ open_BufferedStream(dir, nameOwned)

Client ==
  \/ \E operation \in {"getc", "flush", "close"} : Call(operation, None)
  \/ \E c \in Byte : Call("putc", c)
  \/ BufferedStream_release

Getc == GetcRefused \/ GetcByte \/ GetcEnd \/ GetcFailed \/ GetcRefill
Read == (\E n \in 1 .. buffer.size : ReadBytes(n)) \/ ReadEOF \/ ReadFails
Putc == PutcRefused \/ PutcByte \/ PutcNoSpace \/ PutcFlush
Flush == FlushNothing \/ FlushFile
Write == WriteAll \/ (\E n \in 1 .. buffer.size : WritePart(n)) \/ WriteFails
Close == CloseRefused \/ CloseBuffer \/ CloseFile
SysClose == SysCloseSucceeds \/ SysCloseFails

\* The steps that bring a call forward.
Progress == Getc \/ Read \/ Putc \/ Flush \/ Write \/ Close \/ SysClose

Next ==
  \/ Constructor
  \/ Client
  \/ Progress
  \/ Interrupted
  \/ SysCloseInterrupted
  \/ \E b \in Byte : FileGrows(b)
  \/ Finished

Spec == Init /\ [][Next]_vars

\* A call comes to its end: a system call that was interrupted returns at
\* last, and the program runs.  Signals do not arrive forever.
FairSpec == Spec /\ WF_vars(Progress)

-----------------------------------------------------------------------------
(* Properties *)

Functions == {"getc", "read", "putc", "flush", "write", "close", "sysclose"}

TypeOK ==
  /\ buffer \in [startpos : Nat, endpos : Nat, size : Nat,
                 data : [0 .. buffer.size - 1 -> Byte \cup {Uninit}]]
  /\ is_closed \in BOOLEAN
  /\ direction \in SUBSET STREAM_INOUT
  /\ stream_type \in {BUFFERSTREAM, FILESTREAM}
  /\ owned \in SUBSET {"data", "name"}
  /\ optional_fd \in {"fd", FD_NONE}
  /\ is_exhausted \in BOOLEAN /\ optional_failure \in BOOLEAN
  /\ input \in Seq(Byte) /\ offset \in 0 .. Len(input)
  /\ output \in Seq(Byte) /\ fd_open \in BOOLEAN
  /\ pc \in Functions \cup {"none", "ready", "released", "aborted"}
  /\ op \in {"open", "getc", "putc", "flush", "close"}
  /\ arg \in Byte \cup {None}
  /\ result \in [is_err : BOOLEAN, value : Byte \cup {None}, heap : BOOLEAN]
  /\ active_allocs \in Nat
  /\ got \in Seq(Byte) /\ accepted \in Seq(Byte) /\ failures \in Nat

\* In every step of every call Buffer_assert holds, so that LSlice_length
\* does not wrap and no position leaves the memory, and a byte below endpos
\* was put there by a read, a putc or the client: memory as malloc left it is
\* neither returned nor written out.  (Also for a stream that is read and
\* written through the one buffer.)
BufferSound ==
  /\ Buffer_assert(buffer)
  /\ \A i \in 0 .. buffer.endpos - 1 : buffer.data[i] \in Byte

\* The assertions of flush, close and getc: where a system call is about to
\* be made the stream is an open file stream that has its fd, and a flush has
\* a buffer to write from.
AssertsHold ==
  pc \in {"read", "write", "sysclose"} =>
     /\ ~is_closed /\ stream_type = FILESTREAM
     /\ optional_fd # FD_NONE
     /\ buffer.size > 0

\* An input stream hands out the bytes of its file in their order, none lost
\* and none twice, over short reads, interrupts and a growing file: what was
\* returned and what the buffer holds make up what was read.
ReadInOrder ==
  direction = STREAM_IN =>
     /\ Len(got) <= offset
     /\ \A i \in 1 .. Len(got) : got[i] = input[i]
     /\ ~is_closed =>
           /\ Len(got) + LSlice_length(buffer) = offset
           /\ \A i \in 1 .. LSlice_length(buffer) :
                 Content(buffer)[i] = input[Len(got) + i]

\* The bytes putc took and no write has taken yet.
Pending == Content(IF pc = "write" THEN buffer ELSE [buffer EXCEPT !.startpos = 0])

\* Up to the first failure an output stream has written the bytes putc took,
\* in their order, but for those that wait in the buffer; a putc that flushes
\* and starts over loses and doubles nothing.
WriteInOrder ==
  direction = STREAM_OUT /\ stream_type = FILESTREAM /\ ~optional_failure
     => output \o Pending = accepted

\* An Ok from flush or close on a stream that has not failed says that all
\* bytes put so far were written.  (On one that has, putc writes over bytes that
\* no write has taken, and an Ok of a later flush says nothing of these.)
OkMeansWritten ==
  (/\ pc = "ready" /\ op \in {"flush", "close"} /\ ~result.is_err
   /\ direction = STREAM_OUT /\ stream_type = FILESTREAM /\ ~optional_failure)
     => output = accepted

\* leakcheck_verify after the release of a stream whose name is a literal or
\* borrowed: as long as no failure was stored over another one, every allocation
\* was freed but what the client still holds.  (OwnedIsReleased is about a name
\* that the stream owns.)
BalancedAllocs ==
  pc = "released" /\ failures <= 1 /\ "name" \notin owned
     => active_allocs = HeldBy(result)

\* A released stream left no file open, and only a client that ignored the
\* failure of a flush runs into the assertion of release (or had a stream
\* made of a buffer without room).
ReleaseIsClean ==
  /\ pc = "released" => ~fd_open
  /\ pc = "aborted"  => optional_failure \/ buffer.size = 0

\* The stream remembers an fd as long as that refers to its file and no longer:
\* once a call is over, nothing will read, write or close by a number that the
\* system may have given to another file.  Only close() itself, when it is
\* interrupted and called again, may use one.
FdIsNotStale == pc # "sysclose" => (optional_fd = "fd" <=> fd_open)

\* Every call comes back to the client: the recursion of getc and putc ends
\* after one refill or one flush, and partial writes come to an end.
CallsReturn == pc \in Functions ~> pc = "ready"

-----------------------------------------------------------------------------
(* What comments in the code say and the code does not do *)

\* "Need to really call close when desired" (BufferedStream.h:278), whatever
\* failed before: after a close no file is left open.
CloseReallyCloses == pc = "ready" /\ op = "close" => ~fd_open

\* The constructors take buffer and name as "owned" (BufferedStream.h:92, 94,
\* 118, 144), and the owner of a string "will have to release it when done with
\* it" (docs/design.md:182-183): a released stream has freed all it was given.
OwnedIsReleased ==
  pc = "released" /\ failures <= 1 => active_allocs = HeldBy(result)
=============================================================================
