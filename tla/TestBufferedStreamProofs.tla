---------------------- MODULE TestBufferedStreamProofs ----------------------
(***************************************************************************)
(* Theorems about TestBufferedStream: for every size of the buffers, all   *)
(* bytes of the test and every number of failures.                         *)
(*                                                                         *)
(* Books is the book-keeping of the test: which of the two streams may run *)
(* at each place, who holds what is allocated, where a failure of the      *)
(* system has got to, and the verdict.  ExitIsClean and AbortsForAReason   *)
(* follow from it.                                                         *)
(*                                                                         *)
(* Carried, which is inductive together with Books, is what the test       *)
(* carries over: the file and the buffer of rs hold what putc took, the    *)
(* file is complete once s2 is opened, s2 returns the file in its order,   *)
(* and the result of the test says whether it did.  PassesIffReadBack      *)
(* follows from it.                                                        *)
(***************************************************************************)
EXTENDS TestBufferedStream, FiniteSetTheorems, SequenceTheorems, TLAPS

\* The places of the test: until s2 is opened, while s2 is used, on the way out
\* through label rs, and behind its end.
WriterFirst == {"open", "opened", "rmc0", "putc", "ru", "if_Ok"}
ReaderPlaces == {"if_let_Ok", "getc", "ru3", "rmc", "release_s2"}
WriterLast == {"rs", "release_rs"}
Ended == {"leakcheck_verify", "exit"}
Closing == {"close", "flush", "write", "sysclose"}

\* Which functions of the two streams may run at each place.
WriterPlace ==
  /\ at = "open" => w_pc = "none" /\ ~w_result.is_err
  /\ at = "opened" => w_pc = IF w_result.is_err THEN "released" ELSE "ready"
  /\ at = "rmc0" => w_pc \in {"getc", "ready"} /\ w_op = "getc"
  /\ at = "ru" => w_pc \in {"putc", "flush", "write", "ready"} /\ w_op = "putc"
  /\ at \in {"if_Ok", "release_rs"} => w_pc \in Closing \cup {"ready"} /\ w_op = "close"
  /\ at \in ReaderPlaces \cup {"putc", "rs"} => w_pc = "ready"
  /\ at \in Ended \cup {"rs_err", "CHECK"} => w_pc = "released"
  /\ at = "aborted" => w_pc \in {"released", "aborted"}

ReaderPlace ==
  /\ at \in WriterFirst \cup {"rs_err"} => r_pc = "none" /\ ~r_result.is_err
  /\ at = "if_let_Ok" => r_pc = IF r_result.is_err THEN "released" ELSE "ready"
  /\ at = "getc" => r_pc \in {"getc", "read", "ready"} /\ r_op = "getc"
  /\ at \in {"ru3", "release_s2"} => r_pc \in {"close", "sysclose", "ready"} /\ r_op = "close"
  /\ at = "rmc" => r_pc = "ready"
  /\ at \in WriterLast \cup Ended \cup {"CHECK", "aborted"} => r_pc \in {"none", "released"}

PlaceOK ==
  /\ at \in WriterFirst \cup ReaderPlaces \cup WriterLast \cup Ended
            \cup {"rs_err", "CHECK", "aborted"}
  /\ WriterPlace /\ ReaderPlace

\* When the two streams have their memory and their file open.
WriterOK ==
  /\ w_owned = IF w_pc \in {"none", "released"} THEN {} ELSE {"data"}
  /\ w_is_closed \/ w_pc \in {"none", "released"} => ~w_fd_open
  /\ at \in {"open", "opened", "rmc0", "putc", "ru", "rs_err"} => ~w_is_closed
  /\ at = "if_Ok" => /\ w_pc # "ready" => ~w_is_closed
                     /\ w_pc = "ready" /\ ~w_result.is_err => w_is_closed
  /\ at \in ReaderPlaces => w_is_closed /\ ~w_result.is_err
  /\ w_pc \in {"flush", "write", "sysclose"} => ~w_is_closed
  /\ w_result.heap => w_pc \in {"ready", "released"}

ReaderOK ==
  /\ r_owned = IF r_pc \in {"none", "released"} THEN {} ELSE {"data"}
  /\ r_is_closed \/ r_pc \in {"none", "released"} => ~r_fd_open
  /\ at \in WriterFirst \cup {"if_let_Ok", "getc"} => ~r_is_closed
  /\ at = "ru3" => /\ r_pc # "ready" => ~r_is_closed
                   /\ r_pc = "ready" /\ ~r_result.is_err => r_is_closed
  /\ at = "release_s2" /\ r_pc = "ready" => r_is_closed
  /\ r_pc = "sysclose" => ~r_is_closed
  /\ r_result.heap => r_pc \in {"ready", "released"}

\* Who has the string of an Err that was not freed.
Held(r) == IF r.heap THEN 1 ELSE 0

Stored(failure) == IF failure THEN 1 ELSE 0

Owned(parts) == IF parts = {} THEN 0 ELSE 1

Allocations ==
  /\ dropped \in Nat
  /\ w_result.heap => w_result.is_err
  /\ r_result.heap => r_result.is_err
  /\ at \in Ended /\ failures <= 1 =>
       active_allocs = dropped - (IF __return.freed THEN 1 ELSE 0)
  /\ at \notin Ended \cup {"aborted"} =>
       active_allocs = Owned(w_owned) + Owned(r_owned) + Held(w_result) + Held(r_result)
          + (IF __return.freed THEN 0 ELSE Held(__return)) + dropped + failures
          - (IF w_pc = "released" THEN Stored(w_optional_failure) ELSE 0)
          - (IF r_pc = "released" THEN Stored(r_optional_failure) ELSE 0)
  /\ at \in Ended \cup {"CHECK", "rs_err"} => ~w_result.heap /\ ~r_result.heap
  /\ at \in {"rs", "release_rs"} => ~r_result.heap

\* No failure of the system.
Good == failures = 0 /\ w_is_closed /\ r_is_closed

\* Where a failure is known: in the stream it was met by, in its result, or in
\* the way the test has taken since.
FailuresOK ==
  /\ failures \in Nat
  /\ failures >= Stored(w_optional_failure) + Stored(r_optional_failure)
  /\ failures > 0 => w_optional_failure \/ r_optional_failure
  /\ r_pc = "none" => ~r_optional_failure
  /\ at \in {"open", "opened", "rmc0", "putc", "if_let_Ok"} => failures = 0
  /\ at \in {"ru", "if_Ok"} =>
       IF w_pc = "ready" THEN w_result.is_err <=> failures > 0 ELSE failures = 0
  /\ at \in ReaderPlaces => ~w_optional_failure
  /\ at = "getc" =>
       /\ r_pc = "read" => failures = 0
       /\ r_pc = "read" \/ (r_pc = "getc" /\ failures > 0) =>
            Reader!LSlice_is_empty(r_buffer) /\ ~r_is_exhausted
       /\ r_pc = "ready" => (r_result.is_err <=> failures > 0)
  /\ at = "ru3" => IF r_pc = "ready" THEN r_result.is_err <=> failures > 0 ELSE failures = 0
  /\ at \in WriterLast /\ ~w_is_closed => r_pc = "none" /\ failures > 0
  /\ at = "release_rs" /\ w_pc = "ready" /\ ~w_is_closed => failures > 1

\* What __return says at the labels, and who may free its string.
Returns ==
  /\ __return.freed => __return.heap
  /\ __return.heap => __return.is_err
  /\ at \in WriterFirst \cup {"if_let_Ok", "getc", "ru3"} => ~__return.is_err
  /\ at = "rs_err" => __return.is_err /\ ~w_is_closed
  /\ at \in {"rmc", "release_s2"} /\ ~__return.is_err => failures = 0 /\ r_is_closed
  /\ at \in WriterLast /\ ~__return.is_err => Good /\ r_pc = "released"
  /\ at = "CHECK" /\ ~__return.is_err /\ w_is_closed => Good /\ r_pc = "released"
  /\ at = "CHECK" /\ ~w_is_closed => __return.is_err

\* The test counts as passed only after no failure and two closes.
Verdict ==
  /\ stats \in [successes : Nat, failures : Nat]
  /\ at \in Ended /\ stats.failures = 0 => Good
  /\ at = "exit" => exit_code = IF stats.failures = 0 THEN 0 ELSE 1

Books == PlaceOK /\ WriterOK /\ ReaderOK /\ Allocations /\ FailuresOK /\ Returns /\ Verdict
         /\ AbortsForAReason

-----------------------------------------------------------------------------
(* The books are kept *)

USE DEF WriterFirst, ReaderPlaces, WriterLast, Ended, Closing, Held, Stored, Owned, Good,
        writerButResult, readerButResult, writerVars, readerVars, sharedVars, mainVars,
        testVars, vars, WriterReturned, ReaderReturned, ErrOf, Literal, OkUnit, RETURN,
        GivenAway,
        Writer!Ok, Writer!Err, Writer!HeldBy, Writer!StoredFailure, Writer!Return,
        Writer!StoreFailure, Writer!structVars, Writer!fileVars, Writer!osVars,
        Writer!historyVars, Writer!FILESTREAM, Writer!BUFFERSTREAM, Writer!FD_NONE,
        Reader!Ok, Reader!Err, Reader!HeldBy, Reader!StoredFailure, Reader!Return,
        Reader!StoreFailure, Reader!structVars, Reader!fileVars, Reader!osVars,
        Reader!historyVars, Reader!FILESTREAM, Reader!BUFFERSTREAM, Reader!FD_NONE

LEMMA WriterCardinality == \A S : Writer!Cardinality(S) = Cardinality(S)
BY Zenon DEF Writer!Cardinality, Cardinality

LEMMA ReaderCardinality == \A S : Reader!Cardinality(S) = Cardinality(S)
BY Zenon DEF Reader!Cardinality, Cardinality

LEMMA Parts ==
  /\ Writer!Cardinality({} \cap {"data"}) = 0 /\ Writer!Cardinality({"data"} \cap {"data"}) = 1
  /\ Reader!Cardinality({} \cap {"data"}) = 0 /\ Reader!Cardinality({"data"} \cap {"data"}) = 1
BY WriterCardinality, ReaderCardinality, {} \cap {"data"} = {}, {"data"} \cap {"data"} = {"data"},
   FS_EmptySet, FS_Singleton

LEMMA WriterOpened ==
  ASSUME Writer!FileStream({"OUT"}, FALSE)
  PROVE  /\ w_pc = "none" /\ w_pc' = "ready" /\ w_owned' = {"data"} /\ w_fd_open'
         /\ active_allocs' = active_allocs + 1
         /\ UNCHANGED <<w_is_closed, w_is_exhausted, w_optional_failure, w_op, w_arg, w_result,
                        w_accepted, file, failures>>
<1>1. Writer!Name(FALSE) \cup {"data"} = {"data"} /\ Cardinality({"data"}) = 1
  BY FS_Singleton DEF Writer!Name
<1>2. /\ w_pc = "none" /\ w_pc' = "ready" /\ w_fd_open' = TRUE
      /\ UNCHANGED <<w_is_closed, w_is_exhausted, w_optional_failure, w_op, w_arg, w_result,
                     w_accepted, file, failures>>
  BY DEF Writer!FileStream
<1>3. w_owned' = {"data"} /\ active_allocs' = active_allocs + 1
  <2>1. PICK parts : parts = Writer!Name(FALSE) \cup {"data"}
    OBVIOUS
  <2>2. parts = {"data"} /\ Cardinality(parts) = 1
    BY <1>1, <2>1
  <2>3. Writer!HandOver(parts)
    BY <2>1 DEF Writer!FileStream
  <2>4. w_owned' = parts /\ active_allocs' = active_allocs + Cardinality(parts)
    BY <2>3, WriterCardinality DEF Writer!HandOver
  <2> QED
    BY <2>2, <2>4
<1> QED
  BY <1>2, <1>3

LEMMA ReaderOpened ==
  ASSUME Reader!FileStream({"IN"}, FALSE)
  PROVE  /\ r_pc = "none" /\ r_pc' = "ready" /\ r_owned' = {"data"} /\ r_fd_open'
         /\ active_allocs' = active_allocs + 1
         /\ UNCHANGED <<r_is_closed, r_is_exhausted, r_optional_failure, r_op, r_arg, r_result,
                        r_offset, r_got, file, failures>>
<1>1. Reader!Name(FALSE) \cup {"data"} = {"data"} /\ Cardinality({"data"}) = 1
  BY FS_Singleton DEF Reader!Name
<1>2. /\ r_pc = "none" /\ r_pc' = "ready" /\ r_fd_open' = TRUE
      /\ UNCHANGED <<r_is_closed, r_is_exhausted, r_optional_failure, r_op, r_arg, r_result,
                     r_offset, r_got, file, failures>>
  BY DEF Reader!FileStream
<1>3. r_owned' = {"data"} /\ active_allocs' = active_allocs + 1
  <2>1. PICK parts : parts = Reader!Name(FALSE) \cup {"data"}
    OBVIOUS
  <2>2. parts = {"data"} /\ Cardinality(parts) = 1
    BY <1>1, <2>1
  <2>3. Reader!HandOver(parts)
    BY <2>1 DEF Reader!FileStream
  <2>4. r_owned' = parts /\ active_allocs' = active_allocs + Cardinality(parts)
    BY <2>3, ReaderCardinality DEF Reader!HandOver
  <2> QED
    BY <2>2, <2>4
<1> QED
  BY <1>2, <1>3

USE DEF Books, PlaceOK, WriterPlace, ReaderPlace, WriterOK, ReaderOK, Allocations, FailuresOK,
        Returns, Verdict, AbortsForAReason

LEMMA InitBooks == Init => Books
BY DEF Init

LEMMA OpenFailedBooks == ASSUME Books, OpenFailed PROVE Books'
BY DEF OpenFailed, WriterPropagates

LEMMA GetcMustFailBooks == ASSUME Books, GetcMustFail PROVE Books'
BY DEF GetcMustFail, CallWriter, Writer!Call

LEMMA AssertRefusedBooks == ASSUME Books, AssertRefused PROVE Books'
<1> USE DEF AssertRefused, Counted
<1>1. PlaceOK' /\ WriterOK' /\ ReaderOK' /\ FailuresOK' /\ Returns' /\ AbortsForAReason'
  OBVIOUS
<1>2. Allocations'
  OBVIOUS
<1>3. Verdict'
  <2>1. stats' \in [successes : Nat, failures : Nat]
    <3>1. PICK s \in Nat, f \in Nat : stats = [successes |-> s, failures |-> f]
      OBVIOUS
    <3>2. \/ stats' = [successes |-> s + 1, failures |-> f + 1]
          \/ stats' = [successes |-> s + 2, failures |-> f + 0]
          \/ stats' = [successes |-> s, failures |-> f + 1]
      BY <3>1
    <3> QED
      BY <3>2
  <2>2. at' = "putc"
    OBVIOUS
  <2> QED
    BY <2>1, <2>2
<1> QED
  BY <1>1, <1>2, <1>3

LEMMA PutcBooks == ASSUME Books, Putc PROVE Books'
BY DEF Putc, CallWriter, Writer!Call

LEMMA PutcOkBooks == ASSUME Books, PutcOk PROVE Books'
BY DEF PutcOk

LEMMA PutcFailedBooks == ASSUME Books, PutcFailed PROVE Books'
BY DEF PutcFailed, WriterPropagates

LEMMA CloseWriterBooks == ASSUME Books, CloseWriter PROVE Books'
BY DEF CloseWriter, CallWriter, Writer!Call

LEMMA CloseFailedBooks == ASSUME Books, CloseFailed PROVE Books'
BY DEF CloseFailed, if_Ok_Err

LEMMA OpenReaderFailedBooks == ASSUME Books, OpenReaderFailed PROVE Books'
BY DEF OpenReaderFailed, if_Ok_Err

LEMMA GetcBooks == ASSUME Books, Getc PROVE Books'
BY DEF Getc, CallReader, Reader!Call

LEMMA GetcFailedBooks == ASSUME Books, GetcFailed PROVE Books'
BY DEF GetcFailed, ReaderPropagates

LEMMA GetcNextBooks == ASSUME Books, GetcNext PROVE Books'
BY DEF GetcNext, Reader!Call

LEMMA GetcWrongBooks == ASSUME Books, GetcWrong PROVE Books'
BY DEF GetcWrong

LEMMA CloseReaderBooks == ASSUME Books, CloseReader PROVE Books'
BY DEF CloseReader, CallReader, Reader!Call

LEMMA CloseReaderFailedBooks == ASSUME Books, CloseReaderFailed PROVE Books'
BY DEF CloseReaderFailed, ReaderPropagates

LEMMA CloseReaderOkBooks == ASSUME Books, CloseReaderOk PROVE Books'
BY DEF CloseReaderOk

LEMMA rmcBooks == ASSUME Books, rmc PROVE Books'
BY DEF rmc, CallReader, Reader!Call

LEMMA DropReaderCloseBooks == ASSUME Books, DropReaderClose PROVE Books'
BY DEF DropReaderClose

LEMMA rsBooks == ASSUME Books, rs PROVE Books'
BY DEF rs, CallWriter, Writer!Call

LEMMA DropWriterCloseBooks == ASSUME Books, DropWriterClose PROVE Books'
BY DEF DropWriterClose

LEMMA rs_UnionBooks == ASSUME Books, rs_Union PROVE Books'
<1>1. CASE at' = "aborted"
  BY <1>1 DEF rs_Union
<1>2. CASE at' = "CHECK"
  BY <1>2 DEF rs_Union
<1> QED
  BY <1>1, <1>2 DEF rs_Union

LEMMA CHECKBooks == ASSUME Books, CHECK PROVE Books'
<1> USE DEF CHECK, Counted, Released
<1>1. CASE at' = "aborted"
  <2>1. PlaceOK' /\ WriterOK' /\ ReaderOK' /\ FailuresOK' /\ Returns'
    BY <1>1
  <2>2. Allocations' /\ Verdict'
    BY <1>1
  <2>3. AbortsForAReason'
    BY <1>1
  <2> QED
    BY <2>1, <2>2, <2>3
<1>2. CASE at' = "leakcheck_verify"
  <2>1. PlaceOK' /\ WriterOK' /\ ReaderOK' /\ FailuresOK' /\ Returns' /\ AbortsForAReason'
    BY <1>2
  <2>2. Allocations'
    <3>1. /\ at = "CHECK" /\ w_owned = {} /\ r_owned = {} /\ ~w_result.heap /\ ~r_result.heap
          /\ w_pc = "released" /\ r_pc \in {"none", "released"}
          /\ UNCHANGED <<w_result, r_result, failures, __return, dropped>>
          /\ active_allocs' = active_allocs - Held(__return)
      BY <1>2
    <3>2. active_allocs = (IF __return.freed THEN 0 ELSE Held(__return)) + dropped + failures
             - Stored(w_optional_failure) - Stored(r_optional_failure)
      BY <3>1
    <3>3. failures <= 1 => failures = Stored(w_optional_failure) + Stored(r_optional_failure)
      OBVIOUS
    <3>4. failures <= 1 => active_allocs' = dropped - (IF __return.freed THEN 1 ELSE 0)
      <4>1. CASE __return.freed
        <5>1. Held(__return) = 1
          BY <4>1
        <5>2. failures <= 1 => active_allocs = dropped
          BY <3>2, <3>3, <4>1
        <5> QED
          BY <3>1, <4>1, <5>1, <5>2
      <4>2. CASE ~__return.freed
        BY <3>1, <3>2, <3>3, <4>2
      <4> QED
        BY <4>1, <4>2
    <3> QED
      BY <1>2, <3>1, <3>4
  <2>3. Verdict'
    <3>1. PICK s \in Nat, f \in Nat : stats = [successes |-> s, failures |-> f]
      OBVIOUS
    <3>2. CASE __return.is_err
      <4>1. stats' = [successes |-> s, failures |-> f + 1]
        BY <3>1, <3>2
      <4>2. stats' \in [successes : Nat, failures : Nat] /\ stats'.failures # 0
        BY <4>1
      <4> QED
        BY <4>2, <1>2
    <3>3. CASE ~__return.is_err
      <4>1. stats' = stats /\ Good /\ UNCHANGED <<failures, w_is_closed, r_is_closed>>
        BY <3>3
      <4> QED
        BY <4>1, <1>2
    <3> QED
      BY <3>2, <3>3
  <2> QED
    BY <2>1, <2>2, <2>3
<1> QED
  BY <1>1, <1>2

LEMMA ExitWithIssuesBooks == ASSUME Books, ExitWithIssues PROVE Books'
BY DEF ExitWithIssues

\* rs has become a file stream, or the open has failed and rs is an Err.
LEMMA OpenBooks == ASSUME Books, Open PROVE Books'
<1>1. CASE Writer!FileStream({"OUT"}, FALSE)
  <2>0. /\ at = "open" /\ at' = "opened" /\ w_pc' = "ready" /\ w_owned' = {"data"} /\ w_fd_open'
        /\ active_allocs' = active_allocs + 1 /\ w_owned = {} /\ r_owned = {} /\ w_pc = "none"
        /\ failures = 0 /\ r_pc = "none"
        /\ UNCHANGED <<w_is_closed, w_is_exhausted, w_optional_failure, w_op, w_arg, w_result,
                       w_accepted, file, failures, readerVars, i, __return, mainVars>>
    BY <1>1, WriterOpened DEF Open
  <2>1. PlaceOK'
    BY <2>0
  <2>2. WriterOK'
    BY <2>0
  <2>3. ReaderOK'
    BY <2>0
  <2>4. Allocations'
    BY <2>0
  <2>5. FailuresOK'
    BY <2>0
  <2>6. Returns'
    BY <2>0
  <2>7. Verdict' /\ AbortsForAReason'
    BY <2>0
  <2> QED
    BY <2>1, <2>2, <2>3, <2>4, <2>5, <2>6, <2>7
<1>2. CASE ~Writer!FileStream({"OUT"}, FALSE)
  <2>a. /\ at = "open" /\ at' = "opened" /\ w_pc = "none" /\ w_pc' = "released"
        /\ w_result' = Writer!Err(TRUE) /\ active_allocs' = active_allocs + Writer!HeldBy(w_result')
        /\ UNCHANGED <<w_is_closed, w_owned, w_optional_failure, w_fd_open, failures, readerVars,
                       i, __return, mainVars>>
    BY <1>2 DEF Open, Writer!open_BufferedStream
  <2>b. active_allocs' = active_allocs + 1
    BY <2>a
  <2>c. r_pc = "none" /\ failures = 0 /\ w_owned = {} /\ r_owned = {}
    BY <2>a
  <2>0. /\ at = "open" /\ at' = "opened" /\ w_pc = "none" /\ w_pc' = "released"
        /\ w_result' = [is_err |-> TRUE, value |-> None, heap |-> TRUE]
        /\ active_allocs' = active_allocs + 1 /\ r_pc = "none"
        /\ failures = 0 /\ w_owned = {} /\ r_owned = {}
        /\ UNCHANGED <<w_is_closed, w_owned, w_optional_failure, w_fd_open, failures, readerVars,
                       i, __return, mainVars>>
    BY <2>a, <2>b, <2>c
  <2>1. PlaceOK'
    BY <2>0
  <2>2. WriterOK'
    BY <2>0
  <2>3. ReaderOK'
    BY <2>0
  <2>4. Allocations'
    BY <2>0
  <2>5. FailuresOK'
    BY <2>0
  <2>6. Returns'
    BY <2>0
  <2>7. Verdict' /\ AbortsForAReason'
    BY <2>0
  <2> QED
    BY <2>1, <2>2, <2>3, <2>4, <2>5, <2>6, <2>7
<1> QED
  BY <1>1, <1>2

LEMMA OpenReaderBooks == ASSUME Books, OpenReader PROVE Books'
<1>1. CASE Reader!FileStream({"IN"}, FALSE)
  <2>0. /\ at = "if_Ok" /\ at' = "if_let_Ok" /\ r_pc' = "ready" /\ r_owned' = {"data"}
        /\ r_fd_open' /\ r_pc = "none" /\ r_owned = {} /\ w_pc = "ready" /\ ~w_result.is_err
        /\ active_allocs' = active_allocs + 1 /\ failures = 0 /\ w_is_closed
        /\ UNCHANGED <<r_is_closed, r_is_exhausted, r_optional_failure, r_op, r_arg, r_result,
                       r_offset, r_got, file, failures, writerVars, __return, mainVars>>
    BY <1>1, ReaderOpened DEF OpenReader
  <2>1. PlaceOK'
    BY <2>0
  <2>2. WriterOK'
    BY <2>0
  <2>3. ReaderOK'
    BY <2>0
  <2>4. Allocations'
    BY <2>0
  <2>5. FailuresOK'
    BY <2>0
  <2>6. Returns'
    BY <2>0
  <2>7. Verdict' /\ AbortsForAReason'
    BY <2>0
  <2> QED
    BY <2>1, <2>2, <2>3, <2>4, <2>5, <2>6, <2>7
<1>2. CASE ~Reader!FileStream({"IN"}, FALSE)
  <2>a. /\ at = "if_Ok" /\ at' = "if_let_Ok" /\ r_pc = "none" /\ r_pc' = "released"
        /\ w_pc = "ready" /\ ~w_result.is_err
        /\ r_result' = Reader!Err(TRUE) /\ active_allocs' = active_allocs + Reader!HeldBy(r_result')
        /\ UNCHANGED <<r_is_closed, r_owned, r_optional_failure, r_fd_open, failures, writerVars,
                       __return, mainVars>>
    BY <1>2 DEF OpenReader, Reader!open_BufferedStream
  <2>b. active_allocs' = active_allocs + 1
    BY <2>a
  <2>c. failures = 0 /\ r_owned = {} /\ w_is_closed
    BY <2>a
  <2>0. /\ at = "if_Ok" /\ at' = "if_let_Ok" /\ r_pc = "none" /\ r_pc' = "released"
        /\ r_result' = [is_err |-> TRUE, value |-> None, heap |-> TRUE]
        /\ active_allocs' = active_allocs + 1 /\ w_pc = "ready" /\ ~w_result.is_err
        /\ failures = 0 /\ r_owned = {} /\ w_is_closed
        /\ UNCHANGED <<r_is_closed, r_owned, r_optional_failure, r_fd_open, failures, writerVars,
                       __return, mainVars>>
    BY <2>a, <2>b, <2>c
  <2>1. PlaceOK'
    BY <2>0
  <2>2. WriterOK'
    BY <2>0
  <2>3. ReaderOK'
    BY <2>0
  <2>4. Allocations'
    BY <2>0
  <2>5. FailuresOK'
    BY <2>0
  <2>6. Returns'
    BY <2>0
  <2>7. Verdict' /\ AbortsForAReason'
    BY <2>0
  <2> QED
    BY <2>1, <2>2, <2>3, <2>4, <2>5, <2>6, <2>7
<1> QED
  BY <1>1, <1>2

LEMMA ReleaseReaderBooks == ASSUME Books, ReleaseReader PROVE Books'
BY Parts DEF ReleaseReader, Reader!BufferedStream_release

LEMMA ReleaseWriterBooks == ASSUME Books, ReleaseWriter PROVE Books'
<1>1. CASE w_is_closed
  BY <1>1, Parts DEF ReleaseWriter, Writer!BufferedStream_release
<1>2. CASE ~w_is_closed
  BY <1>2 DEF ReleaseWriter, Writer!BufferedStream_release
<1> QED
  BY <1>1, <1>2

LEMMA WriterGetcBooks ==
  ASSUME Books, Writer!Getc, UNCHANGED <<readerVars, testVars>> PROVE Books'
<1>1. Writer!GetcRefused
  BY DEF Writer!Getc, Writer!GetcByte, Writer!GetcEnd, Writer!GetcFailed, Writer!GetcRefill,
         Writer!Getting
<1>2. at = "rmc0" /\ w_pc = "getc"
  BY <1>1 DEF Writer!GetcRefused
<1> QED
  BY <1>1, <1>2 DEF Writer!GetcRefused

LEMMA WriterPutcBooks ==
  ASSUME Books, Writer!Putc, UNCHANGED <<readerVars, testVars>> PROVE Books'
<1>1. at = "ru" /\ w_pc = "putc" /\ ~w_is_closed
  BY DEF Writer!Putc, Writer!PutcRefused, Writer!PutcByte, Writer!PutcNoSpace, Writer!PutcFlush,
         Writer!Putting
<1>2. CASE Writer!PutcRefused \/ Writer!PutcNoSpace
  BY <1>1, <1>2 DEF Writer!PutcRefused, Writer!PutcNoSpace
<1>3. CASE Writer!PutcByte
  BY <1>1, <1>3 DEF Writer!PutcByte
<1>4. CASE Writer!PutcFlush
  BY <1>1, <1>4 DEF Writer!PutcFlush
<1> QED
  BY <1>2, <1>3, <1>4 DEF Writer!Putc

LEMMA WriterFlushBooks ==
  ASSUME Books, Writer!Flush, UNCHANGED <<readerVars, testVars>> PROVE Books'
<1>1. w_pc = "flush" /\ ~w_is_closed /\ at \in {"ru", "if_Ok", "release_rs"}
  BY DEF Writer!Flush, Writer!FlushNothing, Writer!FlushFile
<1>2. CASE Writer!FlushNothing
  BY <1>1, <1>2 DEF Writer!FlushNothing
<1>3. CASE Writer!FlushFile
  BY <1>1, <1>3 DEF Writer!FlushFile
<1> QED
  BY <1>2, <1>3 DEF Writer!Flush

LEMMA WriteAllBooks ==
  ASSUME Books, Writer!WriteAll, UNCHANGED <<readerVars, testVars>> PROVE Books'
BY DEF Writer!WriteAll, Writer!FlushReturns

LEMMA WritePartBooks ==
  ASSUME Books, NEW n, Writer!WritePart(n), UNCHANGED <<readerVars, testVars>> PROVE Books'
BY DEF Writer!WritePart

LEMMA WriteFailsBooks ==
  ASSUME Books, Writer!WriteFails, UNCHANGED <<readerVars, testVars>> PROVE Books'
BY DEF Writer!WriteFails

LEMMA WriterCloseBooks ==
  ASSUME Books, Writer!Close, UNCHANGED <<readerVars, testVars>> PROVE Books'
<1>1. w_pc = "close" /\ at \in {"if_Ok", "release_rs"}
  BY DEF Writer!Close, Writer!CloseRefused, Writer!CloseBuffer, Writer!CloseFile
<1>2. CASE Writer!CloseRefused
  BY <1>1, <1>2 DEF Writer!CloseRefused
<1>3. CASE Writer!CloseBuffer
  BY <1>3 DEF Writer!CloseBuffer
<1>4. CASE Writer!CloseFile
  BY <1>1, <1>4 DEF Writer!CloseFile
<1> QED
  BY <1>2, <1>3, <1>4 DEF Writer!Close

LEMMA WriterSysCloseBooks ==
  ASSUME Books, Writer!SysClose, UNCHANGED <<readerVars, testVars>> PROVE Books'
<1>1. w_pc = "sysclose" /\ at \in {"if_Ok", "release_rs"}
  BY DEF Writer!SysClose, Writer!SysCloseSucceeds, Writer!SysCloseFails
<1>2. CASE Writer!SysCloseSucceeds
  BY <1>1, <1>2 DEF Writer!SysCloseSucceeds, Writer!Closed
<1>3. CASE Writer!SysCloseFails
  BY <1>1, <1>3 DEF Writer!SysCloseFails, Writer!Closed
<1> QED
  BY <1>2, <1>3 DEF Writer!SysClose

LEMMA ReaderGetcBooks ==
  ASSUME Books, Reader!Getc, UNCHANGED <<writerVars, testVars>> PROVE Books'
<1>1. at = "getc" /\ r_pc = "getc" /\ ~r_is_closed
  BY DEF Reader!Getc, Reader!GetcRefused, Reader!GetcByte, Reader!GetcEnd, Reader!GetcFailed,
         Reader!GetcRefill, Reader!Getting
<1>2. CASE Reader!GetcRefused
  BY <1>1, <1>2 DEF Reader!GetcRefused
<1>3. CASE Reader!GetcByte
  BY <1>1, <1>3 DEF Reader!GetcByte, Reader!Getting
<1>4. CASE Reader!GetcEnd
  BY <1>1, <1>4 DEF Reader!GetcEnd, Reader!Getting, Reader!AtEnd
<1>5. CASE Reader!GetcFailed
  BY <1>1, <1>5 DEF Reader!GetcFailed, Reader!Getting, Reader!AtEnd
<1>6. CASE Reader!GetcRefill
  BY <1>1, <1>6 DEF Reader!GetcRefill, Reader!Getting, Reader!AtEnd
<1> QED
  BY <1>2, <1>3, <1>4, <1>5, <1>6 DEF Reader!Getc

LEMMA ReadBytesBooks ==
  ASSUME Books, NEW n \in 1 .. r_buffer.size, Reader!ReadBytes(n),
         UNCHANGED <<writerVars, testVars>>
  PROVE Books'
BY DEF Reader!ReadBytes, Reader!Refilled

LEMMA ReadEOFBooks ==
  ASSUME Books, Reader!ReadEOF, UNCHANGED <<writerVars, testVars>> PROVE Books'
BY DEF Reader!ReadEOF

LEMMA ReadFailsBooks ==
  ASSUME Books, Reader!ReadFails, UNCHANGED <<writerVars, testVars>> PROVE Books'
BY DEF Reader!ReadFails

LEMMA ReaderCloseBooks ==
  ASSUME Books, Reader!Close, UNCHANGED <<writerVars, testVars>> PROVE Books'
<1>1. r_pc = "close" /\ at \in {"ru3", "release_s2"}
  BY DEF Reader!Close, Reader!CloseRefused, Reader!CloseBuffer, Reader!CloseFile
<1>2. CASE Reader!CloseRefused
  BY <1>1, <1>2 DEF Reader!CloseRefused
<1>3. CASE Reader!CloseBuffer
  BY <1>3 DEF Reader!CloseBuffer
<1>4. CASE Reader!CloseFile
  BY <1>1, <1>4 DEF Reader!CloseFile
<1> QED
  BY <1>2, <1>3, <1>4 DEF Reader!Close

LEMMA ReaderSysCloseBooks ==
  ASSUME Books, Reader!SysClose, UNCHANGED <<writerVars, testVars>> PROVE Books'
<1>1. r_pc = "sysclose" /\ at \in {"ru3", "release_s2"}
  BY DEF Reader!SysClose, Reader!SysCloseSucceeds, Reader!SysCloseFails
<1>2. CASE Reader!SysCloseSucceeds
  BY <1>1, <1>2 DEF Reader!SysCloseSucceeds, Reader!Closed
<1>3. CASE Reader!SysCloseFails
  BY <1>1, <1>3 DEF Reader!SysCloseFails, Reader!Closed
<1> QED
  BY <1>2, <1>3 DEF Reader!SysClose

LEMMA EnvironmentBooks == ASSUME Books, Environment PROVE Books'
<1>1. CASE Writer!SysCloseInterrupted /\ UNCHANGED <<readerVars, testVars>>
  BY <1>1 DEF Writer!SysCloseInterrupted
<1>2. CASE Reader!SysCloseInterrupted /\ UNCHANGED <<writerVars, testVars>>
  BY <1>2 DEF Reader!SysCloseInterrupted
<1>3. CASE (\E b \in Byte : Reader!FileGrows(b)) /\ UNCHANGED <<writerVars, testVars>>
  BY <1>3 DEF Reader!FileGrows
<1> QED
  BY <1>1, <1>2, <1>3, Zenon DEF Environment

LEMMA StutterBooks == ASSUME Books, UNCHANGED vars PROVE Books'
OBVIOUS

\* The functions that a stream of one direction never enters.
LEMMA NeverWriterRead == ASSUME Books PROVE ~Writer!Read
BY DEF Writer!Read, Writer!ReadBytes, Writer!ReadEOF, Writer!ReadFails

LEMMA NeverReaderWrites == ASSUME Books PROVE ~Reader!Putc /\ ~Reader!Flush /\ ~Reader!Write
BY DEF Reader!Putc, Reader!PutcRefused, Reader!PutcByte, Reader!PutcNoSpace, Reader!PutcFlush,
       Reader!Putting, Reader!Flush, Reader!FlushNothing, Reader!FlushFile, Reader!Write,
       Reader!WriteAll, Reader!WritePart, Reader!WriteFails

LEMMA NextBooks == ASSUME Books, [Next]_vars PROVE Books'
<1>1. CASE Test
  BY <1>1, OpenBooks, OpenFailedBooks, GetcMustFailBooks, AssertRefusedBooks, PutcBooks,
     PutcOkBooks, PutcFailedBooks, CloseWriterBooks, CloseFailedBooks, OpenReaderBooks,
     OpenReaderFailedBooks, GetcBooks, GetcFailedBooks, GetcNextBooks, GetcWrongBooks,
     CloseReaderBooks, CloseReaderFailedBooks, CloseReaderOkBooks, rmcBooks,
     DropReaderCloseBooks, ReleaseReaderBooks, rsBooks, DropWriterCloseBooks,
     ReleaseWriterBooks, rs_UnionBooks, CHECKBooks, ExitWithIssuesBooks, Zenon DEF Test
<1>2. CASE StreamProgress
  <2>1. ASSUME Writer!Progress, UNCHANGED <<readerVars, testVars>> PROVE Books'
    BY <2>1, NeverWriterRead, WriterGetcBooks, WriterPutcBooks, WriterFlushBooks, WriteAllBooks,
       WritePartBooks, WriteFailsBooks, WriterCloseBooks, WriterSysCloseBooks, Zenon
       DEF Writer!Progress, Writer!Write
  <2>2. ASSUME Reader!Progress, UNCHANGED <<writerVars, testVars>> PROVE Books'
    BY <2>2, NeverReaderWrites, ReaderGetcBooks, ReadBytesBooks, ReadEOFBooks, ReadFailsBooks,
       ReaderCloseBooks, ReaderSysCloseBooks, Zenon
       DEF Reader!Progress, Reader!Read
  <2> QED
    BY <1>2, <2>1, <2>2, Zenon DEF StreamProgress
<1>3. CASE Environment
  BY <1>3, EnvironmentBooks
<1>4. CASE Exited \/ UNCHANGED vars
  BY <1>4, StutterBooks, Zenon DEF Exited
<1> QED
  BY <1>1, <1>2, <1>3, <1>4, Zenon DEF Next

HIDE DEF Books, vars, AbortsForAReason

LEMMA SpecBooks == Spec => []Books
BY InitBooks, NextBooks, PTL DEF Spec

LEMMA BooksExitIsClean == Books => ExitIsClean
BY DEF Books, ExitIsClean

\* At the exit of the test both files are closed.  With at most one failure of
\* the system nothing is leaked but what a second close gave to nobody, and each
\* string was freed once, but that of an Err that if_Ok or if_let_Ok returned,
\* which was freed twice: the count then ends one below.
THEOREM CleanExit == Spec => []ExitIsClean
BY SpecBooks, BooksExitIsClean, PTL

LEMMA BooksAborts == Books => AbortsForAReason
BY DEF Books

\* The test aborts only in the release of rs after two failed flushes (that of a
\* putc or of the first close, and that of the close at label rs), on an open
\* that failed, or on a string that was freed twice.
THEOREM AbortsExplained == Spec => []AbortsForAReason
BY SpecBooks, BooksAborts, PTL

HIDE DEF PlaceOK, WriterPlace, ReaderPlace, WriterOK, ReaderOK, Allocations, FailuresOK,
         Returns, Verdict, Held, Stored, Owned

-----------------------------------------------------------------------------
(* What the test carries over *)

\* The positions of a buffer lie in its memory.
Placed(b) ==
  /\ b \in [startpos : Nat, endpos : Nat, size : Nat,
            data : [0 .. b.size - 1 -> Byte \cup {Uninit}]]
  /\ b.startpos <= b.endpos /\ b.endpos <= b.size

\* How many bytes rs has taken from the test, and where those start in its
\* memory that are still to be written.
Taken == IF at = "ru" /\ w_pc = "ready" THEN i + 1 ELSE i
First == IF w_pc = "write" THEN w_buffer.startpos ELSE 0

\* The file, and after it the buffer of rs, hold the bytes it has taken.
Holds ==
  /\ Len(file) + (w_buffer.endpos - First) = Taken
  /\ \A k \in 1 .. Len(file) : file[k] = buf[k]
  /\ \A k \in Nat : First <= k /\ k < w_buffer.endpos
       => w_buffer.data[k] = buf[Len(file) + (k - First) + 1]

\* What is known of the loop of the test and of the positions in the buffer.
Loop ==
  /\ Taken <= TBUFSIZ
  /\ at = "ru" /\ w_pc # "ready" => i < TBUFSIZ /\ w_arg = buf[i + 1]
  /\ at = "if_Ok" => i = TBUFSIZ
  /\ at \in {"opened", "rmc0"} => i = 0
  /\ w_pc # "write" => w_buffer.startpos = w_buffer.endpos
  /\ at = "if_Ok" /\ w_pc \in {"sysclose", "ready"} => w_buffer.endpos = 0

\* Until something fails, rs loses nothing, and its close leaves it all in the file.
Writing ==
  /\ at = "open" => file = <<>> /\ i = 0
  /\ at \in WriterFirst \ {"open"} /\ w_pc # "released" /\ failures = 0 =>
       Placed(w_buffer) /\ file \in Seq(Byte) /\ Holds /\ Loop

\* The file is complete before it is read.
FileComplete ==
  r_pc # "none" =>
    /\ file \in Seq(Byte) /\ TBUFSIZ <= Len(file)
    /\ \A k \in 1 .. TBUFSIZ : file[k] = buf[k]

\* s2 has returned the start of the file, and its buffer holds what follows.
InOrder ==
  /\ Len(r_got) + (r_buffer.endpos - r_buffer.startpos) = r_offset
  /\ \A k \in 1 .. Len(r_got) : r_got[k] = file[k]
  /\ \A k \in Nat : r_buffer.startpos <= k /\ k < r_buffer.endpos
       => r_buffer.data[k] = file[Len(r_got) + (k - r_buffer.startpos) + 1]

\* Every byte is looked at before the next one is asked for.
Compared ==
  /\ at = "if_let_Ok" => i = 0
  /\ at = "if_let_Ok" \/ r_pc # "ready" \/ r_result.is_err \/ r_result.value = None
       => Len(r_got) = i
  /\ at = "getc" /\ r_pc = "ready" /\ ~r_result.is_err =>
       IF r_result.value = None THEN TBUFSIZ <= i
       ELSE Len(r_got) = i + 1 /\ r_result.value = r_got[i + 1]

\* s2 is open and is being read.
Busy == at \in {"if_let_Ok", "getc"} /\ r_pc # "released"

\* It comes to no end before the bytes of the test do.
Reads ==
  /\ Placed(r_buffer) /\ r_got \in Seq(Byte) /\ r_offset \in 0 .. Len(file)
  /\ InOrder /\ Compared
  /\ r_is_exhausted => TBUFSIZ <= r_offset
  /\ r_pc = "read" => r_buffer.startpos = r_buffer.endpos

\* Reads of s2 while it is read; a stream not opened yet has read nothing.
Reading ==
  /\ r_pc = "none" => r_got = <<>> /\ r_offset = 0 /\ ~r_is_exhausted
  /\ Busy => Reads

\* An Ok of the test says that s2 has returned its bytes, and no others.
ReadBack ==
  /\ at = "ru3" => r_got = buf
  /\ at \in {"rmc", "release_s2", "CHECK"} \cup WriterLast /\ ~__return.is_err => r_got = buf
  /\ at \in Ended /\ stats.failures = 0 => r_got = buf

\* What the test may fail for: the system, and somebody who wrote to the file.
Excused == SystemFailed \/ (r_pc # "none" /\ TBUFSIZ < Len(file))

\* A failure of the test has an excuse, and getc on rs is refused.
Blame ==
  /\ at = "rmc0" /\ w_pc = "ready" => w_result.is_err
  /\ __return.is_err => Excused
  /\ stats.failures # 0 => Excused

Carried == i \in 0 .. TBUFSIZ /\ Writing /\ FileComplete /\ Reading /\ ReadBack /\ Blame

-----------------------------------------------------------------------------
(* Buffers *)

LEMMA SizeOfBuf == TBUFSIZ \in Nat /\ TBUFSIZ = Len(buf) /\ \A k \in 1 .. TBUFSIZ : buf[k] \in Byte
BY BufAssumption DEF TBUFSIZ

LEMMA UpdateIsBuffer ==
  ASSUME NEW Data, NEW b \in [startpos : Nat, endpos : Nat, size : Nat, data : Data],
         NEW s \in Nat, NEW e \in Nat, NEW d \in Data
  PROVE  [b EXCEPT !.startpos = s, !.endpos = e, !.data = d]
            \in [startpos : Nat, endpos : Nat, size : Nat, data : Data]
OBVIOUS

\* The buffer of a stream that was just opened.
LEMMA NewIsPlaced ==
  ASSUME NEW b, b = Writer!Buffer_from_buf([k \in 0 .. BufferSize - 1 |-> Uninit], BufferSize)
  PROVE  Placed(b) /\ b.startpos = 0 /\ b.endpos = 0
BY BufferSizeAssumption DEF Placed, Writer!Buffer_from_buf

LEMMA ClearIsPlaced ==
  ASSUME NEW b, Placed(b)
  PROVE  Placed(Writer!Buffer_clear(b)) /\ Writer!Buffer_clear(b).startpos = 0
         /\ Writer!Buffer_clear(b).endpos = 0
<1> DEFINE c == Writer!Buffer_clear(b)
<1>1. c.startpos = 0 /\ c.endpos = 0 /\ c.size = b.size /\ c.data = b.data
  BY DEF Placed, Writer!Buffer_clear
<1>2. c \in [startpos : Nat, endpos : Nat, size : Nat,
            data : [0 .. b.size - 1 -> Byte \cup {Uninit}]]
  BY DEF Placed, Writer!Buffer_clear
<1> QED
  BY <1>1, <1>2 DEF Placed

LEMMA RewindIsPlaced ==
  ASSUME NEW b, Placed(b)
  PROVE  /\ Placed([b EXCEPT !.startpos = 0]) /\ [b EXCEPT !.startpos = 0].startpos = 0
         /\ [b EXCEPT !.startpos = 0].endpos = b.endpos
         /\ [b EXCEPT !.startpos = 0].data = b.data
BY DEF Placed

LEMMA AdvanceIsPlaced ==
  ASSUME NEW b, Placed(b), NEW n \in Nat, n <= b.endpos - b.startpos
  PROVE  /\ Placed([b EXCEPT !.startpos = @ + n])
         /\ [b EXCEPT !.startpos = @ + n].startpos = b.startpos + n
         /\ [b EXCEPT !.startpos = @ + n].endpos = b.endpos
         /\ [b EXCEPT !.startpos = @ + n].data = b.data
BY DEF Placed

LEMMA PutIsPlaced ==
  ASSUME NEW b, Placed(b), NEW c \in Byte, b.startpos = b.endpos, b.startpos < b.size
  PROVE  /\ Placed(Writer!Buffer_putc(b, c))
         /\ Writer!Buffer_putc(b, c).startpos = b.endpos + 1
         /\ Writer!Buffer_putc(b, c).endpos = b.endpos + 1
         /\ Writer!Buffer_putc(b, c).data = [b.data EXCEPT ![b.endpos] = c]
<1> DEFINE p    == Writer!Buffer_putc(b, c)
           Data == [0 .. b.size - 1 -> Byte \cup {Uninit}]
           e    == IF b.endpos < b.startpos + 1 THEN b.startpos + 1 ELSE b.endpos
           d    == [b.data EXCEPT ![b.startpos] = c]
<1>1. p.startpos = b.endpos + 1 /\ p.size = b.size /\ p.endpos = b.endpos + 1
      /\ p.data = [b.data EXCEPT ![b.endpos] = c]
  BY DEF Placed, Writer!Buffer_putc
<1>2. b \in [startpos : Nat, endpos : Nat, size : Nat, data : Data]
      /\ b.startpos + 1 \in Nat /\ e \in Nat /\ d \in Data
  BY DEF Placed
<1>3. p = [b EXCEPT !.startpos = b.startpos + 1, !.endpos = e, !.data = d]
  BY DEF Writer!Buffer_putc
<1>4. p \in [startpos : Nat, endpos : Nat, size : Nat, data : Data]
  <2> HIDE DEF Data, e, d, p
  <2> QED
    BY <1>2, <1>3, UpdateIsBuffer
<1> HIDE DEF p
<1>5. b.endpos + 1 <= b.size
  BY DEF Placed
<1> QED
  BY <1>1, <1>4, <1>5 DEF Placed, p

\* The buffer b after a read that has put n bytes to the start of its memory d.
Refill(b, n, d) == [b EXCEPT !.startpos = 0, !.endpos = n, !.data = d]

LEMMA RefillIsPlaced ==
  ASSUME NEW b, Placed(b), NEW n \in Nat, n <= b.size,
         NEW d \in [0 .. b.size - 1 -> Byte \cup {Uninit}]
  PROVE  /\ Placed(Refill(b, n, d)) /\ Refill(b, n, d).startpos = 0
         /\ Refill(b, n, d).endpos = n /\ Refill(b, n, d).data = d
<1> USE DEF Refill
<1> DEFINE Data == [0 .. b.size - 1 -> Byte \cup {Uninit}]
           r    == Refill(b, n, d)
<1>1. b \in [startpos : Nat, endpos : Nat, size : Nat, data : Data] /\ d \in Data
  BY DEF Placed
<1>2. r \in [startpos : Nat, endpos : Nat, size : Nat, data : Data]
  <2> HIDE DEF Data
  <2> QED
    BY <1>1, UpdateIsBuffer
<1>3. r.startpos = 0 /\ r.endpos = n /\ r.size = b.size /\ r.data = d
  BY DEF Placed
<1> HIDE DEF r
<1> QED
  BY <1>2, <1>3 DEF Placed, r

-----------------------------------------------------------------------------
(* What rs writes *)

\* n bytes go from the start of the buffer to the end of the file.
LEMMA Transfer ==
  ASSUME Placed(w_buffer), file \in Seq(Byte), w_pc = "write", Holds, Taken <= TBUFSIZ,
         Taken \in Nat, NEW n \in Nat, n <= w_buffer.endpos - w_buffer.startpos,
         NEW out, out = file \o SubSeq(Writer!Content(w_buffer), 1, n)
  PROVE  /\ out \in Seq(Byte) /\ Len(out) = Len(file) + n
         /\ \A k \in 1 .. Len(out) : out[k] = buf[k]
<1> DEFINE l == w_buffer.endpos - w_buffer.startpos
           C == Writer!Content(w_buffer)
           c == SubSeq(C, 1, n)
<1>1. /\ w_buffer.startpos \in Nat /\ w_buffer.endpos \in Nat /\ l \in Nat
      /\ Writer!LSlice_length(w_buffer) = l /\ Len(file) \in Nat /\ First = w_buffer.startpos
      /\ Len(file) + l = Taken
  BY DEF Placed, Holds, First, Writer!LSlice_length
<1>2. ASSUME NEW k \in 1 .. l PROVE C[k] = buf[Len(file) + k] /\ C[k] \in Byte
  <2>1. C[k] = w_buffer.data[w_buffer.startpos + k - 1]
    BY <1>1 DEF Writer!Content
  <2>2. /\ w_buffer.startpos + k - 1 \in Nat /\ First <= w_buffer.startpos + k - 1
        /\ w_buffer.startpos + k - 1 < w_buffer.endpos
        /\ Len(file) + ((w_buffer.startpos + k - 1) - First) + 1 = Len(file) + k
    BY <1>1
  <2>3. C[k] = buf[Len(file) + k]
    BY <2>1, <2>2 DEF Holds
  <2>4. Len(file) + k \in 1 .. TBUFSIZ
    BY <1>1, SizeOfBuf
  <2> QED
    BY <2>3, <2>4, SizeOfBuf
<1>3. C \in Seq(Byte) /\ Len(C) = l
  <2>1. \A k \in 1 .. l : w_buffer.data[w_buffer.startpos + k - 1] \in Byte
    BY <1>1, <1>2 DEF Writer!Content
  <2>2. C = [k \in 1 .. l |-> w_buffer.data[w_buffer.startpos + k - 1]]
    BY <1>1 DEF Writer!Content
  <2> HIDE DEF C, l
  <2> QED
    BY <1>1, <2>1, <2>2
<1>4. c \in Seq(Byte) /\ Len(c) = n /\ \A k \in 1 .. n : c[k] = C[k]
  BY <1>3
<1> HIDE DEF c, C
<1>5. out \in Seq(Byte) /\ Len(out) = Len(file) + n
  BY <1>4 DEF c, C
<1>6. ASSUME NEW k \in 1 .. Len(out) PROVE out[k] = buf[k]
  <2>1. CASE k <= Len(file)
    BY <1>4, <2>1 DEF Holds, c, C
  <2>2. CASE k > Len(file)
    <3>1. k - Len(file) \in 1 .. n /\ Len(file) + (k - Len(file)) = k /\ k - Len(file) \in 1 .. l
      BY <1>1, <1>5, <2>2
    <3>2. out[k] = c[k - Len(file)]
      BY <1>4, <2>2, <3>1 DEF c, C
    <3> QED
      BY <1>2, <1>4, <3>1, <3>2
  <2> QED
    BY <1>1, <1>5, <2>1, <2>2
<1> QED
  BY <1>5, <1>6

\* A step that leaves the file and the buffer of rs alone.
LEMMA HoldsFrame ==
  ASSUME Holds, UNCHANGED <<file, w_buffer>>, First' = First, Taken' = Taken
  PROVE  Holds'
BY DEF Holds

LEMMA AllWritten ==
  ASSUME Placed(w_buffer), file \in Seq(Byte), Holds, Loop, at = "if_Ok", w_pc = "ready"
  PROVE  Len(file) = TBUFSIZ /\ \A k \in 1 .. TBUFSIZ : file[k] = buf[k]
<1>1. w_buffer.endpos = 0 /\ First = 0 /\ Taken = TBUFSIZ /\ Len(file) \in Nat
  BY DEF Loop, First, Taken
<1> QED
  BY <1>1, SizeOfBuf DEF Holds

\* The places at which rs has not been closed.
Live == at \in WriterFirst \ {"open"} /\ w_pc # "released" /\ failures = 0

\* A step that does not touch the file or the buffer of rs.
LEMMA WritingFrame ==
  ASSUME Writing, Live, UNCHANGED <<file, w_buffer>>, First' = First, Taken' = Taken,
         at' # "open", Loop'
  PROVE  Writing'
BY HoldsFrame DEF Writing, Live, Placed

LEMMA TestWriting ==
  ASSUME Books, Writing, i \in 0 .. TBUFSIZ, Test
  PROVE  Writing' /\ i' \in 0 .. TBUFSIZ
<1> USE SizeOfBuf
<1>1. CASE Open
  <2>1. at = "open" /\ at' = "opened" /\ i = 0 /\ i' = 0 /\ file = <<>> /\ w_pc = "none"
    BY <1>1 DEF Open, Writing, Books, PlaceOK, WriterPlace
  <2>2. CASE Writer!FileStream({"OUT"}, FALSE)
    <3>1. w_pc' = "ready" /\ file' = <<>>
          /\ w_buffer' = Writer!Buffer_from_buf([k \in 0 .. BufferSize - 1 |-> Uninit], BufferSize)
      BY <2>1, <2>2 DEF Writer!FileStream
    <3>2. Placed(w_buffer') /\ w_buffer'.startpos = 0 /\ w_buffer'.endpos = 0
      BY <3>1, NewIsPlaced
    <3>3. First' = 0 /\ Taken' = 0 /\ file' \in Seq(Byte) /\ Len(file') = 0
      BY <2>1, <3>1 DEF First, Taken
    <3>4. Placed(w_buffer)'
      BY <3>2 DEF Placed
    <3>5. Holds'
      BY <3>2, <3>3 DEF Holds
    <3>6. Loop'
      BY <2>1, <3>1, <3>2, <3>3 DEF Loop
    <3> QED
      BY <2>1, <3>3, <3>4, <3>5, <3>6 DEF Writing
  <2>3. CASE ~Writer!FileStream({"OUT"}, FALSE)
    <3>1. w_pc' = "released"
      BY <1>1, <2>3 DEF Open, Writer!open_BufferedStream
    <3> QED
      BY <2>1, <3>1 DEF Writing
  <2> QED
    BY <2>1, <2>2, <2>3
<1>2. CASE GetcMustFail
  <2>1. at = "opened" /\ at' = "rmc0" /\ Live /\ w_pc = "ready" /\ w_pc' = "getc"
        /\ UNCHANGED <<file, w_buffer, i>>
    BY <1>2 DEF GetcMustFail, CallWriter, Writer!Call, Live, Books, FailuresOK
  <2>2. First' = First /\ Taken' = Taken /\ Loop'
    BY <2>1 DEF Writing, Live, First, Taken, Loop
  <2> QED
    BY <2>1, <2>2, WritingFrame
<1>3. CASE AssertRefused
  <2>1. at = "rmc0" /\ at' = "putc" /\ Live /\ w_pc = "ready" /\ w_pc' = "ready"
        /\ UNCHANGED <<file, w_buffer, i>>
    BY <1>3 DEF AssertRefused, Live, Books, FailuresOK
  <2>2. First' = First /\ Taken' = Taken /\ Loop'
    BY <2>1 DEF Writing, Live, First, Taken, Loop
  <2> QED
    BY <2>1, <2>2, WritingFrame
<1>4. CASE Putc
  <2>1. at = "putc" /\ at' = "ru" /\ Live /\ w_pc = "ready" /\ w_pc' = "putc"
        /\ i < TBUFSIZ /\ w_arg' = buf[i + 1] /\ UNCHANGED <<file, w_buffer, i>>
    BY <1>4 DEF Putc, CallWriter, Writer!Call, Live, Books, FailuresOK
  <2>2. First' = First /\ Taken' = Taken /\ Loop'
    BY <2>1 DEF Writing, Live, First, Taken, Loop, TBUFSIZ
  <2> QED
    BY <2>1, <2>2, WritingFrame
<1>5. CASE PutcOk
  <2>1. at = "ru" /\ at' = "putc" /\ Live /\ w_pc = "ready" /\ w_pc' = "ready"
        /\ i' = i + 1 /\ UNCHANGED <<file, w_buffer>>
    BY <1>5 DEF PutcOk, Live, Books, FailuresOK
  <2>2. First' = First /\ Taken' = Taken /\ Loop' /\ i' \in 0 .. TBUFSIZ
    BY <2>1 DEF Writing, Live, First, Taken, Loop, TBUFSIZ
  <2> QED
    BY <2>1, <2>2, WritingFrame
<1>6. CASE CloseWriter
  <2>1. at = "putc" /\ at' = "if_Ok" /\ Live /\ w_pc = "ready" /\ w_pc' = "close"
        /\ i = TBUFSIZ /\ UNCHANGED <<file, w_buffer, i>>
    BY <1>6 DEF CloseWriter, CallWriter, Writer!Call, Live, Books, FailuresOK
  <2>2. First' = First /\ Taken' = Taken /\ Loop'
    BY <2>1 DEF Writing, Live, First, Taken, Loop, TBUFSIZ
  <2> QED
    BY <2>1, <2>2, WritingFrame
<1>7. CASE OpenReader \/ GetcNext
  <2>1. CASE OpenReader
    BY <2>1 DEF OpenReader, Writing
  <2>2. CASE GetcNext
    <3>1. at' = "getc" /\ i' = i + 1 /\ i < TBUFSIZ
      BY <2>2 DEF GetcNext
    <3> QED
      BY <3>1 DEF Writing
  <2> QED
    BY <1>7, <2>1, <2>2
<1>8. CASE OpenFailed \/ PutcFailed \/ CloseFailed \/ OpenReaderFailed
  <2>1. at' \in {"rs_err", "rs"} /\ i' = i
    BY <1>8 DEF OpenFailed, PutcFailed, CloseFailed, OpenReaderFailed, WriterPropagates, if_Ok_Err
  <2> QED
    BY <2>1 DEF Writing
<1>9. CASE \/ Getc \/ GetcFailed \/ GetcWrong \/ CloseReader \/ CloseReaderFailed \/ CloseReaderOk
           \/ rmc \/ DropReaderClose \/ ReleaseReader \/ rs \/ DropWriterClose \/ ReleaseWriter
           \/ rs_Union \/ CHECK \/ ExitWithIssues
  <2>1. at' \notin WriterFirst /\ i' = i
    BY <1>9 DEF Getc, GetcFailed, GetcWrong, CloseReader, CloseReaderFailed, CloseReaderOk, rmc,
       DropReaderClose, ReleaseReader, rs, DropWriterClose, ReleaseWriter, rs_Union, CHECK,
       ExitWithIssues, ReaderPropagates, CallReader, CallWriter
  <2> QED
    BY <2>1 DEF Writing
<1> QED
  BY <1>1, <1>2, <1>3, <1>4, <1>5, <1>6, <1>7, <1>8, <1>9, Zenon DEF Test

LEMMA PutcByteWriting ==
  ASSUME Books, Writing, i \in 0 .. TBUFSIZ, Writer!PutcByte, UNCHANGED <<readerVars, testVars>>
  PROVE  Writing'
<1> DEFINE e == w_buffer.endpos
<1>1. /\ at = "ru" /\ at' = "ru" /\ w_pc = "putc" /\ w_pc' = "ready" /\ failures = 0
      /\ Live /\ UNCHANGED <<i, file, failures>> /\ w_buffer.startpos < w_buffer.size
      /\ w_buffer' = Writer!Buffer_putc(w_buffer, w_arg)
  BY DEF Writer!PutcByte, Writer!Putting, Writer!Buffer_has_room, Live, Books, PlaceOK,
         WriterPlace, FailuresOK
<1>2. /\ Placed(w_buffer) /\ file \in Seq(Byte) /\ Holds /\ w_buffer.startpos = e
      /\ i < TBUFSIZ /\ w_arg = buf[i + 1] /\ w_arg \in Byte
  BY <1>1, SizeOfBuf DEF Writing, Live, Loop
<1>3. /\ Placed(w_buffer') /\ w_buffer'.startpos = e + 1 /\ w_buffer'.endpos = e + 1
      /\ w_buffer'.data = [w_buffer.data EXCEPT ![e] = w_arg]
  BY <1>1, <1>2, PutIsPlaced
<1>4. e \in Nat /\ Len(file) \in Nat /\ First = 0 /\ First' = 0 /\ Taken = i /\ Taken' = i + 1
      /\ e < w_buffer.size /\ w_buffer.size \in Nat
      /\ w_buffer.data \in [0 .. w_buffer.size - 1 -> Byte \cup {Uninit}]
  BY <1>1, <1>2 DEF Placed, First, Taken
<1>5. Len(file) + e = i
  BY <1>2, <1>4 DEF Holds
<1>6. ASSUME NEW k \in Nat, k < e + 1 PROVE w_buffer'.data[k] = buf[Len(file) + (k - 0) + 1]
  <2>1. CASE k = e
    <3>1. e \in DOMAIN w_buffer.data /\ Len(file) + (k - 0) + 1 = i + 1
      BY <1>4, <1>5, <2>1
    <3> QED
      BY <1>2, <1>3, <2>1, <3>1
  <2>2. CASE k < e
    <3>1. w_buffer'.data[k] = w_buffer.data[k]
      BY <1>3, <1>4, <2>2
    <3>2. w_buffer.data[k] = buf[Len(file) + (k - First) + 1]
      BY <1>2, <1>4, <2>2 DEF Holds
    <3> QED
      BY <1>4, <3>1, <3>2
  <2> QED
    BY <1>4, <1>6, <2>1, <2>2
<1>7. Holds'
  <2>1. Len(file') + (w_buffer'.endpos - First') = Taken'
    BY <1>1, <1>3, <1>4, <1>5
  <2>2. \A k \in 1 .. Len(file') : file'[k] = buf[k]
    BY <1>1, <1>2 DEF Holds
  <2>3. \A k \in Nat : First' <= k /\ k < w_buffer'.endpos
           => w_buffer'.data[k] = buf[Len(file') + (k - First') + 1]
    <3>1. file' = file /\ First' = 0 /\ w_buffer'.endpos = e + 1
      BY <1>1, <1>3, <1>4
    <3> QED
      BY <1>6, <3>1
  <2> QED
    BY <2>1, <2>2, <2>3 DEF Holds
<1>8. Loop'
  BY <1>1, <1>2, <1>3, <1>4, SizeOfBuf DEF Loop, TBUFSIZ
<1>9. Placed(w_buffer)' /\ file' \in Seq(Byte)
  BY <1>1, <1>2, <1>3 DEF Placed
<1> QED
  BY <1>1, <1>7, <1>8, <1>9 DEF Writing

LEMMA FlushFileWriting ==
  ASSUME Books, Writing, i \in 0 .. TBUFSIZ, Live, Writer!FlushFile,
         UNCHANGED <<readerVars, testVars>>
  PROVE  Writing'
<1>1. /\ w_pc = "flush" /\ w_pc' = "write" /\ UNCHANGED <<at, i, file, failures, w_arg>>
      /\ w_buffer' = [w_buffer EXCEPT !.startpos = 0] /\ at \in {"ru", "if_Ok"}
  BY DEF Writer!FlushFile, Live, Books, PlaceOK, WriterPlace
<1>2. Placed(w_buffer) /\ file \in Seq(Byte) /\ Holds /\ Loop
  BY DEF Writing, Live
<1>3. Placed(w_buffer') /\ w_buffer'.startpos = 0 /\ w_buffer'.endpos = w_buffer.endpos
      /\ w_buffer'.data = w_buffer.data
  BY <1>1, <1>2, RewindIsPlaced
<1>4. First = 0 /\ First' = 0 /\ Taken' = Taken
  BY <1>1, <1>3 DEF First, Taken
<1>5. Holds' /\ Loop' /\ Placed(w_buffer)' /\ file' \in Seq(Byte)
  BY <1>1, <1>2, <1>3, <1>4 DEF Holds, Loop, Placed
<1> QED
  BY <1>1, <1>5 DEF Writing, Live

LEMMA WriteAllWriting ==
  ASSUME Books, Writing, i \in 0 .. TBUFSIZ, Live, Writer!WriteAll,
         UNCHANGED <<readerVars, testVars>>
  PROVE  Writing'
<1> DEFINE l == w_buffer.endpos - w_buffer.startpos
<1>1. /\ w_pc = "write" /\ w_pc' \in {"putc", "sysclose"} /\ UNCHANGED <<at, i, failures, w_arg>>
      /\ file' = file \o Writer!Content(w_buffer) /\ w_buffer' = Writer!Buffer_clear(w_buffer)
      /\ at \in {"ru", "if_Ok"} /\ w_pc' = "sysclose" => at = "if_Ok"
  BY DEF Writer!WriteAll, Writer!FlushReturns, Live, Books, PlaceOK, WriterPlace
<1>2. Placed(w_buffer) /\ file \in Seq(Byte) /\ Holds /\ Loop
  BY DEF Writing, Live
<1>3. Placed(w_buffer') /\ w_buffer'.startpos = 0 /\ w_buffer'.endpos = 0
  BY <1>1, <1>2, ClearIsPlaced
<1>4. l \in Nat /\ Taken \in Nat /\ Taken <= TBUFSIZ /\ Taken = i /\ Taken' = i
      /\ First = w_buffer.startpos /\ First' = 0 /\ Len(file) \in Nat
  BY <1>1, <1>2, SizeOfBuf DEF Placed, Taken, First, Loop
<1>5. Writer!Content(w_buffer) = SubSeq(Writer!Content(w_buffer), 1, l)
  <2>1. Writer!Content(w_buffer) = [k \in 1 .. l |-> w_buffer.data[w_buffer.startpos + k - 1]]
    BY DEF Writer!Content, Writer!LSlice_length
  <2>2. \A k \in 1 .. l : w_buffer.data[w_buffer.startpos + k - 1] \in Byte \cup {Uninit}
    BY <1>2 DEF Placed
  <2>3. Writer!Content(w_buffer) \in Seq(Byte \cup {Uninit}) /\ Len(Writer!Content(w_buffer)) = l
    BY <1>4, <2>1, <2>2
  <2> QED
    BY <1>4, <2>3
<1>6. /\ file' \in Seq(Byte) /\ Len(file') = Len(file) + l
      /\ \A k \in 1 .. Len(file') : file'[k] = buf[k]
  <2>1. PICK n \in Nat : n = l
    BY <1>4
  <2>2. n <= w_buffer.endpos - w_buffer.startpos
        /\ file' = file \o SubSeq(Writer!Content(w_buffer), 1, n)
    BY <1>1, <1>5, <2>1
  <2> HIDE DEF l
  <2> QED
    BY <1>1, <1>2, <1>4, <2>1, <2>2, Transfer
<1>7. Len(file) + l = i
  BY <1>2, <1>4 DEF Holds
<1>8. Holds'
  BY <1>3, <1>4, <1>6, <1>7 DEF Holds
<1>9. Loop' /\ Placed(w_buffer)'
  BY <1>1, <1>2, <1>3, <1>4 DEF Loop, Placed
<1> QED
  BY <1>1, <1>6, <1>8, <1>9 DEF Writing, Live

LEMMA WritePartWriting ==
  ASSUME Books, Writing, i \in 0 .. TBUFSIZ, Live, NEW n \in 1 .. w_buffer.size,
         Writer!WritePart(n), UNCHANGED <<readerVars, testVars>>
  PROVE  Writing'
<1> DEFINE l == w_buffer.endpos - w_buffer.startpos
           s == w_buffer.startpos
<1>1. /\ w_pc = "write" /\ w_pc' = "write" /\ UNCHANGED <<at, i, failures, w_arg>>
      /\ file' = file \o SubSeq(Writer!Content(w_buffer), 1, n)
      /\ w_buffer' = [w_buffer EXCEPT !.startpos = @ + n] /\ n < l
      /\ at \in {"ru", "if_Ok"}
  BY DEF Writer!WritePart, Writer!Written, Writer!LSlice_length, Live, Books, PlaceOK, WriterPlace
<1>2. Placed(w_buffer) /\ file \in Seq(Byte) /\ Holds /\ Loop
  BY DEF Writing, Live
<1>3. n \in Nat /\ l \in Nat /\ s \in Nat /\ w_buffer.endpos \in Nat /\ Taken \in Nat
      /\ Taken <= TBUFSIZ /\ Taken' = Taken /\ n <= l /\ Len(file) \in Nat
  BY <1>1, <1>2, SizeOfBuf DEF Placed, Taken, Loop
<1>4. /\ Placed(w_buffer') /\ w_buffer'.startpos = s + n
      /\ w_buffer'.endpos = w_buffer.endpos /\ w_buffer'.data = w_buffer.data
  BY <1>1, <1>2, <1>3, AdvanceIsPlaced
<1>5. First = s /\ First' = s + n
  BY <1>1, <1>4 DEF First
<1>6. /\ file' \in Seq(Byte) /\ Len(file') = Len(file) + n
      /\ \A k \in 1 .. Len(file') : file'[k] = buf[k]
  BY <1>1, <1>2, <1>3, Transfer
<1>7. Len(file') + (w_buffer.endpos - (s + n)) = Taken
  <2>1. Len(file) + (w_buffer.endpos - s) = Taken
    BY <1>2, <1>5 DEF Holds
  <2> QED
    BY <1>3, <1>6, <2>1
<1>8. ASSUME NEW k \in Nat, s + n <= k, k < w_buffer.endpos
      PROVE  w_buffer.data[k] = buf[Len(file') + (k - (s + n)) + 1]
  <2>1. s <= k /\ Len(file') + (k - (s + n)) + 1 = Len(file) + (k - s) + 1
    BY <1>3, <1>6, <1>8
  <2>2. w_buffer.data[k] = buf[Len(file) + (k - s) + 1]
    BY <1>2, <1>5, <1>8, <2>1 DEF Holds
  <2> QED
    BY <2>1, <2>2
<1>9. Holds'
  BY <1>3, <1>4, <1>5, <1>6, <1>7, <1>8 DEF Holds
<1>10. Loop' /\ Placed(w_buffer)'
  BY <1>1, <1>2, <1>3, <1>4 DEF Loop, Placed
<1> QED
  BY <1>1, <1>6, <1>9, <1>10 DEF Writing, Live

\* The other steps of rs while it is live, and not yet failed.
LEMMA WriterWriting ==
  ASSUME Books, Writing, i \in 0 .. TBUFSIZ, UNCHANGED <<readerVars, testVars>>,
         Writer!Progress \/ Writer!SysCloseInterrupted
  PROVE  Writing'
<1>1. at' = at /\ at # "open" /\ i' = i /\ failures \in Nat /\ failures <= failures'
  <2>1. w_pc # "none" /\ (failures' = failures \/ failures' = failures + 1)
    BY NeverWriterRead DEF Writer!Progress, Writer!SysCloseInterrupted, Writer!Getc,
       Writer!GetcRefused, Writer!GetcByte,
       Writer!GetcEnd, Writer!GetcFailed, Writer!GetcRefill, Writer!Getting, Writer!Putc,
       Writer!PutcRefused, Writer!PutcByte, Writer!PutcNoSpace, Writer!PutcFlush, Writer!Putting,
       Writer!Flush, Writer!FlushNothing, Writer!FlushFile, Writer!Write, Writer!WriteAll,
       Writer!WritePart, Writer!WriteFails, Writer!Close, Writer!CloseRefused, Writer!CloseBuffer,
       Writer!CloseFile, Writer!SysClose, Writer!SysCloseSucceeds, Writer!SysCloseFails
  <2> QED
    BY <2>1 DEF Books, PlaceOK, WriterPlace, FailuresOK
<1>2. CASE ~Live'
  BY <1>1, <1>2 DEF Live, Writing
<1>3. CASE Live' /\ Live
  <2>1. ~w_is_closed \/ w_pc = "ready"
    BY <1>3 DEF Live, Books, PlaceOK, WriterPlace, WriterOK
  <2>2. CASE Writer!Getc
    <3>1. /\ at = "rmc0" /\ w_pc = "getc" /\ w_pc' = "ready" /\ UNCHANGED <<file, w_buffer>>
      BY <2>2 DEF Writer!Getc, Writer!GetcRefused, Writer!GetcByte, Writer!GetcEnd,
         Writer!GetcFailed, Writer!GetcRefill, Writer!Getting, Books, PlaceOK, WriterPlace
    <3>2. First' = First /\ Taken' = Taken /\ Loop'
      BY <1>1, <1>3, <3>1 DEF Writing, Live, First, Taken, Loop
    <3> QED
      BY <1>1, <1>3, <3>1, <3>2, WritingFrame
  <2>3. CASE Writer!PutcByte
    BY <2>3, PutcByteWriting
  <2>4. CASE Writer!Putc /\ ~Writer!PutcByte
    <3>1. /\ at = "ru" /\ w_pc = "putc" /\ w_pc' = "flush" /\ UNCHANGED <<file, w_buffer, w_arg>>
      BY <2>1, <2>4 DEF Writer!Putc, Writer!PutcRefused, Writer!PutcNoSpace, Writer!PutcFlush,
         Writer!Putting, Books, PlaceOK, WriterPlace
    <3>2. First' = First /\ Taken' = Taken /\ Loop'
      BY <1>1, <1>3, <3>1 DEF Writing, Live, First, Taken, Loop, TBUFSIZ
    <3> QED
      BY <1>1, <1>3, <3>1, <3>2, WritingFrame
  <2>5. CASE Writer!Flush
    <3>1. Writer!FlushFile
      BY <2>1, <2>5 DEF Writer!Flush, Writer!FlushNothing
    <3> QED
      BY <1>3, <3>1, FlushFileWriting
  <2>6. CASE Writer!WriteAll
    BY <1>3, <2>6, WriteAllWriting
  <2>7. ASSUME NEW n \in 1 .. w_buffer.size, Writer!WritePart(n) PROVE Writing'
    BY <1>3, <2>7, WritePartWriting
  <2>8. CASE Writer!WriteFails \/ Writer!SysCloseFails
    BY <1>3, <2>8 DEF Writer!WriteFails, Writer!SysCloseFails, Live
  <2>9. CASE Writer!Close
    <3>1. /\ at = "if_Ok" /\ w_pc = "close" /\ w_pc' = "flush" /\ UNCHANGED <<file, w_buffer>>
      BY <1>3, <2>1, <2>9 DEF Writer!Close, Writer!CloseRefused, Writer!CloseBuffer,
         Writer!CloseFile, Live, Books, PlaceOK, WriterPlace
    <3>2. First' = First /\ Taken' = Taken /\ Loop'
      BY <1>1, <1>3, <3>1 DEF Writing, Live, First, Taken, Loop, TBUFSIZ
    <3> QED
      BY <1>1, <1>3, <3>1, <3>2, WritingFrame
  <2>10. CASE Writer!SysCloseSucceeds
    <3>1. /\ at = "if_Ok" /\ w_pc = "sysclose" /\ w_pc' = "ready" /\ file' = file
          /\ w_buffer' = Writer!Buffer_clear(w_buffer)
      BY <1>3, <2>10 DEF Writer!SysCloseSucceeds, Writer!Closed, Live, Books, PlaceOK, WriterPlace
    <3>2. Placed(w_buffer) /\ file \in Seq(Byte) /\ Holds /\ Loop /\ w_buffer.endpos = 0
      BY <1>3, <3>1 DEF Writing, Live, Loop
    <3>3. Placed(w_buffer') /\ w_buffer'.startpos = 0 /\ w_buffer'.endpos = 0
      BY <3>1, <3>2, ClearIsPlaced
    <3>4. First = 0 /\ First' = 0 /\ Taken' = Taken
      BY <1>1, <3>1 DEF First, Taken
    <3>5. Holds'
      BY <3>1, <3>2, <3>3, <3>4 DEF Holds
    <3>6. Loop'
      BY <1>1, <3>1, <3>2, <3>3, <3>4 DEF Loop
    <3>7. Placed(w_buffer)' /\ file' \in Seq(Byte)
      BY <3>1, <3>2, <3>3 DEF Placed
    <3> QED
      BY <1>1, <3>5, <3>6, <3>7 DEF Writing
  <2>11. CASE Writer!SysCloseInterrupted
    <3>1. at = "if_Ok" /\ w_pc = "sysclose" /\ w_pc' = w_pc /\ UNCHANGED <<file, w_buffer>>
      BY <1>3, <2>11 DEF Writer!SysCloseInterrupted, Live, Books, PlaceOK, WriterPlace
    <3>2. First' = First /\ Taken' = Taken /\ Loop'
      BY <1>1, <1>3, <3>1 DEF Writing, Live, First, Taken, Loop, TBUFSIZ
    <3> QED
      BY <1>1, <1>3, <3>1, <3>2, WritingFrame
  <2> QED
    BY <2>2, <2>3, <2>4, <2>5, <2>6, <2>7, <2>8, <2>9, <2>10, <2>11, NeverWriterRead, Zenon
       DEF Writer!Progress, Writer!Write, Writer!SysClose
<1>4. CASE Live' /\ ~Live
  <2>1. failures = 0
    BY <1>1, <1>4 DEF Live
  <2>2. w_pc = "released"
    BY <1>1, <1>4, <2>1 DEF Live
  <2> QED
    BY <2>2, NeverWriterRead DEF Writer!Progress, Writer!SysCloseInterrupted, Writer!Getc,
       Writer!GetcRefused,
       Writer!GetcByte, Writer!GetcEnd, Writer!GetcFailed, Writer!GetcRefill, Writer!Getting,
       Writer!Putc, Writer!PutcRefused, Writer!PutcByte, Writer!PutcNoSpace, Writer!PutcFlush,
       Writer!Putting, Writer!Flush, Writer!FlushNothing, Writer!FlushFile, Writer!Write,
       Writer!WriteAll, Writer!WritePart, Writer!WriteFails, Writer!Close, Writer!CloseRefused,
       Writer!CloseBuffer, Writer!CloseFile, Writer!SysClose, Writer!SysCloseSucceeds,
       Writer!SysCloseFails
<1> QED
  BY <1>2, <1>3, <1>4

-----------------------------------------------------------------------------
(* What s2 reads *)

\* Nobody writes to the file while it is read, but for another process.
LEMMA WriterFile ==
  ASSUME Books, Writer!Progress \/ Writer!SysCloseInterrupted
  PROVE  /\ w_pc \notin {"ready", "none", "released"} /\ (file' = file \/ r_pc = "none")
         /\ w_pc' # "released" /\ (failures' = failures \/ failures' = failures + 1)
<1>1. CASE Writer!Write
  <2>1. /\ w_pc = "write" /\ w_pc' # "released"
        /\ (failures' = failures \/ failures' = failures + 1)
    BY <1>1 DEF Writer!Write, Writer!WriteAll, Writer!WritePart, Writer!WriteFails,
       Writer!FlushReturns
  <2>2. r_pc = "none"
    BY <2>1 DEF Books, PlaceOK, WriterPlace, ReaderPlace, WriterOK, FailuresOK
  <2> QED
    BY <2>1, <2>2
<1>2. CASE ~Writer!Write
  BY <1>2, NeverWriterRead DEF Writer!Progress, Writer!SysCloseInterrupted, Writer!Getc,
     Writer!GetcRefused, Writer!GetcByte, Writer!GetcEnd, Writer!GetcFailed, Writer!GetcRefill,
     Writer!Getting, Writer!Putc, Writer!PutcRefused, Writer!PutcByte, Writer!PutcNoSpace,
     Writer!PutcFlush, Writer!Putting, Writer!Flush, Writer!FlushNothing, Writer!FlushFile,
     Writer!FlushReturns, Writer!Close, Writer!CloseRefused, Writer!CloseBuffer,
     Writer!CloseFile, Writer!SysClose, Writer!SysCloseSucceeds, Writer!SysCloseFails,
     Writer!Closed
<1> QED
  BY <1>1, <1>2

\* The steps of s2, in and out of which it is neither new nor released.
LEMMA ReaderFile ==
  ASSUME Books, Reader!Progress \/ Reader!SysCloseInterrupted
  PROVE  /\ r_pc \notin {"ready", "none", "released"} /\ file' = file
         /\ r_pc' \notin {"none", "released"}
         /\ (failures' = failures \/ failures' = failures + 1)
BY NeverReaderWrites DEF Reader!Progress, Reader!SysCloseInterrupted, Reader!Getc,
   Reader!GetcRefused, Reader!GetcByte, Reader!GetcEnd, Reader!GetcFailed, Reader!GetcRefill,
   Reader!Getting, Reader!Read, Reader!ReadBytes, Reader!ReadEOF, Reader!ReadFails,
   Reader!Close, Reader!CloseRefused, Reader!CloseBuffer, Reader!CloseFile, Reader!SysClose,
   Reader!SysCloseSucceeds, Reader!SysCloseFails, Reader!Closed

\* The steps of the test do not touch the file, and open s2 once.
LEMMA TestFile ==
  ASSUME Books, Test
  PROVE  /\ file' = file /\ failures' = failures
         /\ r_pc = "none" /\ r_pc' # "none" => OpenReader
         /\ r_pc # "none" => r_pc' # "none"
<1>1. CASE Open
  BY <1>1, WriterOpened DEF Open, Writer!open_BufferedStream
<1>2. CASE OpenReader
  BY <1>2, ReaderOpened DEF OpenReader, Reader!open_BufferedStream
<1>3. CASE GetcMustFail \/ Putc \/ CloseWriter \/ rs
  BY <1>3 DEF GetcMustFail, Putc, CloseWriter, rs, CallWriter, Writer!Call
<1>4. CASE Getc \/ GetcNext \/ CloseReader \/ rmc
  BY <1>4 DEF Getc, GetcNext, CloseReader, rmc, CallReader, Reader!Call
<1>5. CASE ReleaseReader
  BY <1>5 DEF ReleaseReader, Reader!BufferedStream_release
<1>6. CASE ReleaseWriter
  BY <1>6 DEF ReleaseWriter, Writer!BufferedStream_release
<1>7. CASE \/ OpenFailed \/ AssertRefused \/ PutcOk \/ PutcFailed \/ CloseFailed
           \/ OpenReaderFailed \/ GetcFailed \/ GetcWrong
  BY <1>7 DEF OpenFailed, AssertRefused, PutcOk, PutcFailed, CloseFailed, OpenReaderFailed,
     GetcFailed, GetcWrong, WriterPropagates, ReaderPropagates, if_Ok_Err
<1>8. CASE \/ CloseReaderFailed \/ CloseReaderOk \/ DropReaderClose \/ DropWriterClose
           \/ rs_Union \/ CHECK \/ ExitWithIssues
  BY <1>8 DEF CloseReaderFailed, CloseReaderOk, DropReaderClose, DropWriterClose, rs_Union,
     CHECK, ExitWithIssues, ReaderPropagates
<1> QED
  BY <1>1, <1>2, <1>3, <1>4, <1>5, <1>6, <1>7, <1>8, Zenon DEF Test

LEMMA FileFrame ==
  ASSUME FileComplete, file' = file, r_pc # "none" PROVE FileComplete'
BY DEF FileComplete, TBUFSIZ

LEMMA FileGrowsAtEnd ==
  ASSUME Books, NEW b \in Byte, Reader!FileGrows(b)
  PROVE  file' = Append(file, b) /\ r_pc # "none" /\ UNCHANGED <<readerVars, failures>>
BY DEF Reader!FileGrows, Books, ReaderOK

LEMMA NextFileComplete == ASSUME Books, Writing, FileComplete, [Next]_vars PROVE FileComplete'
<1>1. CASE Test
  <2>1. CASE OpenReader
    <3>1. at = "if_Ok" /\ w_pc = "ready" /\ ~w_result.is_err /\ file' = file
      BY <1>1, <2>1, TestFile DEF OpenReader
    <3>a. failures = 0
      BY <3>1 DEF Books, FailuresOK
    <3>2. Len(file) = TBUFSIZ /\ file \in Seq(Byte) /\ \A k \in 1 .. TBUFSIZ : file[k] = buf[k]
      BY <3>1, <3>a, AllWritten DEF Writing
    <3> QED
      BY <3>1, <3>2, SizeOfBuf DEF FileComplete, TBUFSIZ
  <2>2. CASE ~OpenReader
    BY <1>1, <2>2, TestFile, FileFrame DEF FileComplete
  <2> QED
    BY <2>1, <2>2
<1>2. CASE (Writer!Progress \/ Writer!SysCloseInterrupted) /\ UNCHANGED <<readerVars, testVars>>
  BY <1>2, WriterFile, FileFrame DEF FileComplete
<1>3. CASE Reader!Progress \/ Reader!SysCloseInterrupted
  BY <1>3, ReaderFile, FileFrame
<1>4. ASSUME NEW b \in Byte, Reader!FileGrows(b) PROVE FileComplete'
  <2>1. file' = Append(file, b) /\ file \in Seq(Byte) /\ TBUFSIZ <= Len(file)
        /\ \A k \in 1 .. TBUFSIZ : file[k] = buf[k]
    BY <1>4, FileGrowsAtEnd DEF FileComplete
  <2>2. file' \in Seq(Byte) /\ Len(file') = Len(file) + 1
        /\ \A k \in 1 .. Len(file) : file'[k] = file[k]
    BY <2>1
  <2>3. TBUFSIZ <= Len(file') /\ \A k \in 1 .. TBUFSIZ : file'[k] = buf[k]
    BY <2>1, <2>2, SizeOfBuf
  <2> QED
    BY <2>2, <2>3 DEF FileComplete, TBUFSIZ
<1>5. CASE UNCHANGED vars
  BY <1>5, FileFrame DEF vars, FileComplete
<1> QED
  BY <1>1, <1>2, <1>3, <1>4, <1>5, Zenon DEF Next, StreamProgress, Environment, Exited

\* A step that leaves alone what is read and what was read.
LEMMA ReadsFrame ==
  ASSUME Reads, UNCHANGED <<file, r_buffer, r_got, r_offset, r_is_exhausted>>, Compared',
         r_pc' # "read"
  PROVE  Reads'
BY DEF Reads, InOrder, TBUFSIZ, Placed

LEMMA TestReading ==
  ASSUME Books, Reading, FileComplete', Test
  PROVE  Reading'
<1> USE DEF Reading
<1>1. CASE OpenReader
  <2>1. /\ r_pc = "none" /\ at' = "if_let_Ok" /\ i' = 0 /\ r_got = <<>> /\ r_offset = 0
        /\ ~r_is_exhausted /\ UNCHANGED <<file, r_got, r_offset, r_is_exhausted>>
    <3>1. r_pc = "none" /\ at' = "if_let_Ok" /\ i' = 0
      BY <1>1 DEF OpenReader, Reader!open_BufferedStream, Reader!FileStream
    <3>2. UNCHANGED <<file, r_got, r_offset, r_is_exhausted>>
      BY <1>1, ReaderOpened DEF OpenReader, Reader!open_BufferedStream
    <3> QED
      BY <3>1, <3>2
  <2>2. CASE Reader!FileStream({"IN"}, FALSE)
    <3>1. r_pc' = "ready" /\ r_result' = r_result /\ ~r_result.is_err
          /\ r_buffer' = Writer!Buffer_from_buf([k \in 0 .. BufferSize - 1 |-> Uninit], BufferSize)
      <4>1. r_pc' = "ready" /\ r_result' = r_result /\ ~r_result.is_err
        BY <2>1, <2>2, ReaderOpened, <1>1 DEF OpenReader, Books, PlaceOK, ReaderPlace
      <4>2. r_buffer' = Reader!Buffer_from_buf([k \in 0 .. BufferSize - 1 |-> Uninit], BufferSize)
        BY <2>2 DEF Reader!FileStream
      <4> QED
        BY <4>1, <4>2 DEF Reader!Buffer_from_buf, Writer!Buffer_from_buf
    <3>2. Placed(r_buffer') /\ r_buffer'.startpos = 0 /\ r_buffer'.endpos = 0
      BY <3>1, NewIsPlaced
    <3>3. file' \in Seq(Byte) /\ Len(file') \in Nat
      BY <3>1 DEF FileComplete
    <3>4. r_got' = <<>> /\ Len(r_got') = 0 /\ r_got' \in Seq(Byte) /\ r_offset' = 0
      BY <2>1
    <3>5. InOrder'
      BY <3>2, <3>4 DEF InOrder
    <3>6. Compared'
      BY <2>1, <3>4 DEF Compared
    <3>7. Placed(r_buffer)' /\ r_offset' \in 0 .. Len(file')
      BY <3>2, <3>3, <3>4 DEF Placed
    <3> QED
      BY <2>1, <3>1, <3>4, <3>5, <3>6, <3>7 DEF Reads
  <2>3. CASE ~Reader!FileStream({"IN"}, FALSE)
    <3>1. r_pc' = "released"
      BY <1>1, <2>3 DEF OpenReader, Reader!open_BufferedStream
    <3> QED
      BY <3>1 DEF Busy
  <2> QED
    BY <2>2, <2>3
<1>2. CASE Getc
  <2>1. /\ at = "if_let_Ok" /\ at' = "getc" /\ r_pc = "ready" /\ r_pc' = "getc" /\ i' = i
        /\ UNCHANGED <<file, r_buffer, r_got, r_offset, r_is_exhausted>>
    BY <1>2 DEF Getc, CallReader, Reader!Call
  <2>2. Busy /\ Compared'
    BY <2>1 DEF Busy, Reads, Compared
  <2> QED
    BY <2>1, <2>2, ReadsFrame
<1>3. CASE GetcNext
  <2>1. /\ at = "getc" /\ at' = "getc" /\ r_pc = "ready" /\ r_pc' = "getc" /\ i' = i + 1
        /\ i < TBUFSIZ /\ AsWritten(r_result.value) /\ ~r_result.is_err
        /\ UNCHANGED <<file, r_buffer, r_got, r_offset, r_is_exhausted>>
    BY <1>3 DEF GetcNext, Reader!Call
  <2>2. Busy /\ Compared /\ Reads
    BY <2>1 DEF Busy, Reads
  <2>3. i = Len(r_got) \/ i + 1 = Len(r_got)
    BY <2>1, <2>2 DEF Compared
  <2>4. Len(r_got) \in Nat
    BY <2>2 DEF Reads
  <2>5. r_result.value # None
    <3>1. CASE r_result.value = None
      <4>1. TBUFSIZ <= i /\ Len(r_got) = i
        BY <2>1, <2>2, <3>1 DEF Compared
      <4> QED
        BY <2>1, <2>4, <4>1, SizeOfBuf
    <3> QED
      BY <3>1
  <2>6. Compared'
    BY <2>1, <2>2, <2>5 DEF Compared
  <2> QED
    BY <2>1, <2>2, <2>6, ReadsFrame
<1>4. CASE \/ Open \/ OpenFailed \/ GetcMustFail \/ AssertRefused \/ Putc \/ PutcOk \/ PutcFailed
           \/ CloseWriter \/ CloseFailed
  <2>1. at' \notin {"if_let_Ok", "getc"} /\ UNCHANGED <<r_pc, r_got, r_offset, r_is_exhausted>>
    BY <1>4 DEF Open, OpenFailed, GetcMustFail, AssertRefused, Putc, PutcOk, PutcFailed,
       CloseWriter, CloseFailed, CallWriter, WriterPropagates, if_Ok_Err
  <2> QED
    BY <2>1 DEF Busy
<1>5. CASE \/ OpenReaderFailed \/ GetcFailed \/ GetcWrong \/ CloseReader \/ CloseReaderFailed
           \/ CloseReaderOk \/ rmc \/ DropReaderClose \/ ReleaseReader
  <2>1. at' \notin {"if_let_Ok", "getc"} /\ r_pc # "none"
    BY <1>5 DEF OpenReaderFailed, GetcFailed, GetcWrong, CloseReader, CloseReaderFailed,
       CloseReaderOk, rmc, DropReaderClose, ReleaseReader, CallReader, ReaderPropagates,
       Books, PlaceOK, ReaderPlace
  <2> QED
    BY <2>1, TestFile DEF Busy
<1>6. CASE rs \/ DropWriterClose \/ ReleaseWriter \/ rs_Union \/ CHECK \/ ExitWithIssues
  <2>1. at' \notin {"if_let_Ok", "getc"} /\ UNCHANGED <<r_pc, r_got, r_offset, r_is_exhausted>>
    BY <1>6 DEF rs, DropWriterClose, ReleaseWriter, rs_Union, CHECK, ExitWithIssues, CallWriter
  <2> QED
    BY <2>1 DEF Busy
<1> QED
  BY <1>1, <1>2, <1>3, <1>4, <1>5, <1>6, Zenon DEF Test

LEMMA GetcByteReading ==
  ASSUME Books, Busy, Reads, FileComplete, i \in 0 .. TBUFSIZ, Reader!GetcByte,
         UNCHANGED <<writerVars, testVars>>
  PROVE  Reads'
<1> DEFINE s == r_buffer.startpos
           e == r_buffer.endpos
           g == Len(r_got)
           b == r_buffer.data[s]
<1>1. /\ at = "getc" /\ r_pc = "getc" /\ r_pc' = "ready" /\ s < e /\ r_got' = Append(r_got, b)
      /\ r_buffer' = [r_buffer EXCEPT !.startpos = @ + 1]
      /\ r_result' = Reader!Ok(b)
      /\ UNCHANGED <<at, i, file, r_offset, r_is_exhausted>>
  <2>1. r_pc = "getc" /\ r_pc' = "ready" /\ ~Reader!LSlice_is_empty(r_buffer)
        /\ r_got' = Append(r_got, b) /\ r_result' = Reader!Ok(b)
        /\ r_buffer' = [r_buffer EXCEPT !.startpos = @ + 1]
        /\ UNCHANGED <<at, i, file, r_offset, r_is_exhausted>>
    BY DEF Reader!GetcByte, Reader!Getting, Reader!LSlice_ref_start, Reader!Buffer_getc
  <2>2. at = "getc"
    BY <2>1 DEF Books, PlaceOK, ReaderPlace, Busy
  <2>3. s < e
    BY <2>1 DEF Reader!LSlice_is_empty, Reads, Placed
  <2> QED
    BY <2>1, <2>2, <2>3
<1>2. /\ Placed(r_buffer) /\ s \in Nat /\ e \in Nat /\ g \in Nat /\ r_got \in Seq(Byte)
      /\ r_offset \in 0 .. Len(file) /\ g + (e - s) = r_offset /\ g = i
      /\ r_offset \in Nat
  BY <1>1 DEF Reads, Placed, InOrder, Compared, FileComplete, Busy
<1>3. file \in Seq(Byte) /\ Len(file) \in Nat
  BY <1>1 DEF FileComplete, Books, PlaceOK, ReaderPlace
<1>4. b = file[g + 1]
  <2>1. \A k \in Nat : s <= k /\ k < e => r_buffer.data[k] = file[g + (k - s) + 1]
    BY DEF Reads, InOrder
  <2>2. s <= s /\ g + (s - s) + 1 = g + 1
    BY <1>2
  <2> HIDE DEF s, e, g
  <2> QED
    BY <1>1, <1>2, <2>1, <2>2
<1>5. b \in Byte
  <2>1. g + 1 \in 1 .. Len(file)
    BY <1>1, <1>2, <1>3
  <2> QED
    BY <1>3, <1>4, <2>1
<1>6. Placed(r_buffer') /\ r_buffer'.startpos = s + 1 /\ r_buffer'.endpos = e
      /\ r_buffer'.data = r_buffer.data
  <2>1. PICK n \in Nat : n = 1
    OBVIOUS
  <2>2. n <= r_buffer.endpos - r_buffer.startpos /\ r_buffer' = [r_buffer EXCEPT !.startpos = @ + n]
    BY <1>1, <1>2, <2>1
  <2> QED
    BY <1>2, <2>1, <2>2, AdvanceIsPlaced
<1> HIDE DEF b
<1>7. r_got' \in Seq(Byte) /\ Len(r_got') = g + 1 /\ r_got'[g + 1] = b
      /\ \A k \in 1 .. g : r_got'[k] = r_got[k]
  BY <1>1, <1>2, <1>5
<1>8. \A k \in 1 .. Len(r_got') : r_got'[k] = file[k]
  <2>1. \A k \in 1 .. g : r_got[k] = file[k]
    BY DEF Reads, InOrder
  <2>2. \A k \in 1 .. g + 1 : k \in 1 .. g \/ k = g + 1
    BY <1>2
  <2> QED
    BY <1>4, <1>7, <2>1, <2>2
<1>9. ASSUME NEW k \in Nat, s + 1 <= k, k < e
      PROVE  r_buffer.data[k] = file[(g + 1) + (k - (s + 1)) + 1]
  <2>1. s <= k /\ (g + 1) + (k - (s + 1)) + 1 = g + (k - s) + 1
    BY <1>2, <1>9
  <2>2. r_buffer.data[k] = file[g + (k - s) + 1]
    BY <1>9, <2>1 DEF Reads, InOrder
  <2> QED
    BY <2>1, <2>2
<1>10. InOrder'
  <2>1. (g + 1) + (e - (s + 1)) = r_offset
    BY <1>2
  <2> HIDE DEF s, e, g
  <2> QED
    BY <1>1, <1>6, <1>7, <1>8, <1>9, <2>1 DEF InOrder
<1>11. Compared'
  <2>1. ~r_result'.is_err /\ r_result'.value = b /\ b # None
    BY <1>1, <1>5, ByteAssumption
  <2> HIDE DEF s, e, g
  <2> QED
    BY <1>1, <1>2, <1>7, <2>1 DEF Compared
<1>12. Placed(r_buffer)' /\ r_offset' \in 0 .. Len(file')
  BY <1>1, <1>2, <1>6 DEF Placed
<1>13. r_is_exhausted' => TBUFSIZ <= r_offset'
  BY <1>1 DEF Reads
<1>14. TBUFSIZ' = TBUFSIZ
  BY DEF TBUFSIZ
<1> QED
  BY <1>1, <1>7, <1>10, <1>11, <1>12, <1>13, <1>14 DEF Reads

LEMMA ReadBytesReading ==
  ASSUME Books, Busy, Reads, FileComplete, NEW n \in 1 .. r_buffer.size, Reader!ReadBytes(n),
         UNCHANGED <<writerVars, testVars>>
  PROVE  Reads'
<1> DEFINE g == Len(r_got)
           d == [k \in DOMAIN r_buffer.data |-> IF k < n THEN file[r_offset + k + 1]
                                                         ELSE r_buffer.data[k]]
<1>1. /\ r_pc = "read" /\ r_pc' = "getc" /\ n <= Len(file) - r_offset
      /\ r_buffer' = [r_buffer EXCEPT !.startpos = 0, !.endpos = n, !.data = d]
      /\ r_offset' = r_offset + n
      /\ UNCHANGED <<at, i, file, r_got, r_is_exhausted, r_result>>
  BY DEF Reader!ReadBytes, Reader!Refilled
<1>2. /\ Placed(r_buffer) /\ g \in Nat /\ r_got \in Seq(Byte) /\ r_offset \in 0 .. Len(file)
      /\ r_buffer.startpos = r_buffer.endpos /\ r_offset \in Nat
      /\ g + (r_buffer.endpos - r_buffer.startpos) = r_offset
  BY <1>1 DEF Reads, InOrder
<1>3. file \in Seq(Byte) /\ Len(file) \in Nat
  BY <1>1 DEF FileComplete
<1>4. /\ r_buffer.size \in Nat /\ n \in Nat /\ n <= r_buffer.size /\ r_buffer.endpos \in Nat
      /\ r_buffer.data \in [0 .. r_buffer.size - 1 -> Byte \cup {Uninit}]
  BY <1>2 DEF Placed
<1>5. \A k \in 0 .. n - 1 : file[r_offset + k + 1] \in Byte
  <2>1. \A k \in 0 .. n - 1 : r_offset + k + 1 \in 1 .. Len(file)
    BY <1>1, <1>2, <1>3, <1>4
  <2> QED
    BY <1>3, <2>1
<1>6. d \in [0 .. r_buffer.size - 1 -> Byte \cup {Uninit}]
  BY <1>4, <1>5
<1>7. \A k \in 0 .. n - 1 : d[k] = file[r_offset + k + 1]
  BY <1>4
<1>8. g = r_offset
  BY <1>2, <1>4
<1> HIDE DEF d
<1>9. Placed(r_buffer') /\ r_buffer'.startpos = 0 /\ r_buffer'.endpos = n /\ r_buffer'.data = d
  <2>1. r_buffer' = Refill(r_buffer, n, d)
    BY <1>1 DEF Refill
  <2> QED
    BY <1>2, <1>4, <1>6, <2>1, RefillIsPlaced
<1>10. InOrder'
  <2>1. Len(r_got') + (n - 0) = r_offset'
    BY <1>1, <1>4, <1>8
  <2>2. \A k \in 1 .. Len(r_got') : r_got'[k] = file'[k]
    BY <1>1 DEF Reads, InOrder
  <2>3. ASSUME NEW k \in Nat, k < n PROVE d[k] = file[g + (k - 0) + 1]
    BY <1>4, <1>7, <1>8, <2>3
  <2> QED
    BY <1>1, <1>9, <2>1, <2>2, <2>3 DEF InOrder
<1>11. Compared'
  BY <1>1 DEF Reads, Compared
<1>12. Placed(r_buffer)' /\ r_offset' \in 0 .. Len(file')
  BY <1>1, <1>2, <1>3, <1>4, <1>9 DEF Placed
<1>13. r_is_exhausted' => TBUFSIZ <= r_offset'
  BY <1>1, <1>2, <1>4, SizeOfBuf DEF Reads
<1>14. TBUFSIZ' = TBUFSIZ
  BY DEF TBUFSIZ
<1> QED
  BY <1>1, <1>2, <1>10, <1>11, <1>12, <1>13, <1>14 DEF Reads

LEMMA ReaderReading ==
  ASSUME Books, Reading, FileComplete, i \in 0 .. TBUFSIZ,
         Reader!Progress \/ Reader!SysCloseInterrupted, UNCHANGED <<writerVars, testVars>>
  PROVE  Reading'
<1>1. r_pc \notin {"ready", "none", "released"} /\ file' = file /\ r_pc' \notin {"none", "released"}
      /\ UNCHANGED <<at, i>>
  BY ReaderFile
<1>2. CASE ~Busy
  BY <1>1, <1>2 DEF Reading, Busy
<1>3. CASE Busy
  <2>1. Reads /\ at = "getc" /\ r_pc \in {"getc", "read"} /\ ~r_is_closed
    BY <1>1, <1>3 DEF Reading, Busy, Books, PlaceOK, ReaderPlace, ReaderOK
  <2>2. CASE Reader!GetcByte
    BY <1>1, <1>3, <2>1, <2>2, GetcByteReading DEF Reading
  <2>3. CASE Reader!GetcEnd
    <3>1. /\ r_pc' = "ready" /\ r_result' = Reader!Ok(None) /\ r_is_exhausted
          /\ Reader!LSlice_is_empty(r_buffer) /\ r_pc = "getc"
          /\ UNCHANGED <<r_buffer, r_got, r_offset, r_is_exhausted>>
      BY <2>3 DEF Reader!GetcEnd, Reader!Getting, Reader!AtEnd
    <3>2. r_buffer.startpos = r_buffer.endpos
      BY <2>1, <3>1 DEF Reads, Placed, Reader!LSlice_is_empty
    <3>3. TBUFSIZ <= r_offset /\ Len(r_got) = i /\ Len(r_got) = r_offset
      <4>1. TBUFSIZ <= r_offset /\ Len(r_got) = i /\ r_buffer.startpos \in Nat
            /\ Len(r_got) + (r_buffer.endpos - r_buffer.startpos) = r_offset /\ Len(r_got) \in Nat
        BY <2>1, <3>1 DEF Reads, InOrder, Compared, Placed
      <4> QED
        BY <3>2, <4>1
    <3>4. Compared'
      BY <1>1, <2>1, <3>1, <3>3 DEF Compared, TBUFSIZ
    <3> QED
      BY <1>1, <2>1, <3>1, <3>4, ReadsFrame DEF Reading
  <2>4. CASE Reader!GetcFailed \/ Reader!GetcRefused
    <3>1. /\ r_pc' = "ready" /\ r_result'.is_err /\ r_pc = "getc"
          /\ UNCHANGED <<r_buffer, r_got, r_offset, r_is_exhausted>>
      BY <2>4 DEF Reader!GetcFailed, Reader!GetcRefused, Reader!Getting
    <3>2. Compared'
      BY <1>1, <2>1, <3>1 DEF Reads, Compared
    <3> QED
      BY <1>1, <2>1, <3>1, <3>2, ReadsFrame DEF Reading
  <2>5. CASE Reader!GetcRefill
    <3>1. /\ r_pc' = "read" /\ r_pc = "getc" /\ Reader!LSlice_is_empty(r_buffer)
          /\ UNCHANGED <<r_buffer, r_got, r_offset, r_is_exhausted, r_result>>
      BY <2>5 DEF Reader!GetcRefill, Reader!Getting
    <3>2. r_buffer.startpos = r_buffer.endpos
      BY <2>1, <3>1 DEF Reads, Placed, Reader!LSlice_is_empty
    <3>3. Compared'
      BY <1>1, <2>1, <3>1 DEF Reads, Compared
    <3>4. Reads'
      BY <1>1, <2>1, <3>1, <3>2, <3>3 DEF Reads, InOrder, TBUFSIZ, Placed
    <3> QED
      BY <1>1, <3>4 DEF Reading
  <2>6. ASSUME NEW n \in 1 .. r_buffer.size, Reader!ReadBytes(n) PROVE Reading'
    BY <1>1, <1>3, <2>1, <2>6, ReadBytesReading DEF Reading
  <2>7. CASE Reader!ReadEOF
    <3>1. /\ r_pc' = "getc" /\ r_offset = Len(file) /\ r_is_exhausted'
          /\ UNCHANGED <<r_buffer, r_got, r_offset, r_result>>
      BY <2>7 DEF Reader!ReadEOF
    <3>2. TBUFSIZ <= r_offset
      BY <1>1, <3>1 DEF FileComplete
    <3>3. Compared'
      BY <1>1, <2>1, <3>1 DEF Reads, Compared
    <3>4. Reads'
      BY <1>1, <2>1, <3>1, <3>2, <3>3 DEF Reads, InOrder, TBUFSIZ, Placed
    <3> QED
      BY <1>1, <3>4 DEF Reading
  <2>8. CASE Reader!ReadFails
    <3>1. r_pc' = "getc" /\ UNCHANGED <<r_buffer, r_got, r_offset, r_is_exhausted, r_result>>
      BY <2>8 DEF Reader!ReadFails
    <3>2. Compared'
      BY <1>1, <2>1, <3>1 DEF Reads, Compared
    <3> QED
      BY <1>1, <2>1, <3>1, <3>2, ReadsFrame DEF Reading
  <2>9. ~Reader!Close /\ ~Reader!SysClose /\ ~Reader!SysCloseInterrupted
    BY <2>1 DEF Reader!Close, Reader!CloseRefused, Reader!CloseBuffer, Reader!CloseFile,
       Reader!SysClose, Reader!SysCloseSucceeds, Reader!SysCloseFails, Reader!SysCloseInterrupted
  <2> QED
    BY <2>2, <2>3, <2>4, <2>5, <2>6, <2>7, <2>8, <2>9, NeverReaderWrites, Zenon
       DEF Reader!Progress, Reader!Getc, Reader!Read
<1> QED
  BY <1>2, <1>3

LEMMA NextReading ==
  ASSUME Books, Writing, FileComplete, FileComplete', Reading, i \in 0 .. TBUFSIZ, [Next]_vars
  PROVE  Reading'
<1>1. CASE Test
  BY <1>1, TestReading
<1>2. CASE (Writer!Progress \/ Writer!SysCloseInterrupted) /\ UNCHANGED <<readerVars, testVars>>
  <2>1. w_pc # "ready"
    BY <1>2, WriterFile
  <2>2. ~Busy /\ ~Busy'
    BY <1>2, <2>1 DEF Busy, Books, PlaceOK, WriterPlace
  <2> QED
    BY <1>2, <2>2 DEF Reading
<1>3. CASE (Reader!Progress \/ Reader!SysCloseInterrupted) /\ UNCHANGED <<writerVars, testVars>>
  BY <1>3, ReaderReading
<1>4. ASSUME NEW b \in Byte, Reader!FileGrows(b), UNCHANGED <<writerVars, testVars>>
      PROVE  Reading'
  <2>1. file' = Append(file, b) /\ r_pc # "none" /\ UNCHANGED readerVars /\ file \in Seq(Byte)
        /\ UNCHANGED <<at, i>>
    BY <1>4, FileGrowsAtEnd DEF FileComplete
  <2>2. Len(file') = Len(file) + 1 /\ \A k \in 1 .. Len(file) : file'[k] = file[k]
    BY <2>1
  <2>3. ASSUME Busy PROVE Reads'
    <3>1. Reads
      BY <2>3 DEF Reading
    <3>2. /\ Placed(r_buffer) /\ r_offset \in 0 .. Len(file) /\ Len(file) \in Nat
          /\ Len(r_got) \in Nat /\ r_got \in Seq(Byte)
          /\ Len(r_got) + (r_buffer.endpos - r_buffer.startpos) = r_offset
      BY <2>1, <3>1 DEF Reads, InOrder
    <3>3. r_buffer.startpos \in Nat /\ r_buffer.endpos \in Nat
          /\ r_buffer.startpos <= r_buffer.endpos
      BY <3>2 DEF Placed
    <3>4. ASSUME NEW k \in 1 .. Len(r_got) PROVE r_got[k] = file'[k]
      <4>1. k \in 1 .. Len(file) /\ r_got[k] = file[k]
        BY <3>1, <3>2, <3>3 DEF Reads, InOrder
      <4> QED
        BY <2>2, <4>1
    <3>5. ASSUME NEW k \in Nat, r_buffer.startpos <= k, k < r_buffer.endpos
          PROVE  r_buffer.data[k] = file'[Len(r_got) + (k - r_buffer.startpos) + 1]
      <4>1. Len(r_got) + (k - r_buffer.startpos) + 1 \in 1 .. Len(file)
        BY <3>2, <3>3, <3>5
      <4>2. r_buffer.data[k] = file[Len(r_got) + (k - r_buffer.startpos) + 1]
        BY <3>1, <3>5 DEF Reads, InOrder
      <4> QED
        BY <2>2, <4>1, <4>2
    <3>6. InOrder'
      BY <2>1, <3>2, <3>4, <3>5 DEF InOrder
    <3>7. Compared'
      BY <2>1, <3>1 DEF Reads, Compared, TBUFSIZ
    <3>8. r_offset' \in 0 .. Len(file') /\ Placed(r_buffer)'
      BY <2>1, <2>2, <3>2 DEF Placed
    <3> QED
      BY <2>1, <3>1, <3>2, <3>6, <3>7, <3>8 DEF Reads, TBUFSIZ
  <2> QED
    BY <2>1, <2>3 DEF Reading, Busy
<1>5. CASE UNCHANGED vars
  BY <1>5 DEF Reading, vars, Busy, Reads, InOrder, Compared, Placed, TBUFSIZ
<1> QED
  BY <1>1, <1>2, <1>3, <1>4, <1>5, Zenon DEF Next, StreamProgress, Environment, Exited

-----------------------------------------------------------------------------
(* What the test says *)

\* All bytes of the test were compared, and the end of the file was seen.
LEMMA AllCompared ==
  ASSUME Books, Reading, FileComplete, i = TBUFSIZ, at = "getc", r_pc = "ready",
         ~r_result.is_err, r_result.value = None
  PROVE  r_got = buf
<1>1. /\ r_got \in Seq(Byte) /\ Len(r_got) = TBUFSIZ
      /\ \A k \in 1 .. Len(r_got) : r_got[k] = file[k]
  BY DEF Reading, Busy, Reads, InOrder, Compared
<1>2. \A k \in 1 .. TBUFSIZ : file[k] = buf[k]
  BY DEF FileComplete
<1>3. buf \in Seq(Byte) /\ Len(r_got) = Len(buf) /\ \A k \in 1 .. Len(r_got) : r_got[k] = buf[k]
  BY <1>1, <1>2, BufAssumption DEF TBUFSIZ
<1> QED
  BY <1>1, <1>3, SeqEqual

LEMMA ReadBackFrame ==
  ASSUME ReadBack, UNCHANGED <<at, r_got, __return, stats>> PROVE ReadBack'
BY DEF ReadBack

LEMMA NextReadBack ==
  ASSUME Books, Reading, FileComplete, i \in 0 .. TBUFSIZ, ReadBack, [Next]_vars
  PROVE  ReadBack'
<1>1. CASE CloseReader
  <2>1. at = "getc" /\ at' = "ru3" /\ r_pc = "ready" /\ ~r_result.is_err /\ i = TBUFSIZ
        /\ r_result.value = None /\ r_got' = r_got
    BY <1>1, SizeOfBuf DEF CloseReader, CallReader, Reader!Call, AsWritten
  <2> QED
    BY <2>1, AllCompared DEF ReadBack
<1>2. CASE CloseReaderOk
  BY <1>2 DEF CloseReaderOk, ReadBack
<1>3. CASE \/ Open \/ GetcMustFail \/ AssertRefused \/ Putc \/ PutcOk \/ CloseWriter
           \/ OpenReader \/ Getc \/ GetcNext
  <2>1. at' \in WriterFirst \cup {"if_let_Ok", "getc"}
    BY <1>3 DEF Open, GetcMustFail, AssertRefused, Putc, PutcOk, CloseWriter, OpenReader, Getc,
       GetcNext, CallWriter, CallReader
  <2> QED
    BY <2>1 DEF ReadBack
<1>4. CASE \/ OpenFailed \/ PutcFailed \/ CloseFailed \/ OpenReaderFailed \/ GetcFailed
           \/ GetcWrong \/ CloseReaderFailed
  <2>1. at' \in {"rs_err", "rs", "rmc"} /\ __return'.is_err
    BY <1>4 DEF OpenFailed, PutcFailed, CloseFailed, OpenReaderFailed, GetcFailed, GetcWrong,
       CloseReaderFailed, WriterPropagates, ReaderPropagates, if_Ok_Err
  <2> QED
    BY <2>1 DEF ReadBack
<1>5. CASE rmc \/ DropReaderClose \/ rs \/ DropWriterClose
  <2>1. /\ at \in {"rmc", "release_s2"} \cup WriterLast
        /\ at' \in {"rmc", "release_s2"} \cup WriterLast /\ UNCHANGED <<__return, r_got>>
    BY <1>5 DEF rmc, DropReaderClose, rs, DropWriterClose, CallWriter, CallReader, Reader!Call
  <2> QED
    BY <2>1 DEF ReadBack
<1>6. CASE ReleaseReader \/ ReleaseWriter
  <2>1. /\ at \in {"rmc", "release_s2"} \cup WriterLast
        /\ at' \in WriterLast \cup {"CHECK", "aborted"} /\ UNCHANGED <<__return, r_got>>
    BY <1>6 DEF ReleaseReader, ReleaseWriter, Reader!BufferedStream_release
  <2> QED
    BY <2>1 DEF ReadBack
<1>7. CASE rs_Union
  <2>1. at = "rs_err" /\ at' \in {"aborted", "CHECK"} /\ UNCHANGED __return
    BY <1>7 DEF rs_Union
  <2>2. __return.is_err
    BY <2>1 DEF Books, Returns
  <2> QED
    BY <2>1, <2>2 DEF ReadBack
<1>8. CASE CHECK
  <2>1. at = "CHECK" /\ at' \in {"leakcheck_verify", "aborted"} /\ UNCHANGED r_got
        /\ stats' = IF __return.is_err THEN Counted(FALSE) ELSE stats
    BY <1>8 DEF CHECK
  <2>2. __return.is_err => stats'.failures # 0
    <3>1. PICK s \in Nat, f \in Nat : stats = [successes |-> s, failures |-> f]
      BY DEF Books, Verdict
    <3>2. __return.is_err => stats' = [successes |-> s, failures |-> f + 1]
      BY <2>1, <3>1 DEF Counted
    <3> QED
      BY <3>2
  <2> QED
    BY <2>1, <2>2 DEF ReadBack
<1>9. CASE ExitWithIssues
  BY <1>9 DEF ExitWithIssues, ReadBack
<1>10. CASE (Writer!Progress \/ Writer!SysCloseInterrupted) /\ UNCHANGED <<readerVars, testVars>>
  BY <1>10, ReadBackFrame
<1>11. CASE (Reader!Progress \/ Reader!SysCloseInterrupted) /\ UNCHANGED <<writerVars, testVars>>
  <2>1. CASE at = "getc"
    BY <1>11, <2>1 DEF ReadBack
  <2>2. CASE at # "getc"
    <3>1. r_pc \notin {"getc", "read"}
      BY <2>2, <1>11, ReaderFile DEF Books, PlaceOK, ReaderPlace
    <3>2. UNCHANGED r_got
      BY <1>11, <3>1, NeverReaderWrites DEF Reader!Progress, Reader!SysCloseInterrupted,
         Reader!Getc, Reader!GetcRefused, Reader!GetcByte, Reader!GetcEnd, Reader!GetcFailed,
         Reader!GetcRefill, Reader!Getting, Reader!Read, Reader!ReadBytes, Reader!ReadEOF,
         Reader!ReadFails, Reader!Close, Reader!CloseRefused, Reader!CloseBuffer,
         Reader!CloseFile, Reader!SysClose, Reader!SysCloseSucceeds, Reader!SysCloseFails,
         Reader!Closed
    <3> QED
      BY <1>11, <3>2, ReadBackFrame
  <2> QED
    BY <2>1, <2>2
<1>12. ASSUME NEW b \in Byte, Reader!FileGrows(b), UNCHANGED <<writerVars, testVars>>
       PROVE  ReadBack'
  BY <1>12, FileGrowsAtEnd, ReadBackFrame
<1>13. CASE UNCHANGED vars
  BY <1>13, ReadBackFrame DEF vars
<1> QED
  BY <1>1, <1>2, <1>3, <1>4, <1>5, <1>6, <1>7, <1>8, <1>9, <1>10, <1>11, <1>12, <1>13, Zenon
     DEF Next, Test, StreamProgress, Environment, Exited

\* A stream that is released stays so.
LEMMA TestReleased ==
  ASSUME Books, Test
  PROVE  /\ w_pc = "released" => w_pc' = "released" /\ w_is_closed' = w_is_closed
         /\ r_pc = "released" => r_pc' = "released" /\ r_is_closed' = r_is_closed
<1>1. CASE Open
  BY <1>1, WriterOpened DEF Open, Writer!open_BufferedStream
<1>2. CASE OpenReader
  BY <1>2, ReaderOpened DEF OpenReader, Reader!open_BufferedStream
<1>3. CASE GetcMustFail \/ Putc \/ CloseWriter \/ rs
  BY <1>3 DEF GetcMustFail, Putc, CloseWriter, rs, CallWriter, Writer!Call
<1>4. CASE Getc \/ GetcNext \/ CloseReader \/ rmc
  BY <1>4 DEF Getc, GetcNext, CloseReader, rmc, CallReader, Reader!Call
<1>5. CASE ReleaseReader
  BY <1>5 DEF ReleaseReader, Reader!BufferedStream_release
<1>6. CASE ReleaseWriter
  BY <1>6 DEF ReleaseWriter, Writer!BufferedStream_release
<1>7. CASE \/ OpenFailed \/ AssertRefused \/ PutcOk \/ PutcFailed \/ CloseFailed
           \/ OpenReaderFailed \/ GetcFailed \/ GetcWrong
  BY <1>7 DEF OpenFailed, AssertRefused, PutcOk, PutcFailed, CloseFailed, OpenReaderFailed,
     GetcFailed, GetcWrong, WriterPropagates, ReaderPropagates, if_Ok_Err
<1>8. CASE \/ CloseReaderFailed \/ CloseReaderOk \/ DropReaderClose \/ DropWriterClose
           \/ rs_Union \/ CHECK \/ ExitWithIssues
  BY <1>8 DEF CloseReaderFailed, CloseReaderOk, DropReaderClose, DropWriterClose, rs_Union,
     CHECK, ExitWithIssues, ReaderPropagates
<1> QED
  BY <1>1, <1>2, <1>3, <1>4, <1>5, <1>6, <1>7, <1>8, Zenon DEF Test

LEMMA ExcuseStays == ASSUME Books, FileComplete, Excused, [Next]_vars PROVE Excused'
<1> USE DEF Excused, SystemFailed
<1>1. failures \in Nat
  BY DEF Books, FailuresOK
<1>2. CASE Test
  BY <1>1, <1>2, TestFile, TestReleased DEF TBUFSIZ
<1>3. CASE (Writer!Progress \/ Writer!SysCloseInterrupted) /\ UNCHANGED <<readerVars, testVars>>
  BY <1>1, <1>3, WriterFile DEF TBUFSIZ
<1>4. CASE (Reader!Progress \/ Reader!SysCloseInterrupted) /\ UNCHANGED <<writerVars, testVars>>
  BY <1>1, <1>4, ReaderFile DEF TBUFSIZ
<1>5. ASSUME NEW b \in Byte, Reader!FileGrows(b), UNCHANGED <<writerVars, testVars>>
      PROVE  Excused'
  <2>1. file' = Append(file, b) /\ UNCHANGED <<readerVars, failures>> /\ file \in Seq(Byte)
    BY <1>5, FileGrowsAtEnd DEF FileComplete
  <2>2. Len(file') = Len(file) + 1 /\ Len(file) \in Nat
    BY <2>1
  <2> QED
    BY <1>5, <2>1, <2>2, SizeOfBuf DEF TBUFSIZ
<1>6. CASE UNCHANGED vars
  BY <1>6 DEF vars, TBUFSIZ
<1> QED
  BY <1>2, <1>3, <1>4, <1>5, <1>6, Zenon DEF Next, StreamProgress, Environment, Exited

\* Who fails the test has an excuse.
LEMMA FailureIsExcused ==
  ASSUME Books, Reading, FileComplete, i \in 0 .. TBUFSIZ,
         \/ OpenFailed \/ PutcFailed \/ CloseFailed \/ OpenReaderFailed \/ GetcFailed
         \/ GetcWrong \/ CloseReaderFailed
  PROVE  Excused
<1> USE DEF Excused, SystemFailed
<1>1. CASE OpenFailed
  <2>1. at = "opened" /\ w_result.is_err
    BY <1>1 DEF OpenFailed, WriterPropagates
  <2> QED
    BY <2>1 DEF Books, PlaceOK, WriterPlace, WriterOK
<1>2. CASE PutcFailed \/ CloseFailed
  <2>1. at \in {"ru", "if_Ok"} /\ w_pc = "ready" /\ w_result.is_err
    BY <1>2 DEF PutcFailed, CloseFailed, WriterPropagates, if_Ok_Err
  <2> QED
    BY <2>1 DEF Books, FailuresOK
<1>3. CASE OpenReaderFailed
  <2>1. at = "if_let_Ok" /\ r_result.is_err
    BY <1>3 DEF OpenReaderFailed, if_Ok_Err
  <2> QED
    BY <2>1 DEF Books, PlaceOK, ReaderPlace, ReaderOK
<1>4. CASE GetcFailed \/ CloseReaderFailed
  <2>1. at \in {"getc", "ru3"} /\ r_pc = "ready" /\ r_result.is_err
    BY <1>4 DEF GetcFailed, CloseReaderFailed, ReaderPropagates
  <2> QED
    BY <2>1 DEF Books, FailuresOK
<1>5. CASE GetcWrong
  <2>1. at = "getc" /\ r_pc = "ready" /\ ~r_result.is_err /\ ~AsWritten(r_result.value)
    BY <1>5 DEF GetcWrong
  <2>2. /\ r_got \in Seq(Byte) /\ \A k \in 1 .. Len(r_got) : r_got[k] = file[k]
        /\ r_offset \in 0 .. Len(file) /\ Placed(r_buffer)
        /\ Len(r_got) + (r_buffer.endpos - r_buffer.startpos) = r_offset
        /\ IF r_result.value = None THEN TBUFSIZ <= i
           ELSE Len(r_got) = i + 1 /\ r_result.value = r_got[i + 1]
    BY <2>1 DEF Reading, Busy, Reads, InOrder, Compared
  <2>3. file \in Seq(Byte) /\ Len(file) \in Nat /\ \A k \in 1 .. TBUFSIZ : file[k] = buf[k]
    BY <2>1 DEF FileComplete
  <2>4. r_result.value # None
    BY <2>1, <2>2, SizeOfBuf DEF AsWritten
  <2>5. Len(r_got) = i + 1 /\ r_result.value = file[i + 1] /\ Len(r_got) <= Len(file)
    <3>1. Len(r_got) = i + 1 /\ r_result.value = r_got[i + 1]
      BY <2>2, <2>4
    <3>2. i + 1 \in 1 .. Len(r_got)
      BY <3>1, SizeOfBuf
    <3>3. Len(r_got) <= r_offset
      BY <2>2, <2>3 DEF Placed
    <3> QED
      BY <2>2, <2>3, <3>1, <3>2, <3>3
  <2>6. ~(i < TBUFSIZ)
    <3>1. SUFFICES ASSUME i < TBUFSIZ PROVE FALSE
      OBVIOUS
    <3>2. i + 1 \in 1 .. TBUFSIZ
      BY <3>1, SizeOfBuf
    <3> QED
      BY <2>1, <2>3, <2>5, <3>1, <3>2 DEF AsWritten
  <2> QED
    BY <2>1, <2>3, <2>5, <2>6, SizeOfBuf
<1> QED
  BY <1>1, <1>2, <1>3, <1>4, <1>5

LEMMA NextBlame ==
  ASSUME Books, Reading, FileComplete, i \in 0 .. TBUFSIZ, Blame, [Next]_vars
  PROVE  Blame'
<1>1. Excused => Excused'
  BY ExcuseStays
<1>2. ASSUME UNCHANGED <<__return, stats>>, at' # "rmc0" \/ w_pc' # "ready" PROVE Blame'
  BY <1>1, <1>2 DEF Blame
<1>3. CASE \/ OpenFailed \/ PutcFailed \/ CloseFailed \/ OpenReaderFailed \/ GetcFailed
           \/ GetcWrong \/ CloseReaderFailed
  <2>1. Excused'
    BY <1>1, <1>3, FailureIsExcused
  <2>2. at' # "rmc0"
    BY <1>3 DEF OpenFailed, PutcFailed, CloseFailed, OpenReaderFailed, GetcFailed, GetcWrong,
       CloseReaderFailed, WriterPropagates, ReaderPropagates, if_Ok_Err
  <2> QED
    BY <2>1, <2>2 DEF Blame
<1>4. CASE CloseReaderOk
  BY <1>1, <1>4 DEF CloseReaderOk, Blame
<1>5. CASE AssertRefused
  <2>1. at = "rmc0" /\ w_pc = "ready" /\ at' = "putc" /\ w_result.is_err /\ ~w_is_closed
        /\ UNCHANGED __return
    BY <1>5 DEF AssertRefused, Blame, Books, WriterOK
  <2>2. PICK s \in Nat, f \in Nat : stats = [successes |-> s, failures |-> f]
    BY DEF Books, Verdict
  <2>3. stats' = [successes |-> s + 2, failures |-> f + 0]
    BY <1>5, <2>1, <2>2 DEF AssertRefused
  <2>4. stats'.failures = stats.failures
    BY <2>2, <2>3
  <2> QED
    BY <1>1, <2>1, <2>4 DEF Blame
<1>6. CASE CHECK
  <2>1. at' # "rmc0" /\ UNCHANGED __return /\ (__return.is_err \/ stats' = stats)
    BY <1>6 DEF CHECK
  <2> QED
    BY <1>1, <2>1 DEF Blame
<1>7. CASE \/ Open \/ GetcMustFail \/ Putc \/ PutcOk \/ CloseWriter \/ OpenReader \/ Getc
           \/ GetcNext \/ CloseReader
  <2>1. UNCHANGED <<__return, stats>> /\ (at' # "rmc0" \/ w_pc' # "ready")
    BY <1>7 DEF Open, GetcMustFail, Putc, PutcOk, CloseWriter, OpenReader, Getc, GetcNext,
       CloseReader, CallWriter, CallReader, Writer!Call
  <2> QED
    BY <1>2, <2>1
<1>8. CASE \/ rmc \/ DropReaderClose \/ ReleaseReader \/ rs \/ DropWriterClose \/ ReleaseWriter
           \/ rs_Union \/ ExitWithIssues
  <2>1. UNCHANGED <<__return, stats>> /\ at' # "rmc0"
    BY <1>8 DEF rmc, DropReaderClose, ReleaseReader, rs, DropWriterClose, ReleaseWriter, rs_Union,
       ExitWithIssues, CallWriter, CallReader
  <2> QED
    BY <1>2, <2>1
<1>9. CASE (Writer!Progress \/ Writer!SysCloseInterrupted) /\ UNCHANGED <<readerVars, testVars>>
  <2>1. CASE at = "rmc0"
    <3>1. w_pc = "getc"
      BY <1>9, <2>1, WriterFile DEF Books, PlaceOK, WriterPlace
    <3>2. w_result'.is_err
      BY <1>9, <3>1, NeverWriterRead DEF Writer!Progress, Writer!SysCloseInterrupted,
         Writer!Getc, Writer!GetcRefused, Writer!GetcByte, Writer!GetcEnd, Writer!GetcFailed,
         Writer!GetcRefill, Writer!Getting, Writer!Putc, Writer!PutcRefused, Writer!PutcByte,
         Writer!PutcNoSpace, Writer!PutcFlush, Writer!Putting, Writer!Flush,
         Writer!FlushNothing, Writer!FlushFile, Writer!Write, Writer!WriteAll,
         Writer!WritePart, Writer!WriteFails, Writer!Close, Writer!CloseRefused,
         Writer!CloseBuffer, Writer!CloseFile, Writer!SysClose, Writer!SysCloseSucceeds,
         Writer!SysCloseFails
    <3> QED
      BY <1>1, <1>9, <3>2 DEF Blame
  <2>2. CASE at # "rmc0"
    BY <1>2, <1>9, <2>2
  <2> QED
    BY <2>1, <2>2
<1>10. CASE (Reader!Progress \/ Reader!SysCloseInterrupted) /\ UNCHANGED <<writerVars, testVars>>
  BY <1>1, <1>10 DEF Blame
<1>11. CASE (\E b \in Byte : Reader!FileGrows(b)) /\ UNCHANGED <<writerVars, testVars>>
  BY <1>1, <1>11 DEF Blame
<1>12. CASE UNCHANGED vars
  BY <1>1, <1>12 DEF vars, Blame
<1> QED
  BY <1>3, <1>4, <1>5, <1>6, <1>7, <1>8, <1>9, <1>10, <1>11, <1>12, Zenon
     DEF Next, Test, StreamProgress, Environment, Exited

LEMMA InitCarried == Init => Carried
<1> SUFFICES ASSUME Init PROVE Carried
  OBVIOUS
<1>1. /\ at = "open" /\ file = <<>> /\ i = 0 /\ r_pc = "none" /\ r_got = <<>> /\ r_offset = 0
      /\ ~r_is_exhausted /\ ~__return.is_err /\ stats.failures = 0
  BY DEF Init
<1> QED
  BY <1>1, SizeOfBuf DEF Carried, Writing, FileComplete, Reading, Busy, ReadBack, Blame

LEMMA NextWriting ==
  ASSUME Books, Writing, i \in 0 .. TBUFSIZ, [Next]_vars
  PROVE  Writing' /\ i' \in 0 .. TBUFSIZ
<1>1. CASE Test
  BY <1>1, TestWriting
<1>2. CASE (Writer!Progress \/ Writer!SysCloseInterrupted) /\ UNCHANGED <<readerVars, testVars>>
  BY <1>2, WriterWriting
<1>3. CASE /\ \/ Reader!Progress \/ Reader!SysCloseInterrupted
              \/ \E b \in Byte : Reader!FileGrows(b)
           /\ UNCHANGED <<writerVars, testVars>>
  <2>1. ASSUME UNCHANGED <<at, i>>, r_pc # "none" PROVE Writing' /\ i' \in 0 .. TBUFSIZ
    BY <2>1 DEF Writing, Books, PlaceOK, ReaderPlace
  <2>2. r_pc # "none"
    BY <1>3, ReaderFile, FileGrowsAtEnd
  <2> QED
    BY <1>3, <2>1, <2>2
<1>4. CASE UNCHANGED vars
  BY <1>4 DEF vars, Writing, Holds, Loop, First, Taken, Placed
<1> QED
  BY <1>1, <1>2, <1>3, <1>4, Zenon DEF Next, StreamProgress, Environment, Exited

LEMMA NextCarried == ASSUME Books, Carried, [Next]_vars PROVE Carried'
<1>1. i \in 0 .. TBUFSIZ /\ Writing /\ FileComplete /\ Reading /\ ReadBack /\ Blame
  BY DEF Carried
<1>2. Writing' /\ i' \in 0 .. TBUFSIZ
  BY <1>1, NextWriting
<1>3. FileComplete'
  BY <1>1, NextFileComplete
<1>4. Reading' /\ ReadBack' /\ Blame'
  BY <1>1, <1>3, NextReading, NextReadBack, NextBlame
<1> QED
  BY <1>2, <1>3, <1>4 DEF Carried, TBUFSIZ

LEMMA CarriedPasses == Books /\ Carried => PassesIffReadBack
<1> SUFFICES ASSUME Books, Carried PROVE PassesIffReadBack
  OBVIOUS
<1>1. ASSUME at = "exit", exit_code = 0 PROVE r_got = buf /\ ~SystemFailed
  <2>1. stats.failures = 0
    BY <1>1 DEF Books, Verdict
  <2>2. r_got = buf
    BY <1>1, <2>1 DEF Carried, ReadBack
  <2>3. failures = 0 /\ w_is_closed /\ r_is_closed
    BY <1>1, <2>1 DEF Books, Verdict
  <2> QED
    BY <2>2, <2>3 DEF SystemFailed
<1>2. ASSUME at = "exit", file = buf, ~SystemFailed PROVE exit_code = 0
  <2>1. ~Excused
    BY <1>2, SizeOfBuf DEF Excused
  <2>2. stats.failures = 0
    BY <2>1 DEF Carried, Blame
  <2> QED
    BY <1>2, <2>2 DEF Books, Verdict
<1>3. ASSUME r_pc # "none" PROVE SubSeq(file, 1, TBUFSIZ) = buf
  <2>1. file \in Seq(Byte) /\ TBUFSIZ <= Len(file) /\ \A k \in 1 .. TBUFSIZ : file[k] = buf[k]
    BY <1>3 DEF Carried, FileComplete
  <2>2. /\ SubSeq(file, 1, TBUFSIZ) \in Seq(Byte) /\ Len(SubSeq(file, 1, TBUFSIZ)) = TBUFSIZ
        /\ \A k \in 1 .. TBUFSIZ : SubSeq(file, 1, TBUFSIZ)[k] = file[k]
    BY <2>1, SizeOfBuf
  <2>3. buf \in Seq(Byte) /\ Len(buf) = TBUFSIZ
    BY BufAssumption DEF TBUFSIZ
  <2> HIDE DEF TBUFSIZ
  <2> QED
    BY <2>1, <2>2, <2>3, SeqEqual
<1> QED
  BY <1>1, <1>2, <1>3 DEF PassesIffReadBack

\* The test passes only if s2 has returned its bytes and the system has not
\* failed; it fails only if the system has, or somebody else wrote to the
\* file; and rs has written everything before s2 is opened.
THEOREM PassesOnlyIfReadBack == Spec => []PassesIffReadBack
<1>1. Books /\ Carried /\ [Next]_vars => (Books /\ Carried)'
  BY NextBooks, NextCarried
<1> QED
  BY <1>1, InitBooks, InitCarried, CarriedPasses, PTL DEF Spec
=============================================================================
