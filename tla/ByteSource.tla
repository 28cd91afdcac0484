----------------------------- MODULE ByteSource -----------------------------
(***************************************************************************)
(* What a stream opened for input promises to the caller of getc           *)
(* (BufferedStream.h), with no buffer and no system call in sight: the     *)
(* bytes of a file that may grow, one by one and in their order, until the *)
(* stream has reached an end, has failed or is closed.  Whichever of these *)
(* happened stays so: no byte follows an end or a failure that getc has    *)
(* answered with, even if the file has grown since or would be readable    *)
(* again.                                                                  *)
(***************************************************************************)
EXTENDS Naturals, Sequences

CONSTANT Byte

VARIABLES
  file,        \* the bytes of the file
  delivered,   \* how many of them getc has returned
  phase,       \* "unopened", "open", "ended", "failed" or "closed"
  answer       \* <<>> while no getc has just returned, else what it returned

vars == <<file, delivered, phase, answer>>

Silent  == <<>>
Byte_(b) == <<"byte", b>>
End     == <<"end">>
Failure == <<"error">>

Init ==
  /\ file = <<>> /\ delivered = 0
  /\ phase = "unopened" /\ answer = Silent

\* An array that was read to its last byte is at its end; a file may be, or
\* another read will tell.
PhaseAt(d, f) == {"open"} \cup (IF d = Len(f) THEN {"ended"} ELSE {})

Open ==
  /\ phase = "unopened"
  /\ file' \in Seq(Byte)
  /\ phase' \in PhaseAt(0, file')
  /\ UNCHANGED <<delivered, answer>>

Grow ==
  /\ phase # "unopened"
  /\ \E b \in Byte : file' = Append(file, b)
  /\ UNCHANGED <<delivered, phase, answer>>

\* The caller goes on to its next call.
Call ==
  /\ answer' = Silent
  /\ UNCHANGED <<file, delivered, phase>>

Deliver ==
  /\ phase = "open" /\ answer = Silent
  /\ delivered < Len(file)
  /\ delivered' = delivered + 1
  /\ answer' = Byte_(file[delivered'])
  /\ phase' \in PhaseAt(delivered', file)
  /\ UNCHANGED file

\* The end is met where the file ends at that time.
MeetEnd ==
  /\ phase = "open" /\ delivered = Len(file)
  /\ phase' = "ended"
  /\ UNCHANGED <<file, delivered, answer>>

Fail ==
  /\ phase = "open"
  /\ phase' = "failed"
  /\ UNCHANGED <<file, delivered, answer>>

AnswerEnd ==
  /\ phase = "ended" /\ answer = Silent
  /\ answer' = End
  /\ UNCHANGED <<file, delivered, phase>>

AnswerError ==
  /\ phase \in {"failed", "closed"} /\ answer = Silent
  /\ answer' = Failure
  /\ UNCHANGED <<file, delivered, phase>>

Close ==
  /\ phase \notin {"unopened", "closed"}
  /\ phase' = "closed"
  /\ UNCHANGED <<file, delivered, answer>>

Next ==
  \/ Open \/ Grow \/ Call \/ Deliver \/ MeetEnd \/ Fail
  \/ AnswerEnd \/ AnswerError \/ Close

Spec == Init /\ [][Next]_vars
=============================================================================
