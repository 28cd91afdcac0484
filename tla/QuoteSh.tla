------------------------------ MODULE QuoteSh ------------------------------
(***************************************************************************)
(* String_quote_sh of String.h: a string is put between single quotes for  *)
(* a POSIX shell, in an array of QBUFSIZ chars.  A single quote within is  *)
(* written '\'' (the quotes end, an escaped quote, they begin again); a    *)
(* string that does not fit is cut and marked with three dots.             *)
(*                                                                         *)
(* A step is one iteration of the loop; each PUSH in it may be the one     *)
(* that finds no room and leaves the loop.                                 *)
(***************************************************************************)
EXTENDS Integers, Sequences, FiniteSets

CONSTANTS
  QBUFSIZ,          \* the size of the array
  OtherChars,       \* chars without a meaning to the shell
  MaxLen            \* bound: the length of the string

Quote     == "'"
Backslash == "\\"
Dot       == "."
Char == OtherChars \cup {Quote, Backslash, Dot}

ASSUME SizeAssumption == QBUFSIZ \in Nat /\ QBUFSIZ > 5
ASSUME MaxLenAssumption == MaxLen \in Nat

VARIABLES
  str,       \* the argument
  i,         \* the number of its chars that the loop is done with
  out,       \* what is written to the array, without the final \0
  at         \* "begin", "loop", "finish" or "push_error"

vars == <<str, i, out, at>>

Init ==
  /\ str \in UNION {[1 .. n -> Char] : n \in 0 .. MaxLen}
  /\ i = 0 /\ out = <<>> /\ at = "begin"

-----------------------------------------------------------------------------

\* Mutant: one char less is kept back.
Room_OffByOne == QBUFSIZ - 3 - 1

\* PUSH writes below this place: the end of a cut string takes the others.
Room == QBUFSIZ - 3 - 1 - 1

\* Mutant: the mark of a cut does not close the quotes.
Push_Unclosed(chars, goesOn) ==
  LET room == Room - Len(out) IN
  IF Len(chars) <= room
  THEN out' = out \o chars /\ at' = goesOn
  ELSE out' = out \o SubSeq(chars, 1, room) \o <<Dot, Dot, Dot>>
       /\ at' = "push_error"

\* PUSH of one char after the other, up to the first that finds no room.
Push(chars, goesOn) ==
  LET room == Room - Len(out) IN
  IF Len(chars) <= room
  THEN out' = out \o chars /\ at' = goesOn
  ELSE out' = out \o SubSeq(chars, 1, room) \o <<Quote, Dot, Dot, Dot>>
       /\ at' = "push_error"

\* Mutant: the quotes are not opened again.
Quoted_LeavesOpen(c) == IF c = Quote THEN <<Quote, Backslash, Quote>> ELSE <<c>>

\* What a char of the string is written as.
Quoted(c) == IF c = Quote THEN <<Quote, Backslash, Quote, Quote>> ELSE <<c>>

OpenQuote ==
  /\ at = "begin"
  /\ Push(<<Quote>>, "loop")
  /\ UNCHANGED <<str, i>>

QuoteChar ==
  /\ at = "loop" /\ i < Len(str)
  /\ Push(Quoted(str[i + 1]), "loop")
  /\ i' = i + 1
  /\ UNCHANGED str

CloseQuote ==
  /\ at = "loop" /\ i = Len(str)
  /\ Push(<<Quote>>, "finish")
  /\ UNCHANGED <<str, i>>

Returned == at \in {"finish", "push_error"} /\ UNCHANGED vars

Next == OpenQuote \/ QuoteChar \/ CloseQuote \/ Returned

Spec == Init /\ [][Next]_vars

-----------------------------------------------------------------------------
(* What a shell makes of it (POSIX, 2.2 Quoting): the word it has read so   *)
(* far, whether it is within single quotes, and whether a backslash is open *)

Shell(word, quoted, escaped) == [word |-> word, quoted |-> quoted, escaped |-> escaped]

ShellStep(shell, ch) ==
  IF shell.escaped
  THEN Shell(Append(shell.word, ch), shell.quoted, FALSE)
  ELSE IF ch = Quote THEN Shell(shell.word, ~shell.quoted, FALSE)
  ELSE IF ch = Backslash /\ ~shell.quoted THEN Shell(shell.word, FALSE, TRUE)
  ELSE Shell(Append(shell.word, ch), shell.quoted, FALSE)

\* What it has read after each number of chars.
ShellAt(s) ==
  LET read[n \in 0 .. Len(s)] ==
        IF n = 0 THEN Shell(<<>>, FALSE, FALSE) ELSE ShellStep(read[n - 1], s[n])
  IN  read

ShellReads(s) == ShellAt(s)[Len(s)]

\* The word ends where the string does.
IsWord(s, word) == ShellReads(s) = Shell(word, FALSE, FALSE)

\* The length of a string without the quotes around it.
LengthQuoted(s) == Len(s) + 3 * Cardinality({j \in 1 .. Len(s) : s[j] = Quote})

\* The limit splits a quote behind its first or its third char, where the
\* shell's quotes are closed: the quote that marks the cut then opens them.
CutInQuote ==
  /\ i > 0 /\ str[i] = Quote
  /\ 1 + LengthQuoted(SubSeq(str, 1, i)) - Room \in {1, 3}

-----------------------------------------------------------------------------
(* Properties *)

\* The array is never left, the final \0 included, and a string that fits into
\* the room is not cut.
StaysInArray ==
  /\ Len(out) < QBUFSIZ
  /\ at = "finish" => 2 + LengthQuoted(str) <= Room
  /\ at = "push_error" => 2 + LengthQuoted(str) > Room

\* A shell reads a string that was not cut back as it was.
ReadsBack == at = "finish" => IsWord(out, str)

\* A shell reads a string that was cut as the begin of the string and three
\* dots, a complete word, unless the cut has split a quote behind its first
\* or third char; then the shell's quotes stay open.
CutReadsAsPrefix ==
  at = "push_error" =>
    IF CutInQuote
    THEN ShellReads(out).quoted
    ELSE \E n \in 0 .. Len(str) : IsWord(out, SubSeq(str, 1, n) \o <<Dot, Dot, Dot>>)
=============================================================================
