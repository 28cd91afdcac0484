------------------------------- MODULE Report -------------------------------
(***************************************************************************)
(* report() of utf-8-lineseparator.c: the loop that counts characters and  *)
(* line separators, of the three kinds LF, CR and CRLF, and prints one     *)
(* record at the end of the text, or at the place where get_unicodechar    *)
(* fails.                                                                  *)
(*                                                                         *)
(* A step is one iteration of the loop.  What get_unicodechar returns is   *)
(* chosen here; modules Unicode and BufferedStream say what it may be.     *)
(* The counters are int64_t: no text is long enough to make one overflow,  *)
(* so they are naturals.                                                   *)
(***************************************************************************)
EXTENDS Naturals, Sequences, FiniteSets

CONSTANTS
  Char,      \* the code points
  CR, LF,    \* '\r' and '\n'
  MaxText    \* bound: the length of the text

ASSUME CharAssumption == CR \in Char /\ LF \in Char /\ CR # LF
ASSUME MaxTextAssumption == MaxText \in Nat

VARIABLES
  charcount, LFcount, CRcount, CRLFcount, column,
  last_was_CR,   \* a CR was read and is not counted yet
  printed,       \* the record printed, with field type = "none" before
  text           \* history: the characters read

counters == <<charcount, LFcount, CRcount, CRLFcount, column>>
vars == <<counters, last_was_CR, printed, text>>

Separators == {CR, LF}

MAX2(a, b)    == IF a < b THEN b ELSE a
MAX3(a, b, c) == IF a < b THEN MAX2(b, c) ELSE MAX2(a, c)

linecount == LFcount + CRcount + CRLFcount

Running == printed.type = "none"

Init ==
  /\ charcount = 0 /\ LFcount = 0 /\ CRcount = 0 /\ CRLFcount = 0
  /\ column = 0 /\ last_was_CR = FALSE
  /\ printed = [type |-> "none"]
  /\ text = <<>>

-----------------------------------------------------------------------------

\* Mutant: a CR is counted when it is read, and once more in the next iteration.
CRcountNext_Eager(isCR) == IF last_was_CR \/ isCR THEN CRcount + 1 ELSE CRcount

\* A CR is counted one iteration late, when it is known that no LF follows.
CRcountNext(isCR) == IF last_was_CR THEN CRcount + 1 ELSE CRcount

\* get_unicodechar returned c.
Read(c) ==
  /\ Running /\ Len(text) < MaxText
  /\ text' = Append(text, c)
  /\ charcount' = charcount + 1
  /\ UNCHANGED printed

CarriageReturn ==
  /\ Read(CR)
  /\ CRcount' = CRcountNext(TRUE)
  /\ last_was_CR' = TRUE
  /\ column' = 0
  /\ UNCHANGED <<LFcount, CRLFcount>>

\* Mutant: a line that ends in a LF does not start a new column.
LineFeed_KeepsColumn ==
  /\ Read(LF)
  /\ IF last_was_CR
     THEN CRLFcount' = CRLFcount + 1 /\ UNCHANGED LFcount
     ELSE LFcount' = LFcount + 1 /\ UNCHANGED CRLFcount
  /\ last_was_CR' = FALSE
  /\ UNCHANGED <<CRcount, column>>

LineFeed ==
  /\ Read(LF)
  /\ IF last_was_CR
     THEN CRLFcount' = CRLFcount + 1 /\ UNCHANGED LFcount
     ELSE LFcount' = LFcount + 1 /\ UNCHANGED CRLFcount
  /\ last_was_CR' = FALSE
  /\ column' = 0
  /\ UNCHANGED CRcount

OtherChar(c) ==
  /\ c \notin Separators
  /\ Read(c)
  /\ CRcount' = CRcountNext(FALSE)
  /\ last_was_CR' = FALSE
  /\ column' = column + 1
  /\ UNCHANGED <<LFcount, CRLFcount>>

\* Mutant: a CR that ends the text is forgotten.
EndOfText_DropsCR ==
  /\ Running
  /\ printed' = [type |-> "linecount", charcount |-> charcount, LFcount |-> LFcount,
                 CRcount |-> CRcount, CRLFcount |-> CRLFcount]
  /\ UNCHANGED <<counters, last_was_CR, text>>

\* get_unicodechar returned None.
EndOfText ==
  /\ Running
  /\ CRcount' = CRcountNext(FALSE)
  /\ printed' = [type |-> "linecount", charcount |-> charcount, LFcount |-> LFcount,
                 CRcount |-> CRcount', CRLFcount |-> CRLFcount]
  /\ UNCHANGED <<charcount, LFcount, CRLFcount, column, last_was_CR, text>>

\* Mutant: the greatest of the counts is taken for only two of the kinds.
Questionable_IgnoresCRLF == linecount # MAX2(LFcount, CRcount)

\* Separators of more than one kind were counted.
Questionable == linecount # MAX3(LFcount, CRcount, CRLFcount)

\* Mutant: the character and the column are counted from 0.
Position_FromZero ==
  [character_position |-> charcount, line |-> linecount + 1, column |-> column]

\* The place of the character that could not be read.
Position ==
  [character_position |-> charcount + 1, line |-> linecount + 1, column |-> column + 1]

\* get_unicodechar returned an Err.
Failure ==
  /\ Running
  /\ printed' = [type |-> "utf-8-failure", position |-> Position,
                 line_questionable |-> Questionable]
  /\ UNCHANGED <<counters, last_was_CR, text>>

Done == ~Running /\ UNCHANGED vars

Next ==
  \/ CarriageReturn
  \/ LineFeed
  \/ \E c \in Char : OtherChar(c)
  \/ EndOfText
  \/ Failure
  \/ Done

Spec == Init /\ [][Next]_vars

-----------------------------------------------------------------------------
(* The separators of a text, by their place: a CRLF is a CR with a LF right *)
(* behind it, the others are alone.                                         *)

CRLFs(t)   == {i \in 1 .. Len(t) : t[i] = CR /\ i < Len(t) /\ t[i + 1] = LF}
LoneCRs(t) == {i \in 1 .. Len(t) : t[i] = CR /\ (i < Len(t) => t[i + 1] # LF)}
LoneLFs(t) == {i \in 1 .. Len(t) : t[i] = LF /\ (i > 1 => t[i - 1] # CR)}

LinesEnded(t) ==
  Cardinality(CRLFs(t)) + Cardinality(LoneCRs(t)) + Cardinality(LoneLFs(t))

\* The text has k characters behind its last separator.
EndsInLineOf(t, k) ==
  /\ k <= Len(t)
  /\ \A i \in Len(t) - k + 1 .. Len(t) : t[i] \notin Separators
  /\ k < Len(t) => t[Len(t) - k] \in Separators

\* Positions are counted from 1.
Positive == Nat \ {0}

TypeOK ==
  /\ {charcount, LFcount, CRcount, CRLFcount, column} \subseteq Nat
  /\ last_was_CR \in BOOLEAN
  /\ printed \in [type : {"none"}]
       \cup [type : {"linecount"}, charcount : Nat, LFcount : Nat, CRcount : Nat,
             CRLFcount : Nat]
       \cup [type : {"utf-8-failure"}, line_questionable : BOOLEAN,
             position : [character_position : Positive, line : Positive,
                         column : Positive]]
  /\ text \in Seq(Char)

\* Between two iterations every separator read so far is counted once and
\* under its kind, but for a CR just read, whose kind is not known yet.
EachCountedOnce ==
  Running =>
    /\ charcount = Len(text)
    /\ LFcount = Cardinality(LoneLFs(text))
    /\ CRLFcount = Cardinality(CRLFs(text))
    /\ CRcount + (IF last_was_CR THEN 1 ELSE 0) = Cardinality(LoneCRs(text))

\* The linecount record gives the numbers of lone LFs, lone CRs and CRLFs of
\* the text, also when it ends in a CR.
LinecountCorrect ==
  printed.type = "linecount" =>
    /\ printed.charcount = Len(text)
    /\ printed.LFcount = Cardinality(LoneLFs(text))
    /\ printed.CRcount = Cardinality(LoneCRs(text))
    /\ printed.CRLFcount = Cardinality(CRLFs(text))

\* The utf-8-failure record names the character behind the text read, in the
\* column behind the last separator, and, unless the text ends in a CR, in the
\* line behind all separators.
FailurePositionCorrect ==
  printed.type = "utf-8-failure" =>
    /\ printed.position.character_position = Len(text) + 1
    /\ EndsInLineOf(text, printed.position.column - 1)
    /\ ~last_was_CR => printed.position.line = LinesEnded(text) + 1

\* Unless the text ends in a CR, line_questionable says whether it has
\* separators of more than one kind.
QuestionableCorrect ==
  printed.type = "utf-8-failure" /\ ~last_was_CR =>
    (printed.line_questionable <=>
       Cardinality({k \in {CRLFs(text), LoneCRs(text), LoneLFs(text)} : k # {}}) > 1)

-----------------------------------------------------------------------------
(* What a comment says and the code does not do *)

\* A CR that is read "will be counted in the next iteration"
\* (utf-8-lineseparator.c:55): the failure record, too, counts every line that
\* ended before the character that could not be read.
FailureLineCorrect ==
  printed.type = "utf-8-failure" => printed.position.line = LinesEnded(text) + 1
=============================================================================
