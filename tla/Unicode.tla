------------------------------ MODULE Unicode ------------------------------
(***************************************************************************)
(* get_unicodechar of unicode.h: one UTF-8 sequence is read from a stream, *)
(* byte by byte, and decoded to a code point, or refused.                  *)
(*                                                                         *)
(* A step is one call of BufferedStream_getc and what is done with its     *)
(* result: a byte, the end, or an Err.  The masks and shifts of the code   *)
(* are divisions and remainders by powers of two; a u32 code point stays   *)
(* below 2^21, so nothing is shifted out.                                  *)
(***************************************************************************)
EXTENDS Integers, Sequences, FiniteSets

CONSTANT Byte       \* the bytes the stream may hold

ASSUME ByteAssumption == Byte \subseteq 0 .. 255

VARIABLES
  codepoint, numbytes, i,   \* the locals; i = 0 before the first byte
  result,                   \* "none" while the function runs
  bytes                     \* history: the bytes it has read

locals == <<codepoint, numbytes, i>>
vars == <<locals, result, bytes>>

NoResult    == [kind |-> "none"]
Err(reason) == [kind |-> "Err", reason |-> reason]
Some(c)     == [kind |-> "Some", value |-> c]

Running == result = NoResult

Init ==
  /\ codepoint = 0 /\ numbytes = 0 /\ i = 0
  /\ result = NoResult
  /\ bytes = <<>>

-----------------------------------------------------------------------------

\* The number of bytes a start byte announces, 0 if it is no start byte.
StartLength(b) ==
  IF b < 128 THEN 1
  ELSE IF b \div 32 = 6  THEN 2
  ELSE IF b \div 16 = 14 THEN 3
  ELSE IF b \div 8  = 30 THEN 4
  ELSE 0

\* The bits of the code point in a start byte of n.
StartBits(b, n) == b % <<128, 32, 16, 8>>[n]

\* Mutant: only the upper bit of a continuation byte is looked at.
IsContinuation_Loose(b) == b \div 128 = 1

IsContinuation(b) == b \div 64 = 2

\* 0x10FFFF
MaxCodepoint == 1114111

\* Mutant: the greatest code point is refused.
Checked_Less(c) == IF c < MaxCodepoint THEN Some(c) ELSE Err("codepoint")

\* The test behind the loop.
Checked(c) == IF c <= MaxCodepoint THEN Some(c) ELSE Err("codepoint")

\* Mutant: the loop ends one byte early.
LoopResult_Early(c, n, k) == IF k + 1 >= n THEN Checked(c) ELSE NoResult

\* What there is to return when k of n bytes make up c.
LoopResult(c, n, k) == IF k = n THEN Checked(c) ELSE NoResult

StartByte(b) ==
  /\ Running /\ i = 0
  /\ bytes' = <<b>>
  /\ numbytes' = StartLength(b)
  /\ IF numbytes' = 0
     THEN result' = Err("start_byte") /\ UNCHANGED <<codepoint, i>>
     ELSE /\ i' = 1
          /\ codepoint' = StartBits(b, numbytes')
          /\ result' = LoopResult(codepoint', numbytes', i')

ContinuationByte(b) ==
  /\ Running /\ i > 0
  /\ bytes' = Append(bytes, b)
  /\ UNCHANGED numbytes
  /\ IF ~IsContinuation(b)
     THEN result' = Err("continuation_byte") /\ UNCHANGED <<codepoint, i>>
     ELSE /\ i' = i + 1
          /\ codepoint' = codepoint * 64 + (b % 64)
          /\ result' = LoopResult(codepoint', numbytes, i')

\* The end of the stream: in front of a sequence it is the end of the text.
EndOfStream ==
  /\ Running
  /\ result' = IF i = 0 THEN [kind |-> "None"] ELSE Err("premature_EOF")
  /\ UNCHANGED <<locals, bytes>>

\* getc returned an Err, which is handed on.
StreamFails ==
  /\ Running
  /\ result' = Err("stream")
  /\ UNCHANGED <<locals, bytes>>

Done == ~Running /\ UNCHANGED vars

Next ==
  \/ \E b \in Byte : StartByte(b) \/ ContinuationByte(b)
  \/ EndOfStream
  \/ StreamFails
  \/ Done

Spec == Init /\ [][Next]_vars

-----------------------------------------------------------------------------
(* UTF-8 as the Unicode Standard defines it (chapter 3.9) *)

\* The n-byte form of the code point c.
Form(c, n) ==
  << <<c>>,
     <<192 + c \div 64, 128 + (c % 64)>>,
     <<224 + c \div 4096, 128 + ((c \div 64) % 64), 128 + (c % 64)>>,
     <<240 + c \div 262144, 128 + ((c \div 4096) % 64), 128 + ((c \div 64) % 64),
       128 + (c % 64)>> >>[n]

TailByte == 128 .. 191

\* Table 3-7, "Well-Formed UTF-8 Byte Sequences".
WellFormedRows ==
  { <<0 .. 127>>,
    <<194 .. 223, TailByte>>,
    <<{224}, 160 .. 191, TailByte>>,
    <<(225 .. 236) \cup (238 .. 239), TailByte, TailByte>>,
    <<{237}, 128 .. 159, TailByte>>,
    <<{240}, 144 .. 191, TailByte, TailByte>>,
    <<241 .. 243, TailByte, TailByte, TailByte>>,
    <<{244}, 128 .. 143, TailByte, TailByte>> }

FitsRow(s, row) == Len(s) <= Len(row) /\ \A k \in 1 .. Len(s) : s[k] \in row[k]

BeginsWellFormed(s) == \E row \in WellFormedRows : FitsRow(s, row)
WellFormed(s) == \E row \in WellFormedRows : Len(s) = Len(row) /\ FitsRow(s, row)

\* The n-byte form of a code point that has a shorter one.
Overlong(c, n) == c < <<0, 128, 2048, 65536>>[n]

Surrogates == 55296 .. 57343

-----------------------------------------------------------------------------
(* Properties *)

TypeOK ==
  /\ codepoint \in 0 .. 2^21 - 1
  /\ numbytes \in 0 .. 4 /\ i \in 0 .. numbytes
  /\ result \in {NoResult, [kind |-> "None"]}
        \cup [kind : {"Err"}, reason : {"start_byte", "continuation_byte",
                 "premature_EOF", "codepoint", "stream"}]
        \cup [kind : {"Some"}, value : 0 .. MaxCodepoint]
  /\ bytes \in Seq(Byte) /\ Len(bytes) <= 4

\* A code point that is returned is the one whose form was read: no bit of any
\* byte is lost, doubled or moved, and exactly the bytes of the form were
\* taken from the stream.
DecodedIsRead ==
  result.kind = "Some" =>
    \E n \in 1 .. 4 : n = Len(bytes) /\ bytes = Form(result.value, n)

\* No text is refused that is well-formed: a sequence is taken as soon as it
\* is complete, and bytes that could still become one are not refused.
WellFormedAccepted ==
  /\ WellFormed(bytes) => result \in [kind : {"Some"}, value : 0 .. MaxCodepoint]
  /\ BeginsWellFormed(bytes) =>
       result \notin [kind : {"Err"},
                      reason : {"start_byte", "continuation_byte", "codepoint"}]

\* What is accepted is well-formed but for two cases that the code does not
\* look for: an overlong form, and a surrogate.
AcceptedForms ==
  result.kind = "Some" =>
    WellFormed(bytes) \/ Overlong(result.value, Len(bytes)) \/ result.value \in Surrogates

-----------------------------------------------------------------------------
(* What the documentation says and the code does not do *)

\* The program is there "to check text files for valid UTF-8 use" (README.md:3)
\* and to "verify proper UTF-8 encoding" (utf-8-lineseparator.c:174): what
\* the decoder accepts is well-formed.
OnlyWellFormedAccepted == result.kind = "Some" => WellFormed(bytes)
=============================================================================
