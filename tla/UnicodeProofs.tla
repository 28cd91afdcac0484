--------------------------- MODULE UnicodeProofs ---------------------------
(***************************************************************************)
(* Theorems about Unicode for every sequence of bytes, not only the ends   *)
(* of the ranges that TLC is given.  The invariant says what the bytes     *)
(* read so far have been taken for; the rest is arithmetic.                *)
(***************************************************************************)
EXTENDS Unicode, TLAPS

\* The length that the start byte of s announces.
Announced(s) == StartLength(s[1])

\* A start byte, and continuation bytes, no more than it announces.
Sequence(s) ==
  /\ Len(s) >= 1 /\ Len(s) <= Announced(s)
  /\ \A k \in 2 .. Len(s) : s[k] >= 128 /\ s[k] <= 191

Incomplete(s) == s = <<>> \/ (Sequence(s) /\ Len(s) < Announced(s))
Complete(s)   == Sequence(s) /\ Len(s) = Announced(s)

\* The bits of a sequence, put together.
Value(s) ==
  LET first == StartBits(s[1], Announced(s)) IN
  IF Len(s) = 1 THEN first
  ELSE IF Len(s) = 2 THEN first * 64 + (s[2] - 128)
  ELSE IF Len(s) = 3 THEN (first * 64 + (s[2] - 128)) * 64 + (s[3] - 128)
  ELSE ((first * 64 + (s[2] - 128)) * 64 + (s[3] - 128)) * 64 + (s[4] - 128)

\* The locals of the loop.
LoopState ==
  Running =>
    /\ i = Len(bytes)
    /\ i > 0 => numbytes = Announced(bytes) /\ codepoint = Value(bytes)

\* What the result says of the bytes.
Outcome ==
  \/ result \in {NoResult, Err("premature_EOF"), Err("stream")} /\ Incomplete(bytes)
  \/ result = [kind |-> "None"] /\ bytes = <<>>
  \/ result = Err("start_byte") /\ Len(bytes) = 1 /\ Announced(bytes) = 0
  \/ /\ result = Err("continuation_byte")
     /\ Len(bytes) >= 2 /\ Len(bytes) <= Announced(bytes)
     /\ ~(bytes[Len(bytes)] >= 128 /\ bytes[Len(bytes)] <= 191)
  \/ result = Err("codepoint") /\ Complete(bytes) /\ Value(bytes) > MaxCodepoint
  \/ result = Some(Value(bytes)) /\ Complete(bytes) /\ Value(bytes) <= MaxCodepoint

Inv == bytes \in Seq(Byte) /\ LoopState /\ Outcome

-----------------------------------------------------------------------------
(* The bits of a byte *)

LEMMA StartBytes ==
  ASSUME NEW b \in Nat, b <= 255
  PROVE  /\ StartLength(b) \in Nat /\ StartLength(b) <= 4
         /\ StartLength(b) = 1 <=> b <= 127
         /\ StartLength(b) = 2 <=> b >= 192 /\ b <= 223
         /\ StartLength(b) = 3 <=> b >= 224 /\ b <= 239
         /\ StartLength(b) = 4 <=> b >= 240 /\ b <= 247
<1>1. /\ b \div 32 = 6  <=> b >= 192 /\ b <= 223
      /\ b \div 16 = 14 <=> b >= 224 /\ b <= 239
      /\ b \div 8  = 30 <=> b >= 240 /\ b <= 247
  OBVIOUS
<1> QED
  BY <1>1 DEF StartLength

LEMMA StartOffsets ==
  ASSUME NEW b \in Nat, b <= 255
  PROVE  /\ StartLength(b) = 1 => StartBits(b, 1) = b
         /\ StartLength(b) = 2 => StartBits(b, 2) = b - 192
         /\ StartLength(b) = 3 => StartBits(b, 3) = b - 224
         /\ StartLength(b) = 4 => StartBits(b, 4) = b - 240
<1>1. /\ b <= 127 => b % 128 = b
      /\ b >= 192 /\ b <= 223 => b % 32 = b - 192
      /\ b >= 224 /\ b <= 239 => b % 16 = b - 224
      /\ b >= 240 /\ b <= 247 => b % 8 = b - 240
  OBVIOUS
<1>2. /\ StartBits(b, 1) = b % 128 /\ StartBits(b, 2) = b % 32
      /\ StartBits(b, 3) = b % 16 /\ StartBits(b, 4) = b % 8
  BY DEF StartBits
<1> QED
  BY <1>1, <1>2, StartBytes

LEMMA TailBytes ==
  ASSUME NEW b \in Nat, b <= 255
  PROVE  /\ IsContinuation(b) <=> b >= 128 /\ b <= 191
         /\ b >= 128 /\ b <= 191 => b % 64 = b - 128
BY DEF IsContinuation

LEMMA Octet ==
  ASSUME NEW b \in Byte
  PROVE  b \in Nat /\ b <= 255
BY ByteAssumption

LEMMA AppendByte ==
  ASSUME NEW s \in Seq(Byte), NEW b \in Byte
  PROVE  /\ Append(s, b) \in Seq(Byte) /\ Len(s) \in Nat
         /\ Len(Append(s, b)) = Len(s) + 1
         /\ Append(s, b)[Len(s) + 1] = b
         /\ \A k \in 1 .. Len(s) : Append(s, b)[k] = s[k]
OBVIOUS

LEMMA BytesOf ==
  ASSUME NEW s \in Seq(Byte)
  PROVE  Len(s) \in Nat /\ \A k \in 1 .. Len(s) : s[k] \in Nat /\ s[k] <= 255
<1>1. ASSUME NEW k \in 1 .. Len(s) PROVE s[k] \in Nat /\ s[k] <= 255
  <2>1. s[k] \in Byte
    OBVIOUS
  <2> QED
    BY <2>1, Octet
<1>2. Len(s) \in Nat
  OBVIOUS
<1> QED
  BY <1>1, <1>2

\* The parts that a value is made of.
LEMMA SequenceParts ==
  ASSUME NEW s \in Seq(Byte), Sequence(s)
  PROVE  /\ Len(s) \in Nat /\ Len(s) >= 1 /\ Len(s) <= Announced(s)
         /\ Announced(s) \in Nat /\ Announced(s) <= 4
         /\ s[1] \in Nat /\ s[1] <= 255
         /\ StartBits(s[1], Announced(s)) \in Nat
         /\ \A k \in 2 .. Len(s) : s[k] \in Nat /\ s[k] >= 128 /\ s[k] <= 191
<1>1. Len(s) \in Nat /\ Len(s) >= 1 /\ Len(s) <= Announced(s) /\ s[1] \in Nat /\ s[1] <= 255
  BY BytesOf DEF Sequence
<1>2. Announced(s) \in Nat /\ Announced(s) <= 4
  BY <1>1, StartBytes DEF Announced
<1>3. StartBits(s[1], Announced(s)) \in Nat
  <2>1. ASSUME NEW b \in Nat, b <= 255, StartLength(b) >= 1
        PROVE  StartBits(b, StartLength(b)) \in Nat
    <3>1. StartLength(b) \in {1, 2, 3, 4}
      BY <2>1, StartBytes
    <3> QED
      BY <2>1, <3>1, StartBytes, StartOffsets
  <2>2. Announced(s) >= 1
    BY <1>1, <1>2
  <2> QED
    BY <1>1, <2>1, <2>2 DEF Announced
<1>4. ASSUME NEW k \in 2 .. Len(s) PROVE s[k] \in Nat /\ s[k] >= 128 /\ s[k] <= 191
  <2>1. k \in 1 .. Len(s)
    BY <1>1
  <2> QED
    BY <2>1, BytesOf DEF Sequence
<1> QED
  BY <1>1, <1>2, <1>3, <1>4

LEMMA OneToFour ==
  ASSUME NEW n \in Nat, n >= 1, n <= 4
  PROVE  n = 1 \/ n = 2 \/ n = 3 \/ n = 4
OBVIOUS

LEMMA ValueIsNat ==
  ASSUME NEW s \in Seq(Byte), Sequence(s)
  PROVE  Value(s) \in Nat
<1> DEFINE f == StartBits(s[1], Announced(s))
<1>1. /\ f \in Nat /\ Len(s) \in Nat /\ Len(s) >= 1 /\ Len(s) <= 4
      /\ \A k \in 2 .. Len(s) : s[k] - 128 \in Nat
  BY SequenceParts
<1> HIDE DEF f
<1>2. CASE Len(s) = 1
  BY <1>1, <1>2, SMT DEF Value, f
<1>3. CASE Len(s) = 2
  <2>1. s[2] - 128 \in Nat
    BY <1>1, <1>3
  <2> QED
    BY <1>1, <1>3, <2>1, SMT DEF Value, f
<1>4. CASE Len(s) = 3
  <2>1. s[2] - 128 \in Nat /\ s[3] - 128 \in Nat
    BY <1>1, <1>4
  <2> QED
    BY <1>1, <1>4, <2>1, SMT DEF Value, f
<1>5. CASE Len(s) = 4
  <2>1. s[2] - 128 \in Nat /\ s[3] - 128 \in Nat /\ s[4] - 128 \in Nat
    BY <1>1, <1>5
  <2> QED
    BY <1>1, <1>5, <2>1, SMT DEF Value, f
<1>6. Len(s) = 1 \/ Len(s) = 2 \/ Len(s) = 3 \/ Len(s) = 4
  <2>1. Len(s) \in Nat /\ Len(s) >= 1 /\ Len(s) <= 4
    BY <1>1
  <2> QED
    BY <2>1, OneToFour, Zenon
<1> QED
  BY <1>2, <1>3, <1>4, <1>5, <1>6, Zenon

LEMMA AppendValue ==
  ASSUME NEW s \in Seq(Byte), NEW b \in Byte, Sequence(s), Len(s) < Announced(s),
         b >= 128, b <= 191
  PROVE  /\ Sequence(Append(s, b)) /\ Announced(Append(s, b)) = Announced(s)
         /\ Value(Append(s, b)) = Value(s) * 64 + (b - 128)
<1> DEFINE t == Append(s, b)
           f == StartBits(s[1], Announced(s))
<1>1. /\ f \in Nat /\ Len(s) \in Nat /\ Len(s) >= 1
      /\ Announced(s) \in Nat /\ Announced(s) <= 4
      /\ \A k \in 2 .. Len(s) : s[k] \in Nat /\ s[k] >= 128 /\ s[k] <= 191
  BY SequenceParts
<1>2. Len(s) <= 3 /\ Len(s) + 1 <= Announced(s) /\ b \in Nat
  BY <1>1, Octet
<1>3. Len(t) = Len(s) + 1 /\ t[Len(s) + 1] = b /\ \A k \in 1 .. Len(s) : t[k] = s[k]
  BY AppendByte
<1> HIDE DEF t
<1>4. t[1] = s[1] /\ Announced(t) = Announced(s)
  BY <1>1, <1>3 DEF Announced
<1>5. Sequence(t)
  <2>1. ASSUME NEW k \in 2 .. Len(t) PROVE t[k] >= 128 /\ t[k] <= 191
    <3>1. CASE k = Len(s) + 1
      BY <1>3, <3>1
    <3>2. CASE k # Len(s) + 1
      <4>1. k \in 2 .. Len(s) /\ k \in 1 .. Len(s)
        BY <1>1, <1>3, <3>2
      <4> QED
        BY <1>1, <1>3, <4>1
    <3> QED
      BY <3>1, <3>2
  <2>2. Len(t) >= 1 /\ Len(t) <= Announced(t)
    BY <1>1, <1>2, <1>3, <1>4
  <2> QED
    BY <2>1, <2>2 DEF Sequence
<1>6. StartBits(t[1], Announced(t)) = f
  BY <1>4
<1> HIDE DEF f
<1>7. Value(t) = Value(s) * 64 + (b - 128)
  <2>1. CASE Len(s) = 1
    <3>1. Len(t) = 2 /\ t[2] = b
      BY <1>3, <2>1
    <3>2. Value(s) = f
      BY <2>1, SMT DEF Value, f
    <3>3. Value(t) = f * 64 + (b - 128)
      BY <1>6, <3>1, SMT DEF Value
    <3> QED
      BY <3>2, <3>3
  <2>2. CASE Len(s) = 2
    <3>1. Len(t) = 3 /\ t[2] = s[2] /\ t[3] = b /\ s[2] \in Nat
      BY <1>1, <1>3, <2>2
    <3>2. Value(s) = f * 64 + (s[2] - 128)
      BY <2>2, SMT DEF Value, f
    <3>3. Value(t) = (f * 64 + (s[2] - 128)) * 64 + (b - 128)
      BY <1>6, <3>1, SMT DEF Value
    <3> QED
      BY <3>2, <3>3, Zenon
  <2>3. CASE Len(s) = 3
    <3>1. Len(t) = 4 /\ t[2] = s[2] /\ t[3] = s[3] /\ t[4] = b /\ s[2] \in Nat /\ s[3] \in Nat
      BY <1>1, <1>3, <2>3
    <3>2. Value(s) = (f * 64 + (s[2] - 128)) * 64 + (s[3] - 128)
      BY <2>3, SMT DEF Value, f
    <3>3. Value(t) = ((f * 64 + (s[2] - 128)) * 64 + (s[3] - 128)) * 64 + (b - 128)
      BY <1>6, <3>1, SMT DEF Value
    <3> QED
      BY <3>2, <3>3, Zenon
  <2>4. Len(s) = 1 \/ Len(s) = 2 \/ Len(s) = 3
    <3>1. \A n \in Nat : n >= 1 /\ n <= 3 => n = 1 \/ n = 2 \/ n = 3
      OBVIOUS
    <3> QED
      BY <1>1, <1>2, <3>1, Zenon
  <2> QED
    BY <2>1, <2>2, <2>3, <2>4, Zenon
<1> QED
  BY <1>4, <1>5, <1>7 DEF t

-----------------------------------------------------------------------------
(* The invariant *)

\* A result that is there is not the result that there is none.
LEMMA Results ==
  /\ \A reason : Err(reason) # NoResult
  /\ \A c : Some(c) # NoResult
  /\ [kind |-> "None"] # NoResult
BY DEF Err, Some, NoResult

LEMMA RunningIsIncomplete == Outcome /\ Running => Incomplete(bytes)
BY Results, Zenon DEF Outcome, Running

LEMMA InitInv == Init => Inv
BY DEF Init, Inv, LoopState, Outcome, Incomplete, NoResult

LEMMA StartKeepsInv == ASSUME Inv, NEW b \in Byte, StartByte(b) PROVE Inv'
<1>1. b \in Nat /\ b <= 255 /\ bytes' = <<b>> /\ bytes' \in Seq(Byte) /\ Len(bytes') = 1
      /\ bytes'[1] = b /\ numbytes' = StartLength(b) /\ Announced(bytes)' = StartLength(b)
  <2>1. b \in Nat /\ b <= 255
    BY Octet
  <2>2. bytes' = <<b>> /\ numbytes' = StartLength(b)
    BY DEF StartByte
  <2>3. Announced(bytes)' = StartLength(b)
    BY <2>2 DEF Announced
  <2> QED
    BY <2>1, <2>2, <2>3
<1>2. CASE StartLength(b) = 0
  <2>1. result' = Err("start_byte")
    BY <1>1, <1>2 DEF StartByte
  <2> QED
    BY <1>1, <1>2, <2>1 DEF Inv, LoopState, Outcome, Running, NoResult, Err
<1>3. CASE StartLength(b) # 0
  <2>1. i' = 1 /\ codepoint' = StartBits(b, StartLength(b))
        /\ result' = IF StartLength(b) = 1 THEN Checked(codepoint') ELSE NoResult
    BY <1>1, <1>3 DEF StartByte, LoopResult
  <2>2. Sequence(bytes)' /\ Value(bytes)' = codepoint'
    <3>1. Sequence(bytes)'
      BY <1>1, <1>3, StartBytes DEF Sequence
    <3>2. Value(bytes)' = StartBits(bytes'[1], Announced(bytes)')
      BY <1>1, SMT DEF Value
    <3> QED
      BY <1>1, <2>1, <3>1, <3>2
  <2>3. CASE StartLength(b) = 1
    <3>1. codepoint' = b /\ result' = Some(b)
      <4>1. codepoint' = b
        BY <1>1, <2>1, <2>3, StartOffsets
      <4>2. b <= MaxCodepoint
        BY <1>1, SMT DEF MaxCodepoint
      <4> QED
        BY <2>1, <2>3, <4>1, <4>2 DEF Checked
    <3>2. Complete(bytes)'
      BY <1>1, <2>2, <2>3 DEF Complete
    <3>3. result' = Some(Value(bytes)') /\ Value(bytes)' <= MaxCodepoint
      BY <1>1, <2>2, <3>1, SMT DEF MaxCodepoint
    <3> QED
      BY <1>1, <3>2, <3>3, Results, Zenon DEF Inv, LoopState, Outcome, Running
  <2>4. CASE StartLength(b) # 1
    <3>1. Incomplete(bytes)'
      BY <1>1, <1>3, <2>2, <2>4, StartBytes DEF Incomplete
    <3> QED
      BY <1>1, <2>1, <2>2, <2>4, <3>1 DEF Inv, LoopState, Outcome
  <2> QED
    BY <2>3, <2>4
<1> QED
  BY <1>2, <1>3

LEMMA ContinuationKeepsInv == ASSUME Inv, NEW b \in Byte, ContinuationByte(b) PROVE Inv'
<1>1. /\ Running /\ i = Len(bytes) /\ i > 0 /\ bytes \in Seq(Byte)
      /\ numbytes = Announced(bytes) /\ codepoint = Value(bytes)
  BY DEF Inv, LoopState, ContinuationByte
<1>2. Sequence(bytes) /\ Len(bytes) < Announced(bytes)
  <2>1. Incomplete(bytes)
    BY <1>1, RunningIsIncomplete DEF Inv
  <2>2. bytes # <<>>
    BY <1>1
  <2> QED
    BY <2>1, <2>2 DEF Incomplete
<1>3. b \in Nat /\ b <= 255 /\ bytes' = Append(bytes, b) /\ numbytes' = numbytes
  BY Octet DEF ContinuationByte
<1>4. bytes' \in Seq(Byte) /\ Len(bytes') = Len(bytes) + 1 /\ bytes'[Len(bytes')] = b
      /\ bytes'[1] = bytes[1] /\ Announced(bytes)' = Announced(bytes)
  BY <1>1, <1>3, AppendByte DEF Announced
<1>5. CASE ~IsContinuation(b)
  <2>1. result' = Err("continuation_byte") /\ ~(b >= 128 /\ b <= 191)
    BY <1>3, <1>5, TailBytes DEF ContinuationByte
  <2>2. Len(bytes') >= 2 /\ Len(bytes') <= Announced(bytes)'
    BY <1>1, <1>2, <1>4, SequenceParts DEF Announced
  <2> QED
    BY <1>4, <2>1, <2>2 DEF Inv, LoopState, Outcome, Running, NoResult, Err
<1>6. CASE IsContinuation(b)
  <2>1. b >= 128 /\ b <= 191 /\ b % 64 = b - 128
    BY <1>3, <1>6, TailBytes
  <2>2. /\ i' = i + 1 /\ codepoint' = Value(bytes) * 64 + (b - 128)
        /\ result' = IF i + 1 = Announced(bytes) THEN Checked(codepoint') ELSE NoResult
    BY <1>1, <1>6, <2>1 DEF ContinuationByte, LoopResult
  <2>3. Sequence(bytes)' /\ Value(bytes)' = codepoint'
    BY <1>1, <1>2, <1>3, <2>1, <2>2, AppendValue
  <2>4. CASE i + 1 = Announced(bytes)
    <3>1. Complete(bytes)'
      BY <1>1, <1>4, <2>3, <2>4 DEF Complete
    <3>2. result' = IF Value(bytes)' <= MaxCodepoint THEN Some(Value(bytes)')
                    ELSE Err("codepoint")
      BY <2>2, <2>3, <2>4 DEF Checked
    <3>3. Value(bytes)' \in Nat
      BY <1>4, <2>3, ValueIsNat
    <3>4. Value(bytes)' <= MaxCodepoint \/ Value(bytes)' > MaxCodepoint
      BY <3>3 DEF MaxCodepoint
    <3> QED
      BY <1>4, <3>1, <3>2, <3>4, Results, Zenon DEF Inv, LoopState, Outcome, Running
  <2>5. CASE i + 1 # Announced(bytes)
    <3>1. Incomplete(bytes)'
      BY <1>1, <1>2, <1>4, <2>3, <2>5, SequenceParts DEF Incomplete, Announced
    <3> QED
      BY <1>1, <1>3, <1>4, <2>2, <2>3, <2>5, <3>1 DEF Inv, LoopState, Outcome
  <2> QED
    BY <2>4, <2>5
<1> QED
  BY <1>5, <1>6

LEMMA NextInv == Inv /\ [Next]_vars => Inv'
<1> SUFFICES ASSUME Inv, [Next]_vars PROVE Inv'
  OBVIOUS
<1>1. ASSUME NEW b \in Byte, StartByte(b) \/ ContinuationByte(b) PROVE Inv'
  BY <1>1, StartKeepsInv, ContinuationKeepsInv
<1>2. CASE EndOfStream \/ StreamFails
  <2>1. Incomplete(bytes) /\ (i = 0 => bytes = <<>>) /\ bytes' = bytes
    <3>1. Running /\ bytes' = bytes
      BY <1>2 DEF EndOfStream, StreamFails
    <3>2. i = 0 => bytes = <<>>
      BY <3>1 DEF Inv, LoopState
    <3> QED
      BY <3>1, <3>2, RunningIsIncomplete DEF Inv
  <2>2. Incomplete(bytes)'
    BY <2>1 DEF Incomplete, Sequence, Announced
  <2>3. \/ result' = [kind |-> "None"] /\ bytes' = <<>>
        \/ result' \in {Err("premature_EOF"), Err("stream")}
    BY <1>2, <2>1 DEF EndOfStream, StreamFails
  <2> QED
    BY <2>1, <2>2, <2>3, Results, Zenon DEF Inv, LoopState, Outcome, Running
<1>3. CASE Done \/ UNCHANGED vars
  <2>1. UNCHANGED <<codepoint, numbytes, i, result, bytes>>
    BY <1>3 DEF Done, vars, locals
  <2> QED
    BY <2>1 DEF Inv, LoopState, Outcome, Running, Incomplete, Complete, Sequence, Announced,
       Value
<1> QED
  BY <1>1, <1>2, <1>3 DEF Next

LEMMA Invariance == Spec => []Inv
BY InitInv, NextInv, PTL DEF Spec

-----------------------------------------------------------------------------
(* The types: locals that the function has left keep their last value *)

CodepointLimit == 2097152

\* A value has 21 bits.
LEMMA ValueBound ==
  ASSUME NEW s \in Seq(Byte), Sequence(s)
  PROVE  Value(s) \in Nat /\ Value(s) < CodepointLimit
<1> DEFINE f == StartBits(s[1], Announced(s))
<1>1. /\ Len(s) \in Nat /\ Len(s) >= 1 /\ Len(s) <= Announced(s)
      /\ Announced(s) \in Nat /\ Announced(s) <= 4
      /\ \A k \in 2 .. Len(s) : s[k] - 128 \in Nat /\ s[k] - 128 < 64
  BY SequenceParts
<1>2. /\ f \in Nat
      /\ Announced(s) = 1 => f < 128
      /\ Announced(s) = 2 => f < 32
      /\ Announced(s) = 3 => f < 16
      /\ Announced(s) = 4 => f < 8
  <2>1. s[1] \in Nat /\ s[1] <= 255 /\ f \in Nat
    BY SequenceParts
  <2> QED
    BY <2>1, StartBytes, StartOffsets DEF Announced
<1> HIDE DEF f
<1>3. CASE Len(s) = 1
  BY <1>1, <1>2, <1>3, SMT DEF Value, f, CodepointLimit
<1>4. CASE Len(s) = 2
  <2>1. s[2] - 128 \in Nat /\ s[2] - 128 < 64
    BY <1>1, <1>4
  <2> QED
    BY <1>1, <1>2, <1>4, <2>1, SMT DEF Value, f, CodepointLimit
<1>5. CASE Len(s) = 3
  <2>1. s[2] - 128 \in Nat /\ s[3] - 128 \in Nat /\ s[2] - 128 < 64 /\ s[3] - 128 < 64
    BY <1>1, <1>5
  <2> QED
    BY <1>1, <1>2, <1>5, <2>1, SMT DEF Value, f, CodepointLimit
<1>6. CASE Len(s) = 4
  <2>1. /\ s[2] - 128 \in Nat /\ s[3] - 128 \in Nat /\ s[4] - 128 \in Nat
        /\ s[2] - 128 < 64 /\ s[3] - 128 < 64 /\ s[4] - 128 < 64
    BY <1>1, <1>6
  <2> QED
    BY <1>1, <1>2, <1>6, <2>1, SMT DEF Value, f, CodepointLimit
<1>7. Len(s) = 1 \/ Len(s) = 2 \/ Len(s) = 3 \/ Len(s) = 4
  <2>1. Len(s) \in Nat /\ Len(s) >= 1 /\ Len(s) <= 4
    BY <1>1
  <2> QED
    BY <2>1, OneToFour, Zenon
<1> QED
  BY <1>3, <1>4, <1>5, <1>6, <1>7, Zenon

LocalsOK == codepoint \in 0 .. 2^21 - 1 /\ numbytes \in 0 .. 4 /\ i \in 0 .. numbytes

LEMMA CodepointRange ==
  ASSUME NEW v \in Nat, v < CodepointLimit
  PROVE  v \in 0 .. 2^21 - 1
<1>1. 2^21 - 1 = 2097151
  BY SMT
<1> QED
  BY <1>1, SMT DEF CodepointLimit

LEMMA StartKeepsLocals ==
  ASSUME LocalsOK, NEW b \in Byte, StartByte(b)
  PROVE  LocalsOK'
<1>1. b \in Nat /\ b <= 255 /\ StartLength(b) \in 0 .. 4
  BY Octet, StartBytes
<1>2. numbytes' = StartLength(b)
  BY DEF StartByte
<1>3. CASE StartLength(b) = 0
  <2>1. i' = 0 /\ numbytes' = 0 /\ codepoint' = codepoint
    BY <1>2, <1>3 DEF StartByte
  <2>2. numbytes' \in 0 .. 4 /\ i' \in 0 .. numbytes'
    BY <2>1
  <2> QED
    BY <2>1, <2>2, Zenon DEF LocalsOK
<1>4. CASE StartLength(b) # 0
  <2>1. i' = 1 /\ codepoint' = StartBits(b, StartLength(b))
    BY <1>2, <1>4 DEF StartByte
  <2>2. StartLength(b) \in {1, 2, 3, 4}
    BY <1>1, <1>4
  <2>3. codepoint' \in Nat /\ codepoint' <= 255
    BY <1>1, <2>1, <2>2, StartBytes, StartOffsets
  <2>4. codepoint' < CodepointLimit
    BY <2>3, SMT DEF CodepointLimit
  <2>5. codepoint' \in 0 .. 2^21 - 1
    BY <2>3, <2>4, CodepointRange, Zenon
  <2>6. numbytes' \in 0 .. 4 /\ i' \in 0 .. numbytes'
    BY <1>1, <1>2, <2>1, <2>2
  <2> QED
    BY <2>5, <2>6, Zenon DEF LocalsOK
<1> QED
  BY <1>3, <1>4

LEMMA ContinuationKeepsLocals ==
  ASSUME Inv, LocalsOK, NEW b \in Byte, ContinuationByte(b)
  PROVE  LocalsOK'
<1>1. CASE ~IsContinuation(b)
  BY <1>1, Zenon DEF ContinuationByte, LocalsOK
<1>2. CASE IsContinuation(b)
  <2>1. /\ Running /\ i = Len(bytes) /\ i > 0 /\ bytes \in Seq(Byte)
        /\ numbytes = Announced(bytes) /\ codepoint = Value(bytes)
    BY DEF Inv, LoopState, ContinuationByte
  <2>2. Sequence(bytes) /\ Len(bytes) < Announced(bytes)
    <3>1. bytes # <<>>
      BY <2>1
    <3> QED
      BY <2>1, <3>1, RunningIsIncomplete DEF Inv, Incomplete
  <2>3. b \in Nat /\ b >= 128 /\ b <= 191 /\ b % 64 = b - 128
    BY <1>2, Octet, TailBytes
  <2>4. /\ Append(bytes, b) \in Seq(Byte) /\ Sequence(Append(bytes, b))
        /\ Value(Append(bytes, b)) = codepoint * 64 + (b - 128)
    BY <2>1, <2>2, <2>3, AppendValue
  <2>5. codepoint' = Value(Append(bytes, b)) /\ i' = i + 1 /\ numbytes' = numbytes
    BY <1>2, <2>3, <2>4 DEF ContinuationByte
  <2>6. codepoint' \in 0 .. 2^21 - 1
    BY <2>4, <2>5, ValueBound, CodepointRange, Zenon
  <2>7. numbytes' \in 0 .. 4 /\ i' \in 0 .. numbytes'
    BY <2>1, <2>2, <2>5, SequenceParts
  <2> QED
    BY <2>6, <2>7, Zenon DEF LocalsOK
<1> QED
  BY <1>1, <1>2

LEMMA NextLocals == Inv /\ LocalsOK /\ [Next]_vars => LocalsOK'
<1> SUFFICES ASSUME Inv, LocalsOK, [Next]_vars PROVE LocalsOK'
  OBVIOUS
<1>1. CASE EndOfStream \/ StreamFails \/ Done \/ UNCHANGED vars
  <2>1. UNCHANGED <<codepoint, numbytes, i>>
    BY <1>1 DEF EndOfStream, StreamFails, Done, vars, locals
  <2> QED
    BY <2>1, Zenon DEF LocalsOK
<1> QED
  BY <1>1, StartKeepsLocals, ContinuationKeepsLocals, Zenon DEF Next

LEMMA InitLocals == Init => LocalsOK
<1>1. 0 < CodepointLimit
  BY SMT DEF CodepointLimit
<1>2. 0 \in 0 .. 2^21 - 1
  BY <1>1, CodepointRange
<1>3. 0 \in 0 .. 4 /\ 0 \in 0 .. 0
  OBVIOUS
<1> QED
  BY <1>2, <1>3, Zenon DEF Init, LocalsOK

LEMMA TypeOfInv == Inv /\ LocalsOK => TypeOK
<1> SUFFICES ASSUME Inv, LocalsOK PROVE TypeOK
  OBVIOUS
<1>1. bytes \in Seq(Byte) /\ Outcome
  BY DEF Inv
<1>2. Complete(bytes) \/ Incomplete(bytes) => Len(bytes) <= 4
  BY <1>1, SequenceParts DEF Complete, Incomplete
<1>3. Announced(bytes) <= 4 \/ Len(bytes) = 0
  BY <1>1, BytesOf, StartBytes DEF Announced
<1>4. Len(bytes) <= 4
  BY <1>1, <1>2, <1>3, BytesOf, StartBytes DEF Outcome, Announced
<1>5. Complete(bytes) /\ Value(bytes) <= MaxCodepoint => Value(bytes) \in 0 .. MaxCodepoint
  <2> SUFFICES ASSUME Complete(bytes), Value(bytes) <= MaxCodepoint
               PROVE  Value(bytes) \in 0 .. MaxCodepoint
    OBVIOUS
  <2>1. Value(bytes) \in Nat
    BY <1>1, ValueIsNat DEF Complete
  <2>2. PICK v \in Nat : v = Value(bytes) /\ v <= MaxCodepoint
    BY <2>1, Zenon
  <2>3. MaxCodepoint \in Nat
    BY SMT DEF MaxCodepoint
  <2>4. v \in 0 .. MaxCodepoint
    BY <2>2, <2>3
  <2> QED
    BY <2>2, <2>4, Zenon
<1>6. result \in {NoResult, [kind |-> "None"]}
        \cup [kind : {"Err"}, reason : {"start_byte", "continuation_byte",
                 "premature_EOF", "codepoint", "stream"}]
        \cup [kind : {"Some"}, value : 0 .. MaxCodepoint]
  BY <1>1, <1>5 DEF Outcome, Err, Some
<1> QED
  BY <1>1, <1>4, <1>6, Zenon DEF TypeOK, LocalsOK

\* The code point stays within 21 bits, so that no shift of the code loses a
\* bit, and the place in a sequence within the length its start byte announced.
THEOREM TypeCorrect == Spec => []TypeOK
BY InitInv, NextInv, InitLocals, NextLocals, TypeOfInv, PTL DEF Spec

-----------------------------------------------------------------------------
(* The bytes back from the value *)

LEMMA SequenceOf ==
  ASSUME NEW s \in Seq(Byte)
  PROVE  /\ Len(s) = 1 => s = <<s[1]>>
         /\ Len(s) = 2 => s = <<s[1], s[2]>>
         /\ Len(s) = 3 => s = <<s[1], s[2], s[3]>>
         /\ Len(s) = 4 => s = <<s[1], s[2], s[3], s[4]>>
OBVIOUS

LEMMA ValueByLength ==
  ASSUME NEW s
  PROVE  /\ Len(s) = 1 => Value(s) = StartBits(s[1], Announced(s))
         /\ Len(s) = 2 => Value(s) = StartBits(s[1], Announced(s)) * 64 + (s[2] - 128)
         /\ Len(s) = 3 => Value(s) = (StartBits(s[1], Announced(s)) * 64 + (s[2] - 128)) * 64
                                     + (s[3] - 128)
         /\ Len(s) = 4 => Value(s) = ((StartBits(s[1], Announced(s)) * 64 + (s[2] - 128)) * 64
                                      + (s[3] - 128)) * 64 + (s[4] - 128)
BY SMT DEF Value

LEMMA Forms ==
  ASSUME NEW v
  PROVE  /\ Form(v, 1) = <<v>>
         /\ Form(v, 2) = <<192 + v \div 64, 128 + (v % 64)>>
         /\ Form(v, 3) = <<224 + v \div 4096, 128 + ((v \div 64) % 64), 128 + (v % 64)>>
         /\ Form(v, 4) = <<240 + v \div 262144, 128 + ((v \div 4096) % 64),
                          128 + ((v \div 64) % 64), 128 + (v % 64)>>
BY SMT DEF Form

\* What the parts of a complete sequence are.
LEMMA CompleteStart ==
  ASSUME NEW s \in Seq(Byte), Complete(s)
  PROVE  /\ s[1] \in Nat /\ s[1] <= 255 /\ Len(s) \in {1, 2, 3, 4}
         /\ Len(s) = Announced(s) /\ Len(s) = StartLength(s[1])
BY SequenceParts DEF Complete, Announced

LEMMA CompleteTail ==
  ASSUME NEW s \in Seq(Byte), Complete(s)
  PROVE  /\ Len(s) >= 2 => s[2] \in Nat /\ s[2] >= 128 /\ s[2] <= 191
         /\ Len(s) >= 3 => s[3] \in Nat /\ s[3] >= 128 /\ s[3] <= 191
         /\ Len(s) >= 4 => s[4] \in Nat /\ s[4] >= 128 /\ s[4] <= 191
BY CompleteStart, SequenceParts DEF Complete

LEMMA Complete1 ==
  ASSUME NEW s \in Seq(Byte), Complete(s), Len(s) = 1
  PROVE  \E a \in Nat :
           /\ s = <<a>>
           /\ a <= 127
           /\ Value(s) = a
<1>1. StartBits(s[1], 1) = s[1] /\ s[1] <= 127
  <2>1. StartLength(s[1]) = 1
    <3>1. Len(s) = StartLength(s[1])
      BY CompleteStart, Zenon
    <3> QED
      BY <3>1
  <2>2. s[1] \in Nat /\ s[1] <= 255
    BY CompleteStart
  <2>3. StartBits(s[1], 1) = s[1]
    <3>1. \A b \in Nat : b <= 255 /\ StartLength(b) = 1 => StartBits(b, 1) = b
      BY StartOffsets, SMT
    <3> QED
      BY <2>1, <2>2, <3>1, Zenon
  <2>4. s[1] <= 127
    <3>1. \A b \in Nat : b <= 255 /\ StartLength(b) = 1 => b <= 127
      BY StartBytes, SMT
    <3> QED
      BY <2>1, <2>2, <3>1, Zenon
  <2> QED
    BY <2>3, <2>4
<1>2. Value(s) = StartBits(s[1], 1)
  <2>1. Announced(s) = 1
    BY CompleteStart
  <2> QED
    BY <2>1, ValueByLength, Zenon
<1>3. Value(s) = s[1]
  BY <1>1, <1>2
<1>4. s = <<s[1]>>
  BY SequenceOf
<1>5. s[1] \in Nat
  BY CompleteStart
<1> QED
  BY <1>1, <1>3, <1>4, <1>5

LEMMA Complete2 ==
  ASSUME NEW s \in Seq(Byte), Complete(s), Len(s) = 2
  PROVE  \E a \in Nat, b \in Nat :
           /\ s = <<a, b>>
           /\ a >= 192 /\ a <= 223
           /\ b >= 128 /\ b <= 191
           /\ Value(s) = (a - 192) * 64 + (b - 128)
<1>1. StartBits(s[1], 2) = s[1] - 192 /\ s[1] >= 192 /\ s[1] <= 223
  <2>1. StartLength(s[1]) = 2
    <3>1. Len(s) = StartLength(s[1])
      BY CompleteStart, Zenon
    <3> QED
      BY <3>1
  <2>2. s[1] \in Nat /\ s[1] <= 255
    BY CompleteStart
  <2>3. StartBits(s[1], 2) = s[1] - 192
    <3>1. \A b \in Nat : b <= 255 /\ StartLength(b) = 2 => StartBits(b, 2) = b - 192
      BY StartOffsets, SMT
    <3> QED
      BY <2>1, <2>2, <3>1, Zenon
  <2>4. s[1] >= 192 /\ s[1] <= 223
    <3>1. \A b \in Nat : b <= 255 /\ StartLength(b) = 2 => b >= 192 /\ b <= 223
      BY StartBytes, SMT
    <3> QED
      BY <2>1, <2>2, <3>1, Zenon
  <2> QED
    BY <2>3, <2>4
<1>2. Value(s) = StartBits(s[1], 2) * 64 + (s[2] - 128)
  <2>1. Announced(s) = 2
    BY CompleteStart
  <2> QED
    BY <2>1, ValueByLength, Zenon
<1>3. Value(s) = (s[1] - 192) * 64 + (s[2] - 128)
  BY <1>1, <1>2
<1>4. s = <<s[1], s[2]>>
  BY SequenceOf
<1>5. s[1] \in Nat
  BY CompleteStart
<1>6. s[2] \in Nat /\ s[2] >= 128 /\ s[2] <= 191
  <2>1. Len(s) >= 2
    OBVIOUS
  <2> QED
    BY <2>1, CompleteTail, Zenon
<1> QED
  BY <1>1, <1>3, <1>4, <1>5, <1>6

LEMMA Complete3 ==
  ASSUME NEW s \in Seq(Byte), Complete(s), Len(s) = 3
  PROVE  \E a \in Nat, b \in Nat, c \in Nat :
           /\ s = <<a, b, c>>
           /\ a >= 224 /\ a <= 239
           /\ b >= 128 /\ b <= 191
           /\ c >= 128 /\ c <= 191
           /\ Value(s) = ((a - 224) * 64 + (b - 128)) * 64 + (c - 128)
<1>1. StartBits(s[1], 3) = s[1] - 224 /\ s[1] >= 224 /\ s[1] <= 239
  <2>1. StartLength(s[1]) = 3
    <3>1. Len(s) = StartLength(s[1])
      BY CompleteStart, Zenon
    <3> QED
      BY <3>1
  <2>2. s[1] \in Nat /\ s[1] <= 255
    BY CompleteStart
  <2>3. StartBits(s[1], 3) = s[1] - 224
    <3>1. \A b \in Nat : b <= 255 /\ StartLength(b) = 3 => StartBits(b, 3) = b - 224
      BY StartOffsets, SMT
    <3> QED
      BY <2>1, <2>2, <3>1, Zenon
  <2>4. s[1] >= 224 /\ s[1] <= 239
    <3>1. \A b \in Nat : b <= 255 /\ StartLength(b) = 3 => b >= 224 /\ b <= 239
      BY StartBytes, SMT
    <3> QED
      BY <2>1, <2>2, <3>1, Zenon
  <2> QED
    BY <2>3, <2>4
<1>2. Value(s) = (StartBits(s[1], 3) * 64 + (s[2] - 128)) * 64 + (s[3] - 128)
  <2>1. Announced(s) = 3
    BY CompleteStart
  <2> QED
    BY <2>1, ValueByLength, Zenon
<1>3. Value(s) = ((s[1] - 224) * 64 + (s[2] - 128)) * 64 + (s[3] - 128)
  BY <1>1, <1>2
<1>4. s = <<s[1], s[2], s[3]>>
  BY SequenceOf
<1>5. s[1] \in Nat
  BY CompleteStart
<1>6. /\ s[2] \in Nat /\ s[2] >= 128 /\ s[2] <= 191
      /\ s[3] \in Nat /\ s[3] >= 128 /\ s[3] <= 191
  BY CompleteTail
<1> QED
  BY <1>1, <1>3, <1>4, <1>5, <1>6

LEMMA Complete4 ==
  ASSUME NEW s \in Seq(Byte), Complete(s), Len(s) = 4
  PROVE  \E a \in Nat, b \in Nat, c \in Nat, d \in Nat :
           /\ s = <<a, b, c, d>>
           /\ a >= 240 /\ a <= 247
           /\ b >= 128 /\ b <= 191
           /\ c >= 128 /\ c <= 191
           /\ d >= 128 /\ d <= 191
           /\ Value(s) = (((a - 240) * 64 + (b - 128)) * 64 + (c - 128)) * 64 + (d - 128)
<1>1. StartBits(s[1], 4) = s[1] - 240 /\ s[1] >= 240 /\ s[1] <= 247
  <2>1. StartLength(s[1]) = 4
    <3>1. Len(s) = StartLength(s[1])
      BY CompleteStart, Zenon
    <3> QED
      BY <3>1
  <2>2. s[1] \in Nat /\ s[1] <= 255
    BY CompleteStart
  <2>3. StartBits(s[1], 4) = s[1] - 240
    <3>1. \A b \in Nat : b <= 255 /\ StartLength(b) = 4 => StartBits(b, 4) = b - 240
      BY StartOffsets, SMT
    <3> QED
      BY <2>1, <2>2, <3>1, Zenon
  <2>4. s[1] >= 240 /\ s[1] <= 247
    <3>1. \A b \in Nat : b <= 255 /\ StartLength(b) = 4 => b >= 240 /\ b <= 247
      BY StartBytes, SMT
    <3> QED
      BY <2>1, <2>2, <3>1, Zenon
  <2> QED
    BY <2>3, <2>4
<1>2. Value(s) = ((StartBits(s[1], 4) * 64 + (s[2] - 128)) * 64 + (s[3] - 128)) * 64 + (s[4] - 128)
  <2>1. Announced(s) = 4
    BY CompleteStart
  <2> QED
    BY <2>1, ValueByLength, Zenon
<1>3. Value(s) = (((s[1] - 240) * 64 + (s[2] - 128)) * 64 + (s[3] - 128)) * 64 + (s[4] - 128)
  BY <1>1, <1>2
<1>4. s = <<s[1], s[2], s[3], s[4]>>
  BY SequenceOf
<1>5. s[1] \in Nat
  BY CompleteStart
<1>6. /\ s[2] \in Nat /\ s[2] >= 128 /\ s[2] <= 191
      /\ s[3] \in Nat /\ s[3] >= 128 /\ s[3] <= 191
      /\ s[4] \in Nat /\ s[4] >= 128 /\ s[4] <= 191
  BY CompleteTail
<1> QED
  BY <1>1, <1>3, <1>4, <1>5, <1>6

\* A complete sequence is the form of its value.
LEMMA FormOfValue ==
  ASSUME NEW s \in Seq(Byte), Complete(s)
  PROVE  Len(s) \in {1, 2, 3, 4} /\ s = Form(Value(s), Len(s))
<1> DEFINE v == Value(s)
<1>1. CASE Len(s) = 1
  BY <1>1, Complete1, Forms
<1>2. CASE Len(s) = 2
  <2>1. PICK a \in Nat, b \in Nat : /\ s = <<a, b>> /\ a >= 192 /\ b >= 128 /\ b <= 191
                                    /\ v = (a - 192) * 64 + (b - 128)
    BY <1>2, Complete2
  <2>2. 192 + v \div 64 = a /\ 128 + (v % 64) = b
    BY <2>1, SMT
  <2> QED
    BY <1>2, <2>1, <2>2, Forms
<1>3. CASE Len(s) = 3
  <2>1. PICK a \in Nat, b \in Nat, c \in Nat :
          /\ s = <<a, b, c>> /\ a >= 224 /\ b >= 128 /\ b <= 191 /\ c >= 128 /\ c <= 191
          /\ v = ((a - 224) * 64 + (b - 128)) * 64 + (c - 128)
    BY <1>3, Complete3
  <2>2. 224 + v \div 4096 = a /\ 128 + ((v \div 64) % 64) = b /\ 128 + (v % 64) = c
    BY <2>1, SMTT(30)
  <2> QED
    BY <1>3, <2>1, <2>2, Forms
<1>4. CASE Len(s) = 4
  <2>1. PICK a \in Nat, b \in Nat, c \in Nat, d \in Nat :
          /\ s = <<a, b, c, d>> /\ a >= 240 /\ b >= 128 /\ b <= 191 /\ c >= 128 /\ c <= 191
          /\ d >= 128 /\ d <= 191
          /\ v = (((a - 240) * 64 + (b - 128)) * 64 + (c - 128)) * 64 + (d - 128)
    BY <1>4, Complete4
  <2>2. /\ 240 + v \div 262144 = a /\ 128 + ((v \div 4096) % 64) = b
        /\ 128 + ((v \div 64) % 64) = c /\ 128 + (v % 64) = d
    BY <2>1, SMTT(30)
  <2> QED
    BY <1>4, <2>1, <2>2, Forms
<1> QED
  BY <1>1, <1>2, <1>3, <1>4, CompleteStart

LEMMA Kinds ==
  /\ \A reason : Err(reason).kind # "Some"
  /\ NoResult.kind # "Some" /\ [kind |-> "None"].kind # "Some"
BY DEF Err, NoResult

LEMMA Decoded == Inv => DecodedIsRead
<1> SUFFICES ASSUME Inv, result.kind = "Some" PROVE DecodedIsRead
  BY DEF DecodedIsRead
<1>1. result = Some(Value(bytes)) /\ Complete(bytes) /\ bytes \in Seq(Byte)
  BY Kinds, Zenon DEF Inv, Outcome
<1>2. result.value = Value(bytes)
  BY <1>1 DEF Some
<1>3. Len(bytes) \in {1, 2, 3, 4} /\ bytes = Form(Value(bytes), Len(bytes))
  BY <1>1, FormOfValue
<1>4. Len(bytes) \in 1 .. 4
  BY <1>3
<1> QED
  BY <1>2, <1>3, <1>4 DEF DecodedIsRead

\* What get_unicodechar returns is the code point whose form it took from the
\* stream, whatever bytes the stream holds.
THEOREM DecodesWhatIsRead == Spec => []DecodedIsRead
BY Decoded, Invariance, PTL

-----------------------------------------------------------------------------
(* The rows of the table *)

LEMMA Rows ==
  ASSUME NEW row
  PROVE  row \in WellFormedRows <=>
           \/ row = <<0 .. 127>>
           \/ row = <<194 .. 223, TailByte>>
           \/ row = <<{224}, 160 .. 191, TailByte>>
           \/ row = <<(225 .. 236) \cup (238 .. 239), TailByte, TailByte>>
           \/ row = <<{237}, 128 .. 159, TailByte>>
           \/ row = <<{240}, 144 .. 191, TailByte, TailByte>>
           \/ row = <<241 .. 243, TailByte, TailByte, TailByte>>
           \/ row = <<{244}, 128 .. 143, TailByte, TailByte>>
BY DEF WellFormedRows

\* A sequence of the length of a row whose bytes are in it.
LEMMA Fits1 ==
  ASSUME NEW s \in Seq(Byte), Len(s) = 1, NEW A, s[1] \in A, <<A>> \in WellFormedRows
  PROVE  WellFormed(s)
<1>1. FitsRow(s, <<A>>)
  BY DEF FitsRow
<1> QED
  BY <1>1 DEF WellFormed

LEMMA Fits2 ==
  ASSUME NEW s \in Seq(Byte), Len(s) = 2, NEW A, NEW B, s[1] \in A, s[2] \in B,
         <<A, B>> \in WellFormedRows
  PROVE  WellFormed(s)
<1>1. FitsRow(s, <<A, B>>)
  BY DEF FitsRow
<1> QED
  BY <1>1 DEF WellFormed

LEMMA Fits3 ==
  ASSUME NEW s \in Seq(Byte), Len(s) = 3, NEW A, NEW B, NEW C, s[1] \in A, s[2] \in B,
         s[3] \in C, <<A, B, C>> \in WellFormedRows
  PROVE  WellFormed(s)
<1>1. FitsRow(s, <<A, B, C>>)
  BY DEF FitsRow
<1> QED
  BY <1>1 DEF WellFormed

LEMMA Fits4 ==
  ASSUME NEW s \in Seq(Byte), Len(s) = 4, NEW A, NEW B, NEW C, NEW D, s[1] \in A,
         s[2] \in B, s[3] \in C, s[4] \in D, <<A, B, C, D>> \in WellFormedRows
  PROVE  WellFormed(s)
<1>1. FitsRow(s, <<A, B, C, D>>)
  BY DEF FitsRow
<1> QED
  BY <1>1 DEF WellFormed

\* A complete sequence is in a row, or is one of the two that are not refused.
LEMMA CompleteIsWellFormed ==
  ASSUME NEW s \in Seq(Byte), Complete(s), Value(s) <= MaxCodepoint
  PROVE  WellFormed(s) \/ Overlong(Value(s), Len(s)) \/ Value(s) \in Surrogates
<1> DEFINE v == Value(s)
<1>0. /\ Overlong(v, 2) <=> v < 128
      /\ Overlong(v, 3) <=> v < 2048
      /\ Overlong(v, 4) <=> v < 65536
  BY SMT DEF Overlong
<1>1. CASE Len(s) = 1
  <2>1. PICK a \in Nat : s = <<a>> /\ a <= 127
    BY <1>1, Complete1
  <2>2. s[1] \in 0 .. 127
    BY <2>1
  <2>3. <<0 .. 127>> \in WellFormedRows
    BY Rows, SMT
  <2> QED
    BY <1>1, <2>2, <2>3, Fits1, Zenon
<1>2. CASE Len(s) = 2
  <2>1. PICK a \in Nat, b \in Nat :
          /\ s = <<a, b>> /\ a >= 192 /\ a <= 223 /\ b >= 128 /\ b <= 191
          /\ v = (a - 192) * 64 + (b - 128)
    BY <1>2, Complete2
  <2>2. s[1] = a /\ s[2] = b /\ s[2] \in TailByte
    BY <2>1 DEF TailByte
  <2>3. CASE a >= 194
    <3>1. s[1] \in 194 .. 223
      BY <2>1, <2>2, <2>3
    <3>2. <<194 .. 223, TailByte>> \in WellFormedRows
      BY Rows, Zenon
    <3> QED
      BY <1>2, <2>2, <3>1, <3>2, Fits2, Zenon
  <2>4. CASE a < 194
    <3>1. v < 128
      BY <2>1, <2>4
    <3>2. Overlong(v, 2)
      BY <1>0, <3>1, SMT
    <3> QED
      BY <1>2, <3>2, Zenon
  <2> QED
    BY <2>3, <2>4
<1>3. CASE Len(s) = 3
  <2>1. PICK a \in Nat, b \in Nat, c \in Nat :
          /\ s = <<a, b, c>> /\ a >= 224 /\ a <= 239
          /\ b >= 128 /\ b <= 191 /\ c >= 128 /\ c <= 191
          /\ v = ((a - 224) * 64 + (b - 128)) * 64 + (c - 128)
    BY <1>3, Complete3
  <2>2. s[1] = a /\ s[2] = b /\ s[2] \in TailByte /\ s[3] \in TailByte
    BY <2>1 DEF TailByte
  <2>3. CASE a = 224
    <3>1. CASE b >= 160
      <4>1. s[1] \in {224} /\ s[2] \in 160 .. 191
        BY <2>1, <2>2, <2>3, <3>1
      <4>2. <<{224}, 160 .. 191, TailByte>> \in WellFormedRows
        BY Rows, Zenon
      <4>3. PICK A, B : A = {224} /\ B = 160 .. 191
        OBVIOUS
      <4>4. s[1] \in A /\ s[2] \in B /\ <<A, B, TailByte>> \in WellFormedRows
        BY <4>1, <4>2, <4>3
      <4> QED
        BY <1>3, <2>2, <4>4, Fits3, Zenon
    <3>2. CASE b < 160
      <4>1. v < 2048
        BY <2>1, <2>3, <3>2
      <4>2. Overlong(v, 3)
        BY <1>0, <4>1, SMT
      <4> QED
        BY <1>3, <4>2, Zenon
    <3> QED
      BY <3>1, <3>2
  <2>4. CASE a = 237
    <3>1. CASE b <= 159
      <4>1. s[1] \in {237} /\ s[2] \in 128 .. 159
        BY <2>1, <2>2, <2>4, <3>1
      <4>2. <<{237}, 128 .. 159, TailByte>> \in WellFormedRows
        BY Rows, Zenon
      <4>3. PICK A, B : A = {237} /\ B = 128 .. 159
        OBVIOUS
      <4>4. s[1] \in A /\ s[2] \in B /\ <<A, B, TailByte>> \in WellFormedRows
        BY <4>1, <4>2, <4>3
      <4> QED
        BY <1>3, <2>2, <4>4, Fits3, Zenon
    <3>2. CASE b > 159
      <4>1. v \in Surrogates
        BY <2>1, <2>4, <3>2 DEF Surrogates
      <4> QED
        BY <4>1
    <3> QED
      BY <3>1, <3>2
  <2>5. CASE a # 224 /\ a # 237
    <3>1. s[1] \in (225 .. 236) \cup (238 .. 239)
      BY <2>1, <2>2, <2>5
    <3>2. <<(225 .. 236) \cup (238 .. 239), TailByte, TailByte>> \in WellFormedRows
      BY Rows, Zenon
    <3>3. PICK A, B : A = (225 .. 236) \cup (238 .. 239) /\ B = TailByte
      OBVIOUS
    <3>4. s[1] \in A /\ s[2] \in B /\ <<A, B, TailByte>> \in WellFormedRows
      BY <2>2, <3>1, <3>2, <3>3
    <3> QED
      BY <1>3, <2>2, <3>4, Fits3, Zenon
  <2> QED
    BY <2>3, <2>4, <2>5
<1>4. CASE Len(s) = 4
  <2>1. PICK a \in Nat, b \in Nat, c \in Nat, d \in Nat :
          /\ s = <<a, b, c, d>> /\ a >= 240 /\ a <= 247 /\ b >= 128 /\ b <= 191
          /\ c >= 128 /\ c <= 191 /\ d >= 128 /\ d <= 191
          /\ v = (((a - 240) * 64 + (b - 128)) * 64 + (c - 128)) * 64 + (d - 128)
    BY <1>4, Complete4
  <2>2. /\ s[1] = a /\ s[2] = b
        /\ s[2] \in TailByte /\ s[3] \in TailByte /\ s[4] \in TailByte
    BY <2>1 DEF TailByte
  <2>3. a < 244 \/ (a = 244 /\ b <= 143)
    BY <2>1, SMT DEF MaxCodepoint
  <2>4. CASE a = 240
    <3>1. CASE b >= 144
      <4>1. s[1] \in {240} /\ s[2] \in 144 .. 191
        BY <2>1, <2>2, <2>4, <3>1
      <4>2. <<{240}, 144 .. 191, TailByte, TailByte>> \in WellFormedRows
        BY Rows, Zenon
      <4>3. PICK A, B : A = {240} /\ B = 144 .. 191
        OBVIOUS
      <4>4. s[1] \in A /\ s[2] \in B /\ <<A, B, TailByte, TailByte>> \in WellFormedRows
        BY <4>1, <4>2, <4>3
      <4> QED
        BY <1>4, <2>2, <4>4, Fits4, Zenon
    <3>2. CASE b < 144
      <4>1. v < 65536
        BY <2>1, <2>4, <3>2
      <4>2. Overlong(v, 4)
        BY <1>0, <4>1, SMT
      <4> QED
        BY <1>4, <4>2, Zenon
    <3> QED
      BY <3>1, <3>2
  <2>5. CASE a > 240 /\ a < 244
    <3>1. s[1] \in 241 .. 243
      BY <2>1, <2>2, <2>5
    <3>2. <<241 .. 243, TailByte, TailByte, TailByte>> \in WellFormedRows
      BY Rows, Zenon
    <3>3. PICK A, B : A = 241 .. 243 /\ B = TailByte
      OBVIOUS
    <3>4. s[1] \in A /\ s[2] \in B /\ <<A, B, TailByte, TailByte>> \in WellFormedRows
      BY <2>2, <3>1, <3>2, <3>3
    <3> QED
      BY <1>4, <2>2, <3>4, Fits4, Zenon
  <2>6. CASE a = 244 /\ b <= 143
    <3>1. s[1] \in {244} /\ s[2] \in 128 .. 143
      BY <2>1, <2>2, <2>6
    <3>2. <<{244}, 128 .. 143, TailByte, TailByte>> \in WellFormedRows
      BY Rows, Zenon
    <3>3. PICK A, B : A = {244} /\ B = 128 .. 143
      OBVIOUS
    <3>4. s[1] \in A /\ s[2] \in B /\ <<A, B, TailByte, TailByte>> \in WellFormedRows
      BY <3>1, <3>2, <3>3
    <3> QED
      BY <1>4, <2>2, <3>4, Fits4, Zenon
  <2> QED
    BY <2>1, <2>3, <2>4, <2>5, <2>6
<1> QED
  BY <1>1, <1>2, <1>3, <1>4, CompleteStart

\* Of the sequences that are ill-formed only overlong forms and surrogates are
\* accepted: everything else that the Standard's table leaves out is refused,
\* for every sequence of bytes.
THEOREM OnlyTheseAccepted == Spec => []AcceptedForms
<1>1. Inv => AcceptedForms
  <2> SUFFICES ASSUME Inv, result.kind = "Some" PROVE AcceptedForms
    BY DEF AcceptedForms
  <2>1. /\ result = Some(Value(bytes)) /\ Complete(bytes) /\ bytes \in Seq(Byte)
        /\ Value(bytes) <= MaxCodepoint
    BY Kinds, Zenon DEF Inv, Outcome
  <2>2. result.value = Value(bytes)
    BY <2>1 DEF Some
  <2>3. WellFormed(bytes) \/ Overlong(Value(bytes), Len(bytes)) \/ Value(bytes) \in Surrogates
    BY <2>1, CompleteIsWellFormed
  <2> QED
    BY <2>2, <2>3, Zenon DEF AcceptedForms
<1> QED
  BY <1>1, Invariance, PTL

\* What a sequence is made of that is in a row, or the beginning of one.
InRow(s, n) ==
  /\ n \in {1, 2, 3, 4} /\ Len(s) <= n
  /\ n = 1 => s[1] <= 127
  /\ n = 2 => s[1] >= 192 /\ s[1] <= 223
  /\ n = 3 => s[1] >= 224 /\ s[1] <= 239
  /\ n = 4 => s[1] >= 240 /\ s[1] <= 244
  /\ Len(s) >= 2 => s[2] >= 128 /\ s[2] <= 191 /\ (s[1] = 244 => s[2] <= 143)
  /\ Len(s) >= 3 => s[3] >= 128 /\ s[3] <= 191
  /\ Len(s) >= 4 => s[4] >= 128 /\ s[4] <= 191

LEMMA RowOf1 ==
  ASSUME NEW s, NEW A, FitsRow(s, <<A>>), Len(s) \in Nat, Len(s) >= 1
  PROVE  /\ Len(<<A>>) = 1 /\ Len(s) <= 1 /\ s[1] \in A
BY DEF FitsRow

LEMMA RowOf2 ==
  ASSUME NEW s, NEW A, NEW B, FitsRow(s, <<A, B>>), Len(s) \in Nat, Len(s) >= 1
  PROVE  /\ Len(<<A, B>>) = 2 /\ Len(s) <= 2 /\ s[1] \in A
         /\ Len(s) >= 2 => s[2] \in B
BY DEF FitsRow

LEMMA RowOf3 ==
  ASSUME NEW s, NEW A, NEW B, NEW C, FitsRow(s, <<A, B, C>>), Len(s) \in Nat, Len(s) >= 1
  PROVE  /\ Len(<<A, B, C>>) = 3 /\ Len(s) <= 3 /\ s[1] \in A
         /\ Len(s) >= 2 => s[2] \in B
         /\ Len(s) >= 3 => s[3] \in C
BY DEF FitsRow

LEMMA RowOf4 ==
  ASSUME NEW s, NEW A, NEW B, NEW C, NEW D, FitsRow(s, <<A, B, C, D>>), Len(s) \in Nat, Len(s) >= 1
  PROVE  /\ Len(<<A, B, C, D>>) = 4 /\ Len(s) <= 4 /\ s[1] \in A
         /\ Len(s) >= 2 => s[2] \in B
         /\ Len(s) >= 3 => s[3] \in C
         /\ Len(s) >= 4 => s[4] \in D
BY DEF FitsRow

LEMMA RowParts ==
  ASSUME NEW s \in Seq(Byte), Len(s) >= 1, NEW row \in WellFormedRows, FitsRow(s, row)
  PROVE  InRow(s, Len(row))
<1>1. /\ Len(s) \in Nat /\ s[1] \in Nat
      /\ Len(s) >= 2 => s[2] \in Nat
      /\ Len(s) >= 3 => s[3] \in Nat
      /\ Len(s) >= 4 => s[4] \in Nat
  BY BytesOf
<1>2. CASE row = <<0 .. 127>>
  <2>1. PICK A : A = 0 .. 127
    OBVIOUS
  <2>2. row = <<A>> /\ FitsRow(s, <<A>>)
    BY <1>2, <2>1
  <2>3. /\ Len(row) = 1 /\ Len(s) <= 1 /\ s[1] \in A
    BY <1>1, <2>2, RowOf1, Zenon
  <2>4. \A x \in A : x >= 0 /\ x <= 127
    BY <2>1 DEF TailByte
  <2>5. /\ s[1] >= 0 /\ s[1] <= 127
    BY <2>3, <2>4, SMT
  <2> QED
    BY <1>1, <2>3, <2>5 DEF InRow
<1>3. CASE row = <<194 .. 223, TailByte>>
  <2>1. PICK A, B : A = 194 .. 223 /\ B = TailByte
    OBVIOUS
  <2>2. row = <<A, B>> /\ FitsRow(s, <<A, B>>)
    BY <1>3, <2>1
  <2>3. /\ Len(row) = 2 /\ Len(s) <= 2 /\ s[1] \in A
        /\ Len(s) >= 2 => s[2] \in B
    BY <1>1, <2>2, RowOf2, Zenon
  <2>4. /\ \A x \in A : x >= 194 /\ x <= 223
        /\ \A x \in B : x >= 128 /\ x <= 191
    BY <2>1 DEF TailByte
  <2>5. /\ s[1] >= 194 /\ s[1] <= 223
        /\ Len(s) >= 2 => s[2] >= 128 /\ s[2] <= 191
    BY <2>3, <2>4, SMT
  <2> QED
    BY <1>1, <2>3, <2>5 DEF InRow
<1>4. CASE row = <<{224}, 160 .. 191, TailByte>>
  <2>1. PICK A, B, C : A = {224} /\ B = 160 .. 191 /\ C = TailByte
    OBVIOUS
  <2>2. row = <<A, B, C>> /\ FitsRow(s, <<A, B, C>>)
    BY <1>4, <2>1
  <2>3. /\ Len(row) = 3 /\ Len(s) <= 3 /\ s[1] \in A
        /\ Len(s) >= 2 => s[2] \in B
        /\ Len(s) >= 3 => s[3] \in C
    BY <1>1, <2>2, RowOf3, Zenon
  <2>4. /\ \A x \in A : x >= 224 /\ x <= 224
        /\ \A x \in B : x >= 160 /\ x <= 191
        /\ \A x \in C : x >= 128 /\ x <= 191
    BY <2>1 DEF TailByte
  <2>5. /\ s[1] >= 224 /\ s[1] <= 224
        /\ Len(s) >= 2 => s[2] >= 160 /\ s[2] <= 191
        /\ Len(s) >= 3 => s[3] >= 128 /\ s[3] <= 191
    BY <2>3, <2>4, SMT
  <2> QED
    BY <1>1, <2>3, <2>5 DEF InRow
<1>5. CASE row = <<(225 .. 236) \cup (238 .. 239), TailByte, TailByte>>
  <2>1. PICK A, B, C : A = (225 .. 236) \cup (238 .. 239) /\ B = TailByte /\ C = TailByte
    OBVIOUS
  <2>2. row = <<A, B, C>> /\ FitsRow(s, <<A, B, C>>)
    BY <1>5, <2>1
  <2>3. /\ Len(row) = 3 /\ Len(s) <= 3 /\ s[1] \in A
        /\ Len(s) >= 2 => s[2] \in B
        /\ Len(s) >= 3 => s[3] \in C
    BY <1>1, <2>2, RowOf3, Zenon
  <2>4. /\ \A x \in A : x >= 225 /\ x <= 239
        /\ \A x \in B : x >= 128 /\ x <= 191
        /\ \A x \in C : x >= 128 /\ x <= 191
    BY <2>1 DEF TailByte
  <2>5. /\ s[1] >= 225 /\ s[1] <= 239
        /\ Len(s) >= 2 => s[2] >= 128 /\ s[2] <= 191
        /\ Len(s) >= 3 => s[3] >= 128 /\ s[3] <= 191
    BY <2>3, <2>4, SMT
  <2> QED
    BY <1>1, <2>3, <2>5 DEF InRow
<1>6. CASE row = <<{237}, 128 .. 159, TailByte>>
  <2>1. PICK A, B, C : A = {237} /\ B = 128 .. 159 /\ C = TailByte
    OBVIOUS
  <2>2. row = <<A, B, C>> /\ FitsRow(s, <<A, B, C>>)
    BY <1>6, <2>1
  <2>3. /\ Len(row) = 3 /\ Len(s) <= 3 /\ s[1] \in A
        /\ Len(s) >= 2 => s[2] \in B
        /\ Len(s) >= 3 => s[3] \in C
    BY <1>1, <2>2, RowOf3, Zenon
  <2>4. /\ \A x \in A : x >= 237 /\ x <= 237
        /\ \A x \in B : x >= 128 /\ x <= 159
        /\ \A x \in C : x >= 128 /\ x <= 191
    BY <2>1 DEF TailByte
  <2>5. /\ s[1] >= 237 /\ s[1] <= 237
        /\ Len(s) >= 2 => s[2] >= 128 /\ s[2] <= 159
        /\ Len(s) >= 3 => s[3] >= 128 /\ s[3] <= 191
    BY <2>3, <2>4, SMT
  <2> QED
    BY <1>1, <2>3, <2>5 DEF InRow
<1>7. CASE row = <<{240}, 144 .. 191, TailByte, TailByte>>
  <2>1. PICK A, B, C, D : A = {240} /\ B = 144 .. 191 /\ C = TailByte /\ D = TailByte
    OBVIOUS
  <2>2. row = <<A, B, C, D>> /\ FitsRow(s, <<A, B, C, D>>)
    BY <1>7, <2>1
  <2>3. /\ Len(row) = 4 /\ Len(s) <= 4 /\ s[1] \in A
        /\ Len(s) >= 2 => s[2] \in B
        /\ Len(s) >= 3 => s[3] \in C
        /\ Len(s) >= 4 => s[4] \in D
    BY <1>1, <2>2, RowOf4, Zenon
  <2>4. /\ \A x \in A : x >= 240 /\ x <= 240
        /\ \A x \in B : x >= 144 /\ x <= 191
        /\ \A x \in C : x >= 128 /\ x <= 191
        /\ \A x \in D : x >= 128 /\ x <= 191
    BY <2>1 DEF TailByte
  <2>5. /\ s[1] >= 240 /\ s[1] <= 240
        /\ Len(s) >= 2 => s[2] >= 144 /\ s[2] <= 191
        /\ Len(s) >= 3 => s[3] >= 128 /\ s[3] <= 191
        /\ Len(s) >= 4 => s[4] >= 128 /\ s[4] <= 191
    BY <2>3, <2>4, SMT
  <2> QED
    BY <1>1, <2>3, <2>5 DEF InRow
<1>8. CASE row = <<241 .. 243, TailByte, TailByte, TailByte>>
  <2>1. PICK A, B, C, D : A = 241 .. 243 /\ B = TailByte /\ C = TailByte /\ D = TailByte
    OBVIOUS
  <2>2. row = <<A, B, C, D>> /\ FitsRow(s, <<A, B, C, D>>)
    BY <1>8, <2>1
  <2>3. /\ Len(row) = 4 /\ Len(s) <= 4 /\ s[1] \in A
        /\ Len(s) >= 2 => s[2] \in B
        /\ Len(s) >= 3 => s[3] \in C
        /\ Len(s) >= 4 => s[4] \in D
    BY <1>1, <2>2, RowOf4, Zenon
  <2>4. /\ \A x \in A : x >= 241 /\ x <= 243
        /\ \A x \in B : x >= 128 /\ x <= 191
        /\ \A x \in C : x >= 128 /\ x <= 191
        /\ \A x \in D : x >= 128 /\ x <= 191
    BY <2>1 DEF TailByte
  <2>5. /\ s[1] >= 241 /\ s[1] <= 243
        /\ Len(s) >= 2 => s[2] >= 128 /\ s[2] <= 191
        /\ Len(s) >= 3 => s[3] >= 128 /\ s[3] <= 191
        /\ Len(s) >= 4 => s[4] >= 128 /\ s[4] <= 191
    BY <2>3, <2>4, SMT
  <2> QED
    BY <1>1, <2>3, <2>5 DEF InRow
<1>9. CASE row = <<{244}, 128 .. 143, TailByte, TailByte>>
  <2>1. PICK A, B, C, D : A = {244} /\ B = 128 .. 143 /\ C = TailByte /\ D = TailByte
    OBVIOUS
  <2>2. row = <<A, B, C, D>> /\ FitsRow(s, <<A, B, C, D>>)
    BY <1>9, <2>1
  <2>3. /\ Len(row) = 4 /\ Len(s) <= 4 /\ s[1] \in A
        /\ Len(s) >= 2 => s[2] \in B
        /\ Len(s) >= 3 => s[3] \in C
        /\ Len(s) >= 4 => s[4] \in D
    BY <1>1, <2>2, RowOf4, Zenon
  <2>4. /\ \A x \in A : x >= 244 /\ x <= 244
        /\ \A x \in B : x >= 128 /\ x <= 143
        /\ \A x \in C : x >= 128 /\ x <= 191
        /\ \A x \in D : x >= 128 /\ x <= 191
    BY <2>1 DEF TailByte
  <2>5. /\ s[1] >= 244 /\ s[1] <= 244
        /\ Len(s) >= 2 => s[2] >= 128 /\ s[2] <= 143
        /\ Len(s) >= 3 => s[3] >= 128 /\ s[3] <= 191
        /\ Len(s) >= 4 => s[4] >= 128 /\ s[4] <= 191
    BY <2>3, <2>4, SMT
  <2> QED
    BY <1>1, <2>3, <2>5 DEF InRow
<1> QED
  BY <1>2, <1>3, <1>4, <1>5, <1>6, <1>7, <1>8, <1>9, Rows, Zenon

LEMMA RowLengths ==
  ASSUME NEW row \in WellFormedRows
  PROVE  Len(row) \in {1, 2, 3, 4}
BY Rows

\* The results are told apart.
LEMMA Reasons ==
  /\ Err("premature_EOF") \notin {Err("start_byte"), Err("continuation_byte"), Err("codepoint")}
  /\ Err("stream") \notin {Err("start_byte"), Err("continuation_byte"), Err("codepoint")}
  /\ Err("start_byte") # Err("continuation_byte")
  /\ Err("start_byte") # Err("codepoint") /\ Err("continuation_byte") # Err("codepoint")
  /\ \A r : /\ Err(r) # NoResult /\ Err(r) # [kind |-> "None"]
            /\ \A c : Err(r) # Some(c)
BY DEF Err, NoResult, Some

\* A complete sequence in a row is the form of a code point.
LEMMA RowValue ==
  ASSUME NEW s \in Seq(Byte), Complete(s), InRow(s, Len(s))
  PROVE  Value(s) \in Nat /\ Value(s) <= MaxCodepoint
<1>1. CASE Len(s) = 1
  <2>1. PICK a \in Nat : a <= 127 /\ Value(s) = a
    BY <1>1, Complete1
  <2> QED
    BY <2>1, SMT DEF MaxCodepoint
<1>2. CASE Len(s) = 2
  <2>1. PICK a \in Nat, b \in Nat :
          /\ a >= 192 /\ a <= 223 /\ b >= 128 /\ b <= 191
          /\ Value(s) = (a - 192) * 64 + (b - 128)
    BY <1>2, Complete2
  <2> QED
    BY <2>1, SMT DEF MaxCodepoint
<1>3. CASE Len(s) = 3
  <2>1. PICK a \in Nat, b \in Nat, c \in Nat :
          /\ s = <<a, b, c>>
          /\ a >= 224 /\ a <= 239 /\ b >= 128 /\ b <= 191 /\ c >= 128 /\ c <= 191
          /\ Value(s) = ((a - 224) * 64 + (b - 128)) * 64 + (c - 128)
    BY <1>3, Complete3
  <2> QED
    BY <2>1, SMT DEF MaxCodepoint
<1>4. CASE Len(s) = 4
  <2>1. PICK a \in Nat, b \in Nat, c \in Nat, d \in Nat :
          /\ s = <<a, b, c, d>> /\ a >= 240 /\ b >= 128 /\ b <= 191
          /\ c >= 128 /\ c <= 191 /\ d >= 128 /\ d <= 191
          /\ Value(s) = (((a - 240) * 64 + (b - 128)) * 64 + (c - 128)) * 64 + (d - 128)
    BY <1>4, Complete4
  <2>2. s[1] = a /\ s[2] = b
    BY <2>1
  <2>3. a <= 244 /\ (a = 244 => b <= 143)
    BY <1>4, <2>1, <2>2 DEF InRow
  <2>4. a <= 243 \/ (a = 244 /\ b <= 143)
    BY <2>1, <2>3
  <2> QED
    BY <2>1, <2>4, SMT DEF MaxCodepoint
<1> QED
  BY <1>1, <1>2, <1>3, <1>4, CompleteStart

\* The announced length of a sequence in a row is that of the row.
LEMMA RowAnnounced ==
  ASSUME NEW s \in Seq(Byte), Len(s) >= 1, NEW n, InRow(s, n)
  PROVE  Announced(s) = n
<1>1. s[1] \in Nat /\ s[1] <= 255
  BY BytesOf
<1>2. PICK b \in Nat : b = s[1] /\ b <= 255
  BY <1>1
<1>3. /\ n \in {1, 2, 3, 4}
      /\ n = 1 => b <= 127
      /\ n = 2 => b >= 192 /\ b <= 223
      /\ n = 3 => b >= 224 /\ b <= 239
      /\ n = 4 => b >= 240 /\ b <= 244
  BY <1>2 DEF InRow
<1>4. StartLength(b) = n
  BY <1>2, <1>3, StartBytes
<1> QED
  BY <1>2, <1>4 DEF Announced

LEMMA Accepted == Inv => WellFormedAccepted
<1> SUFFICES ASSUME Inv PROVE WellFormedAccepted
  OBVIOUS
<1>1. bytes \in Seq(Byte) /\ Len(bytes) \in Nat /\ Outcome
  BY DEF Inv
<1>2. ASSUME NEW n, InRow(bytes, n), Len(bytes) >= 1
      PROVE  /\ result # Err("start_byte")
             /\ result # Err("continuation_byte")
             /\ result # Err("codepoint")
  <2>1. Announced(bytes) = n /\ n \in {1, 2, 3, 4} /\ Len(bytes) <= n
    BY <1>1, <1>2, RowAnnounced DEF InRow
  <2>2. Announced(bytes) # 0
    BY <2>1
  <2>3. Len(bytes) >= 2 => bytes[Len(bytes)] >= 128 /\ bytes[Len(bytes)] <= 191
    <3>1. Len(bytes) <= 4
      BY <1>1, <2>1
    <3>2. Len(bytes) \in {1, 2, 3, 4}
      <4>1. PICK k \in Nat : k = Len(bytes) /\ k >= 1 /\ k <= 4
        BY <1>1, <1>2, <3>1, Zenon
      <4>2. k \in {1, 2, 3, 4}
        BY <4>1
      <4> QED
        BY <4>1, <4>2
    <3> QED
      BY <1>2, <3>2 DEF InRow
  <2>4. ~(Complete(bytes) /\ Value(bytes) > MaxCodepoint)
    <3> SUFFICES ASSUME Complete(bytes), Value(bytes) > MaxCodepoint PROVE FALSE
      OBVIOUS
    <3>1. InRow(bytes, Len(bytes))
      BY <1>2, <2>1 DEF Complete
    <3>2. Value(bytes) \in Nat /\ Value(bytes) <= MaxCodepoint
      BY <1>1, <3>1, RowValue
    <3> QED
      BY <3>2, SMT DEF MaxCodepoint
  <2> QED
    BY <1>1, <2>2, <2>3, <2>4, Reasons, Zenon DEF Outcome
<1>3. ASSUME WellFormed(bytes)
      PROVE  result \in [kind : {"Some"}, value : 0 .. MaxCodepoint]
  <2>1. PICK row \in WellFormedRows : Len(bytes) = Len(row) /\ FitsRow(bytes, row)
    BY <1>3 DEF WellFormed
  <2>2. Len(row) \in {1, 2, 3, 4}
    BY <2>1, RowLengths
  <2>3. InRow(bytes, Len(bytes))
    BY <1>1, <2>1, <2>2, RowParts
  <2>4. Announced(bytes) = Len(bytes)
    BY <1>1, <2>1, <2>2, <2>3, RowAnnounced
  <2>5. bytes # <<>> /\ ~Incomplete(bytes)
    BY <1>1, <2>1, <2>2, <2>4 DEF Incomplete
  <2>6. result = Some(Value(bytes)) /\ Complete(bytes)
    <3>1. Len(bytes) >= 1
      BY <2>1, <2>2
    <3>2. /\ result # Err("start_byte") /\ result # Err("continuation_byte")
          /\ result # Err("codepoint")
      BY <1>2, <2>3, <3>1
    <3> QED
      BY <1>1, <2>5, <3>2, Zenon DEF Outcome
  <2>7. Value(bytes) \in Nat /\ Value(bytes) <= MaxCodepoint
    BY <1>1, <2>3, <2>6, RowValue
  <2>8. Value(bytes) \in 0 .. MaxCodepoint
    <3>1. PICK v \in Nat : v = Value(bytes) /\ v <= MaxCodepoint
      BY <2>7, Zenon
    <3>2. MaxCodepoint \in Nat
      BY SMT DEF MaxCodepoint
    <3>3. v \in 0 .. MaxCodepoint
      BY <3>1, <3>2
    <3> QED
      BY <3>1, <3>3, Zenon
  <2> QED
    BY <2>6, <2>8 DEF Some
<1>4. ASSUME BeginsWellFormed(bytes)
      PROVE  /\ result # Err("start_byte")
             /\ result # Err("continuation_byte")
             /\ result # Err("codepoint")
  <2>1. CASE Len(bytes) = 0
    <3>1. bytes = <<>>
      BY <1>1, <2>1
    <3>2. ~Complete(bytes) /\ Len(bytes) # 1 /\ ~(Len(bytes) >= 2)
      BY <2>1 DEF Complete, Sequence
    <3> QED
      BY <1>1, <3>1, <3>2, Reasons, Zenon DEF Outcome
  <2>2. CASE Len(bytes) >= 1
    <3>1. PICK row \in WellFormedRows : FitsRow(bytes, row)
      BY <1>4 DEF BeginsWellFormed
    <3>2. InRow(bytes, Len(row))
      BY <1>1, <2>2, <3>1, RowParts
    <3> QED
      BY <1>2, <2>2, <3>2
  <2>3. Len(bytes) = 0 \/ Len(bytes) >= 1
    BY <1>1
  <2> QED
    BY <2>1, <2>2, <2>3, Zenon
<1>5. BeginsWellFormed(bytes) =>
        result \notin [kind : {"Err"},
                       reason : {"start_byte", "continuation_byte", "codepoint"}]
  BY <1>4 DEF Err
<1> QED
  BY <1>3, <1>5 DEF WellFormedAccepted

\* Every sequence the Standard's table allows is accepted when it is complete,
\* and is not refused while bytes of it are still to come, whatever the bytes.
THEOREM NothingWellFormedIsRefused == Spec => []WellFormedAccepted
BY Accepted, Invariance, PTL
=============================================================================
