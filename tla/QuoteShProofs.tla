--------------------------- MODULE QuoteShProofs ---------------------------
(***************************************************************************)
(* Theorems about QuoteSh: for strings of any length over any chars, and   *)
(* an array of any size.                                                   *)
(***************************************************************************)
EXTENDS QuoteSh, FiniteSetTheorems, SequenceTheorems, TLAPS

-----------------------------------------------------------------------------
(* What a shell reads is defined by recursion on the chars.  That the       *)
(* recursion has exactly one solution is part of the invariant.             *)

Step(f, s) ==
  [n \in 0 .. Len(s) |->
     IF n = 0 THEN Shell(<<>>, FALSE, FALSE) ELSE ShellStep(f[n - 1], s[n])]

Readable(s) == \E f : f = Step(f, s) /\ \A g : g = Step(g, s) => g = f

LEMMA ReadingIsStep ==
  ASSUME NEW s, Readable(s)
  PROVE  ShellAt(s) = Step(ShellAt(s), s)
BY DEF ShellAt, Step, Readable

LEMMA ReadNothing ==
  Readable(<<>>) /\ ShellReads(<<>>) = Shell(<<>>, FALSE, FALSE)
<1> DEFINE f == [n \in 0 .. 0 |-> Shell(<<>>, FALSE, FALSE)]
<1>1. ASSUME NEW g PROVE Step(g, <<>>) = f
  BY DEF Step
<1> HIDE DEF f
<1>2. Readable(<<>>)
  BY <1>1 DEF Readable
<1>3. ShellAt(<<>>) = f
  BY <1>1, <1>2, ReadingIsStep
<1> QED
  BY <1>2, <1>3 DEF ShellReads, f

\* One char more is one step more.
LEMMA ReadOneMore ==
  ASSUME NEW s \in Seq(Char), NEW c \in Char, Readable(s)
  PROVE  /\ Readable(Append(s, c))
         /\ ShellReads(Append(s, c)) = ShellStep(ShellReads(s), c)
<1> DEFINE t == Append(s, c)
<1>1. Len(t) = Len(s) + 1 /\ Len(s) \in Nat /\ t[Len(s) + 1] = c
      /\ \A n \in 1 .. Len(s) : t[n] = s[n]
  OBVIOUS
<1> HIDE DEF t
<1>2. PICK f : f = Step(f, s) /\ \A g : g = Step(g, s) => g = f
  BY DEF Readable
<1>3. ShellAt(s) = f
  BY <1>2, ReadingIsStep
<1> DEFINE h == [n \in 0 .. Len(t) |->
                   IF n \in 0 .. Len(s) THEN f[n] ELSE ShellStep(f[Len(s)], c)]
<1>4. h = Step(h, t)
  <2>1. ASSUME NEW n \in 0 .. Len(t)
        PROVE  h[n] = IF n = 0 THEN Shell(<<>>, FALSE, FALSE) ELSE ShellStep(h[n - 1], t[n])
    <3>1. CASE n = 0
      <4>1. f[0] = Shell(<<>>, FALSE, FALSE)
        BY <1>1, <1>2 DEF Step
      <4>2. h[n] = f[n]
        BY <1>1, <3>1
      <4> HIDE DEF h
      <4> QED
        BY <3>1, <4>1, <4>2
    <3>2. CASE n \in 1 .. Len(s)
      <4>1. f[n] = ShellStep(f[n - 1], s[n])
        BY <1>1, <1>2, <3>2 DEF Step
      <4>2. h[n] = f[n] /\ h[n - 1] = f[n - 1]
        BY <1>1, <3>2
      <4>3. n # 0 /\ t[n] = s[n]
        BY <1>1, <3>2
      <4> HIDE DEF h
      <4> QED
        BY <4>1, <4>2, <4>3, Zenon
    <3>3. CASE n = Len(s) + 1
      <4>1. h[n] = ShellStep(f[Len(s)], c) /\ h[n - 1] = f[Len(s)]
        BY <1>1, <3>3
      <4>2. n # 0 /\ t[n] = c
        BY <1>1, <3>3
      <4> HIDE DEF h
      <4> QED
        BY <4>1, <4>2, Zenon
    <3> QED
      BY <1>1, <3>1, <3>2, <3>3
  <2>2. h = [n \in 0 .. Len(t) |-> h[n]]
    OBVIOUS
  <2> HIDE DEF h
  <2> QED
    BY <2>1, <2>2 DEF Step
<1>5. ASSUME NEW g, g = Step(g, t) PROVE g = h
  <2> DEFINE r == [n \in 0 .. Len(s) |-> g[n]]
  <2>1. g = [n \in 0 .. Len(t) |-> g[n]]
        /\ \A n \in 0 .. Len(t) :
             g[n] = IF n = 0 THEN Shell(<<>>, FALSE, FALSE) ELSE ShellStep(g[n - 1], t[n])
    BY <1>5 DEF Step
  <2>2. r = Step(r, s)
    <3>1. ASSUME NEW n \in 0 .. Len(s)
          PROVE  r[n] = IF n = 0 THEN Shell(<<>>, FALSE, FALSE) ELSE ShellStep(r[n - 1], s[n])
      <4>1. CASE n = 0
        <5>1. g[n] = Shell(<<>>, FALSE, FALSE)
          BY <1>1, <2>1, <4>1
        <5> QED
          BY <1>1, <4>1, <5>1
      <4>2. CASE n # 0
        <5>0. n \in 0 .. Len(t) /\ t[n] = s[n]
          BY <1>1, <4>2
        <5>1. g[n] = ShellStep(g[n - 1], t[n])
          BY <2>1, <4>2, <5>0, Zenon
        <5>2. r[n] = g[n] /\ r[n - 1] = g[n - 1]
          BY <1>1, <4>2
        <5> HIDE DEF r
        <5> QED
          BY <4>2, <5>0, <5>1, <5>2, Zenon
      <4> QED
        BY <4>1, <4>2
    <3>2. r = [n \in 0 .. Len(s) |-> r[n]]
      OBVIOUS
    <3> HIDE DEF r
    <3> QED
      BY <3>1, <3>2 DEF Step
  <2>3. r = f
    BY <1>2, <2>2
  <2>4. ASSUME NEW n \in 0 .. Len(t) PROVE g[n] = h[n]
    <3>1. CASE n \in 0 .. Len(s)
      <4>1. g[n] = r[n]
        BY <3>1
      <4> QED
        BY <1>1, <2>3, <3>1, <4>1
    <3>2. CASE n = Len(s) + 1
      <4>1. g[n] = ShellStep(g[Len(s)], c)
        BY <1>1, <2>1, <3>2
      <4>2. g[Len(s)] = r[Len(s)]
        BY <1>1
      <4>3. h[n] = ShellStep(f[Len(s)], c)
        BY <1>1, <3>2
      <4> HIDE DEF h, r
      <4> QED
        BY <2>3, <4>1, <4>2, <4>3
    <3> QED
      BY <1>1, <3>1, <3>2
  <2>5. h = [n \in 0 .. Len(t) |-> h[n]]
    OBVIOUS
  <2> HIDE DEF h, r
  <2> QED
    BY <2>1, <2>4, <2>5
<1>6. h[Len(t)] = ShellStep(f[Len(s)], c)
  BY <1>1
<1> HIDE DEF h
<1>7. Readable(t)
  BY <1>4, <1>5 DEF Readable
<1>8. ShellAt(t) = h
  BY <1>5, <1>7, ReadingIsStep
<1> QED
  BY <1>3, <1>6, <1>7, <1>8 DEF ShellReads, t

-----------------------------------------------------------------------------
(* The chars that are written, one at a time.                               *)

Reads(s, shell) == s \in Seq(Char) /\ Readable(s) /\ ShellReads(s) = shell

LEMMA SpecialChars ==
  /\ Quote \in Char /\ Backslash \in Char /\ Dot \in Char
  /\ Quote # Backslash /\ Quote # Dot /\ Backslash # Dot
BY DEF Char, Quote, Backslash, Dot

LEMMA Steps ==
  ASSUME NEW w, NEW c
  PROVE  /\ ShellStep(Shell(w, FALSE, FALSE), Backslash) = Shell(w, FALSE, TRUE)
         /\ c # Quote =>
              ShellStep(Shell(w, TRUE, FALSE), c) = Shell(Append(w, c), TRUE, FALSE)
         /\ ShellStep(Shell(w, FALSE, FALSE), Dot) = Shell(Append(w, Dot), FALSE, FALSE)
BY SpecialChars DEF ShellStep, Shell

LEMMA ReadsOneMore ==
  ASSUME NEW s, NEW shell, NEW c \in Char, Reads(s, shell)
  PROVE  Reads(Append(s, c), ShellStep(shell, c))
<1>1. s \in Seq(Char) /\ Readable(s) /\ ShellReads(s) = shell
  BY DEF Reads
<1>2. Append(s, c) \in Seq(Char)
  BY <1>1
<1> QED
  BY <1>1, <1>2, ReadOneMore DEF Reads

\* A quote opens or closes the quotes.
LEMMA QuoteRead ==
  ASSUME NEW s, NEW w, NEW q, Reads(s, Shell(w, q, FALSE))
  PROVE  Reads(Append(s, Quote), Shell(w, ~q, FALSE))
<1>1. Reads(Append(s, Quote), ShellStep(Shell(w, q, FALSE), Quote))
  BY SpecialChars, ReadsOneMore, Zenon
<1>2. ShellStep(Shell(w, q, FALSE), Quote) = Shell(w, ~q, FALSE)
  BY DEF ShellStep, Shell
<1> QED
  BY <1>1, <1>2, Zenon

\* A char within the quotes stands for itself.
LEMMA PlainRead ==
  ASSUME NEW s, NEW w, NEW c \in Char, c # Quote, Reads(s, Shell(w, TRUE, FALSE))
  PROVE  Reads(Append(s, c), Shell(Append(w, c), TRUE, FALSE))
<1>1. Reads(Append(s, c), ShellStep(Shell(w, TRUE, FALSE), c))
  BY ReadsOneMore, Zenon
<1> QED
  BY <1>1, Steps, Zenon

\* An escaped quote outside of the quotes.
LEMMA EscapedRead ==
  ASSUME NEW s, NEW w, Reads(s, Shell(w, FALSE, FALSE))
  PROVE  Reads(Append(Append(s, Backslash), Quote), Shell(Append(w, Quote), FALSE, FALSE))
<1>1. Reads(Append(s, Backslash), ShellStep(Shell(w, FALSE, FALSE), Backslash))
  BY SpecialChars, ReadsOneMore, Zenon
<1>2. Reads(Append(s, Backslash), Shell(w, FALSE, TRUE))
  BY <1>1, Steps, Zenon
<1>3. Reads(Append(Append(s, Backslash), Quote), ShellStep(Shell(w, FALSE, TRUE), Quote))
  BY <1>2, SpecialChars, ReadsOneMore, Zenon
<1>4. ShellStep(Shell(w, FALSE, TRUE), Quote) = Shell(Append(w, Quote), FALSE, FALSE)
  BY DEF ShellStep, Shell
<1> QED
  BY <1>3, <1>4, Zenon

\* The mark of a cut.
LEMMA DotsRead ==
  ASSUME NEW s, NEW w \in Seq(Char), Reads(s, Shell(w, FALSE, FALSE))
  PROVE  Reads(s \o <<Dot, Dot, Dot>>, Shell(w \o <<Dot, Dot, Dot>>, FALSE, FALSE))
<1> DEFINE dotted(x) == Append(Append(Append(x, Dot), Dot), Dot)
<1>0. ASSUME NEW x, NEW v, Reads(x, Shell(v, FALSE, FALSE))
      PROVE  Reads(Append(x, Dot), Shell(Append(v, Dot), FALSE, FALSE))
  <2>1. Reads(Append(x, Dot), ShellStep(Shell(v, FALSE, FALSE), Dot))
    BY <1>0, SpecialChars, ReadsOneMore, Zenon
  <2> QED
    BY <2>1, Steps, Zenon
<1>1. Reads(dotted(s), Shell(dotted(w), FALSE, FALSE))
  BY <1>0, Zenon
<1>2. ASSUME NEW x \in Seq(Char) PROVE dotted(x) = x \o <<Dot, Dot, Dot>>
  <2>1. PICK d : d = Dot /\ d \in Char
    BY SpecialChars
  <2>2. Append(Append(Append(x, d), d), d) = x \o <<d, d, d>>
    OBVIOUS
  <2> QED
    BY <2>1, <2>2
<1>3. s \in Seq(Char)
  BY DEF Reads
<1> QED
  BY <1>1, <1>2, <1>3

-----------------------------------------------------------------------------
(* Lengths                                                                  *)

Quotes(s, n) == {j \in 1 .. n : s[j] = Quote}

LEMMA QuotesFinite ==
  ASSUME NEW s, NEW n \in Nat
  PROVE  IsFiniteSet(Quotes(s, n)) /\ Cardinality(Quotes(s, n)) \in Nat
<1>1. IsFiniteSet(1 .. n)
  BY FS_Interval
<1> QED
  BY <1>1, FS_Subset, FS_CardinalityType DEF Quotes

LEMMA LengthOfBegin ==
  ASSUME NEW s \in Seq(Char), NEW n \in 0 .. Len(s)
  PROVE  /\ LengthQuoted(SubSeq(s, 1, n)) = n + 3 * Cardinality(Quotes(s, n))
         /\ LengthQuoted(SubSeq(s, 1, n)) \in Nat
<1> DEFINE t == SubSeq(s, 1, n)
<1>1. Len(t) = n /\ \A j \in 1 .. n : t[j] = s[j]
  OBVIOUS
<1> HIDE DEF t
<1>2. {j \in 1 .. Len(t) : t[j] = Quote} = Quotes(s, n)
  BY <1>1 DEF Quotes
<1>3. Cardinality(Quotes(s, n)) \in Nat
  BY QuotesFinite
<1>4. LengthQuoted(t) = n + 3 * Cardinality(Quotes(s, n))
  BY <1>1, <1>2 DEF LengthQuoted
<1> QED
  BY <1>3, <1>4 DEF t

LEMMA LengthOfNext ==
  ASSUME NEW s \in Seq(Char), NEW n \in 0 .. Len(s) - 1
  PROVE  LengthQuoted(SubSeq(s, 1, n + 1)) =
           LengthQuoted(SubSeq(s, 1, n)) + (IF s[n + 1] = Quote THEN 4 ELSE 1)
<1>1. /\ LengthQuoted(SubSeq(s, 1, n)) = n + 3 * Cardinality(Quotes(s, n))
      /\ LengthQuoted(SubSeq(s, 1, n + 1)) = n + 1 + 3 * Cardinality(Quotes(s, n + 1))
  BY LengthOfBegin
<1>2. IsFiniteSet(Quotes(s, n)) /\ Cardinality(Quotes(s, n)) \in Nat
  BY QuotesFinite
<1>3. CASE s[n + 1] = Quote
  <2>1. Quotes(s, n + 1) = Quotes(s, n) \cup {n + 1} /\ n + 1 \notin Quotes(s, n)
    BY <1>3 DEF Quotes
  <2>2. Cardinality(Quotes(s, n + 1)) = Cardinality(Quotes(s, n)) + 1
    BY <1>2, <2>1, FS_AddElement
  <2>3. PICK m \in Nat : m = Cardinality(Quotes(s, n))
    BY <1>2
  <2>4. /\ LengthQuoted(SubSeq(s, 1, n)) = n + 3 * m
        /\ LengthQuoted(SubSeq(s, 1, n + 1)) = n + 1 + 3 * (m + 1)
    BY <1>1, <2>2, <2>3
  <2>5. n + 1 + 3 * (m + 1) = n + 3 * m + 4
    OBVIOUS
  <2> QED
    BY <1>3, <2>4, <2>5
<1>4. CASE s[n + 1] # Quote
  <2>1. Quotes(s, n + 1) = Quotes(s, n)
    BY <1>4 DEF Quotes
  <2> QED
    BY <1>1, <1>2, <1>4, <2>1
<1> QED
  BY <1>3, <1>4

LEMMA LengthOfWhole ==
  ASSUME NEW s \in Seq(Char), NEW n \in 0 .. Len(s)
  PROVE  /\ LengthQuoted(s) \in Nat
         /\ LengthQuoted(SubSeq(s, 1, n)) <= LengthQuoted(s)
<1>1. SubSeq(s, 1, Len(s)) = s /\ Len(s) \in Nat
  OBVIOUS
<1>2. LengthQuoted(s) = Len(s) + 3 * Cardinality(Quotes(s, Len(s)))
  <2>1. Len(s) \in 0 .. Len(s)
    BY <1>1
  <2>2. LengthQuoted(SubSeq(s, 1, Len(s))) = Len(s) + 3 * Cardinality(Quotes(s, Len(s)))
    BY <2>1, LengthOfBegin
  <2> QED
    BY <1>1, <2>2
<1>3. /\ IsFiniteSet(Quotes(s, Len(s))) /\ Quotes(s, n) \subseteq Quotes(s, Len(s))
      /\ Cardinality(Quotes(s, Len(s))) \in Nat /\ Cardinality(Quotes(s, n)) \in Nat
  <2>1. Quotes(s, n) \subseteq Quotes(s, Len(s))
    BY <1>1 DEF Quotes
  <2> QED
    BY <1>1, <2>1, QuotesFinite
<1>4. Cardinality(Quotes(s, n)) <= Cardinality(Quotes(s, Len(s)))
  BY <1>3, FS_Subset
<1>5. LengthQuoted(SubSeq(s, 1, n)) = n + 3 * Cardinality(Quotes(s, n))
  BY LengthOfBegin
<1> QED
  BY <1>1, <1>2, <1>3, <1>4, <1>5

-----------------------------------------------------------------------------
(* What is pushed                                                           *)

Dots == <<Dot, Dot, Dot>>

\* The shell has read the word w, within quotes or not.
Within(s, w) == Reads(s, Shell(w, TRUE, FALSE))
Outside(s, w) == Reads(s, Shell(w, FALSE, FALSE))

LEMMA CharsOfQuote ==
  ASSUME NEW s \in Seq(Char)
  PROVE  /\ s \o <<Quote>> = Append(s, Quote)
         /\ s \o <<Quote, Backslash, Quote>> = Append(Append(Append(s, Quote), Backslash), Quote)
         /\ s \o <<Quote, Backslash, Quote, Quote>>
              = Append(Append(Append(Append(s, Quote), Backslash), Quote), Quote)
         /\ s \o <<Quote, Dot, Dot, Dot>> = Append(s, Quote) \o Dots
<1>1. PICK q, b, d : /\ q = Quote /\ b = Backslash /\ d = Dot
                     /\ q \in Char /\ b \in Char /\ d \in Char
  BY SpecialChars
<1>2. /\ s \o <<q>> = Append(s, q)
      /\ s \o <<q, b, q>> = Append(Append(Append(s, q), b), q)
      /\ s \o <<q, d, d, d>> = Append(s, q) \o <<d, d, d>>
  BY <1>1
<1>3. s \o <<q, b, q, q>> = Append(Append(Append(Append(s, q), b), q), q)
  BY <1>1
<1> QED
  BY <1>1, <1>2, <1>3, Zenon DEF Dots

LEMMA QuoteEnds ==
  ASSUME NEW s, NEW w \in Seq(Char), Within(s, w)
  PROVE  /\ Outside(s \o <<Quote>>, w)
         /\ Outside(s \o <<Quote, Dot, Dot, Dot>>, w \o Dots)
<1>1. s \in Seq(Char)
  BY DEF Within, Reads
<1>2. Outside(Append(s, Quote), w)
  <2>1. Reads(Append(s, Quote), Shell(w, ~TRUE, FALSE))
    BY QuoteRead DEF Within
  <2> QED
    BY <2>1 DEF Outside
<1>3. Outside(Append(s, Quote) \o Dots, w \o Dots)
  BY <1>2, DotsRead DEF Outside, Dots
<1> QED
  BY <1>1, <1>2, <1>3, CharsOfQuote

LEMMA QuoteBegins ==
  ASSUME NEW s, NEW w \in Seq(Char), Outside(s, w)
  PROVE  /\ Within(s \o <<Quote>>, w)
         /\ \E v : Within(s \o <<Quote, Dot, Dot, Dot>>, v)
<1>1. s \in Seq(Char)
  BY DEF Outside, Reads
<1>2. Within(Append(s, Quote), w)
  <2>1. Reads(Append(s, Quote), Shell(w, ~FALSE, FALSE))
    BY QuoteRead DEF Outside
  <2> QED
    BY <2>1 DEF Within
<1>3. ASSUME NEW x, NEW v, Within(x, v) PROVE Within(Append(x, Dot), Append(v, Dot))
  BY <1>3, PlainRead, SpecialChars DEF Within
<1>4. \E v : Within(Append(Append(Append(Append(s, Quote), Dot), Dot), Dot), v)
  BY <1>2, <1>3
<1>5. Append(s, Quote) \o Dots = Append(Append(Append(Append(s, Quote), Dot), Dot), Dot)
  <2>1. PICK q, d : q = Quote /\ d = Dot /\ q \in Char /\ d \in Char
    BY SpecialChars
  <2>2. Append(s, q) \o <<d, d, d>> = Append(Append(Append(Append(s, q), d), d), d)
    BY <1>1, <2>1
  <2> QED
    BY <2>1, <2>2 DEF Dots
<1> QED
  BY <1>1, <1>2, <1>4, <1>5, CharsOfQuote

\* The four chars of a quoted quote.
LEMMA QuotedQuoteRead ==
  ASSUME NEW s, NEW w \in Seq(Char), Within(s, w)
  PROVE  /\ Outside(s \o <<Quote, Backslash, Quote>>, Append(w, Quote))
         /\ Within(s \o <<Quote, Backslash, Quote, Quote>>, Append(w, Quote))
<1>1. s \in Seq(Char)
  BY DEF Within, Reads
<1>2. Outside(Append(s, Quote), w)
  BY <1>1, QuoteEnds, CharsOfQuote
<1>3. Outside(Append(Append(Append(s, Quote), Backslash), Quote), Append(w, Quote))
  BY <1>2, EscapedRead DEF Outside
<1>4. Append(w, Quote) \in Seq(Char)
  BY SpecialChars
<1>5. Outside(s \o <<Quote, Backslash, Quote>>, Append(w, Quote))
  BY <1>1, <1>3, CharsOfQuote
<1>6. Within((s \o <<Quote, Backslash, Quote>>) \o <<Quote>>, Append(w, Quote))
  BY <1>4, <1>5, QuoteBegins
<1>7. (s \o <<Quote, Backslash, Quote>>) \o <<Quote>> = s \o <<Quote, Backslash, Quote, Quote>>
  <2>1. PICK q, b : q = Quote /\ b = Backslash /\ q \in Char /\ b \in Char
    BY SpecialChars
  <2>2. (s \o <<q, b, q>>) \o <<q>> = s \o <<q, b, q, q>>
    BY <1>1, <2>1
  <2> QED
    BY <2>1, <2>2
<1> QED
  BY <1>5, <1>6, <1>7

Mark == <<Quote, Dot, Dot, Dot>>

LEMMA SpecialSeqs ==
  /\ Mark \in Seq(Char) /\ Len(Mark) = 4
  /\ Dots \in Seq(Char)
  /\ \A c \in Char : Quoted(c) \in Seq(Char)
  /\ Quoted(Quote) = <<Quote, Backslash, Quote, Quote>>
  /\ \A c \in Char : c # Quote => Quoted(c) = <<c>>
BY SpecialChars DEF Mark, Dots, Quoted

LEMMA QuotedLength ==
  ASSUME NEW c \in Char
  PROVE  Len(Quoted(c)) = IF c = Quote THEN 4 ELSE 1
BY SpecialChars DEF Quoted

LEMMA Begins ==
  ASSUME NEW q \in Char, NEW b \in Char
  PROVE  /\ SubSeq(<<q, b, q, q>>, 1, 1) = <<q>>
         /\ SubSeq(<<q, b, q, q>>, 1, 2) = <<q, b>>
         /\ SubSeq(<<q, b, q, q>>, 1, 3) = <<q, b, q>>
<1> DEFINE x == <<q, b, q, q>>
<1>1. x \in Seq(Char) /\ Len(x) = 4 /\ x[1] = q /\ x[2] = b /\ x[3] = q
  OBVIOUS
<1> HIDE DEF x
<1>2. ASSUME NEW k \in 1 .. 3
      PROVE  /\ SubSeq(x, 1, k) \in Seq(Char) /\ Len(SubSeq(x, 1, k)) = k
             /\ \A j \in 1 .. k : SubSeq(x, 1, k)[j] = x[j]
  BY <1>1
<1>3. SubSeq(x, 1, 1) = <<q>>
  <2>1. PICK y, z : y = SubSeq(x, 1, 1) /\ z = <<q>>
    OBVIOUS
  <2>2. /\ y \in Seq(Char) /\ z \in Seq(Char) /\ Len(y) = 1 /\ Len(z) = 1
        /\ \A j \in 1 .. 1 : y[j] = z[j]
    BY <1>1, <1>2, <2>1
  <2>3. y = z
    BY <2>2, SeqEqual
  <2> QED
    BY <2>1, <2>3
<1>4. SubSeq(x, 1, 2) = <<q, b>>
  <2>1. PICK y, z : y = SubSeq(x, 1, 2) /\ z = <<q, b>>
    OBVIOUS
  <2>2. /\ y \in Seq(Char) /\ z \in Seq(Char) /\ Len(y) = 2 /\ Len(z) = 2
        /\ \A j \in 1 .. 2 : y[j] = z[j]
    BY <1>1, <1>2, <2>1
  <2>3. y = z
    BY <2>2, SeqEqual
  <2> QED
    BY <2>1, <2>3
<1>5. SubSeq(x, 1, 3) = <<q, b, q>>
  <2>1. PICK y, z : y = SubSeq(x, 1, 3) /\ z = <<q, b, q>>
    OBVIOUS
  <2>2. /\ y \in Seq(Char) /\ z \in Seq(Char) /\ Len(y) = 3 /\ Len(z) = 3
        /\ \A j \in 1 .. 3 : y[j] = z[j]
    BY <1>1, <1>2, <2>1
  <2>3. y = z
    BY <2>2, SeqEqual
  <2> QED
    BY <2>1, <2>3
<1> QED
  BY <1>3, <1>4, <1>5 DEF x

CutQuote(s, k) == s \o SubSeq(Quoted(Quote), 1, k) \o Mark

\* A quoted quote that is cut behind k of its four chars: the shell has read
\* the begin and the dots, but for the cuts where it is outside of the quotes.
LEMMA CutQuoteReads ==
  ASSUME NEW s, NEW w \in Seq(Char), Within(s, w), NEW k \in 0 .. 3
  PROVE  /\ Len(CutQuote(s, k)) = Len(s) + k + 4
         /\ k \in {1, 3} => \E v : Within(CutQuote(s, k), v)
         /\ k = 0 => Outside(CutQuote(s, k), w \o Dots)
         /\ k = 2 => Outside(CutQuote(s, k), Append(w, Quote) \o Dots)
<1> DEFINE t == CutQuote(s, k)
<1>1. s \in Seq(Char)
  BY DEF Within, Reads
<1>2. PICK q, b, d : /\ q = Quote /\ b = Backslash /\ d = Dot
                     /\ q \in Char /\ b \in Char /\ d \in Char
  BY SpecialChars
<1>3. t = s \o SubSeq(<<q, b, q, q>>, 1, k) \o <<q, d, d, d>>
  BY <1>2, SpecialSeqs DEF Mark, CutQuote
<1> HIDE DEF t
<1>4. CASE k = 0
  <2>1. SubSeq(<<q, b, q, q>>, 1, 0) = <<>>
    OBVIOUS
  <2>2. t = s \o <<q, d, d, d>>
    BY <1>1, <1>2, <1>3, <1>4, <2>1
  <2>3. Outside(t, w \o Dots)
    BY <1>2, <2>2, QuoteEnds
  <2>4. Len(t) = Len(s) + 4
    BY <1>1, <1>2, <2>2
  <2> QED
    BY <1>1, <1>4, <2>3, <2>4 DEF t
<1>5. CASE k = 1
  <2>1. SubSeq(<<q, b, q, q>>, 1, 1) = <<q>>
    BY <1>2, Begins
  <2>2. t = s \o <<q>> \o <<q, d, d, d>>
    BY <1>3, <1>5, <2>1
  <2>3. Outside(s \o <<q>>, w)
    BY <1>2, QuoteEnds
  <2>4. \E v : Within(t, v)
    BY <1>2, <2>2, <2>3, QuoteBegins
  <2>5. Len(t) = Len(s) + 5
    BY <1>1, <1>2, <2>2
  <2> QED
    BY <1>1, <1>5, <2>4, <2>5 DEF t
<1>6. CASE k = 2
  <2>1. SubSeq(<<q, b, q, q>>, 1, 2) = <<q, b>>
    BY <1>2, Begins
  <2>2. t = s \o <<q, b, q>> \o <<d, d, d>>
    <3>1. s \o <<q, b>> \o <<q, d, d, d>> = s \o <<q, b, q>> \o <<d, d, d>>
      <4>1. <<q, b>> \o <<q, d, d, d>> = <<q, b, q>> \o <<d, d, d>>
        BY <1>2
      <4>2. /\ <<q, b>> \in Seq(Char) /\ <<q, d, d, d>> \in Seq(Char)
            /\ <<q, b, q>> \in Seq(Char) /\ <<d, d, d>> \in Seq(Char)
        BY <1>2
      <4> QED
        BY <1>1, <4>1, <4>2, ConcatAssociative
    <3> QED
      BY <1>3, <1>6, <2>1, <3>1
  <2>3. Outside(s \o <<q, b, q>>, Append(w, Quote)) /\ Append(w, Quote) \in Seq(Char)
    <3>1. Outside(s \o <<q, b, q>>, Append(w, Quote))
      BY <1>2, QuotedQuoteRead, Zenon
    <3>2. Append(w, Quote) \in Seq(Char)
      BY SpecialChars
    <3> QED
      BY <3>1, <3>2
  <2>4. Outside(t, Append(w, Quote) \o Dots)
    BY <1>2, <2>2, <2>3, DotsRead DEF Outside, Dots
  <2>5. Len(t) = Len(s) + 6
    BY <1>1, <1>2, <2>2
  <2> QED
    BY <1>1, <1>6, <2>4, <2>5 DEF t
<1>7. CASE k = 3
  <2>1. SubSeq(<<q, b, q, q>>, 1, 3) = <<q, b, q>>
    BY <1>2, Begins
  <2>2. t = s \o <<q, b, q>> \o <<q, d, d, d>>
    BY <1>3, <1>7, <2>1
  <2>3. Outside(s \o <<q, b, q>>, Append(w, Quote)) /\ Append(w, Quote) \in Seq(Char)
    <3>1. Outside(s \o <<q, b, q>>, Append(w, Quote))
      BY <1>2, QuotedQuoteRead, Zenon
    <3>2. Append(w, Quote) \in Seq(Char)
      BY SpecialChars
    <3> QED
      BY <3>1, <3>2
  <2>4. \E v : Within(t, v)
    BY <1>2, <2>2, <2>3, QuoteBegins
  <2>5. Len(t) = Len(s) + 7
    BY <1>1, <1>2, <2>2
  <2> QED
    BY <1>1, <1>7, <2>4, <2>5 DEF t
<1> QED
  BY <1>4, <1>5, <1>6, <1>7 DEF t

-----------------------------------------------------------------------------
(* The invariant                                                            *)

LEMMA RoomIsPositive == Room \in Nat /\ Room >= 1 /\ QBUFSIZ = Room + 5
BY SizeAssumption DEF Room

\* In the loop: what is done is within the quotes and has its length.
InLoop ==
  /\ Within(out, SubSeq(str, 1, i))
  /\ Len(out) = 1 + LengthQuoted(SubSeq(str, 1, i)) /\ Len(out) <= Room

Whole ==
  /\ Outside(out, str)
  /\ Len(out) = 2 + LengthQuoted(str) /\ Len(out) <= Room

Cut ==
  /\ Len(out) = Room + 4 /\ 2 + LengthQuoted(str) > Room
  /\ IF CutInQuote
     THEN \E w : Within(out, w)
     ELSE \E n \in 0 .. Len(str) : Outside(out, SubSeq(str, 1, n) \o Dots)

Inv ==
  /\ str \in Seq(Char) /\ i \in 0 .. Len(str)
  /\ at \in {"begin", "loop", "finish", "push_error"}
  /\ at = "begin" => out = <<>> /\ i = 0
  /\ at = "loop" => InLoop
  /\ at = "finish" => Whole
  /\ at = "push_error" => Cut

LEMMA InitInv == Init => Inv
<1> SUFFICES ASSUME Init PROVE Inv
  OBVIOUS
<1>1. PICK n \in 0 .. MaxLen : str \in [1 .. n -> Char]
  BY MaxLenAssumption DEF Init
<1>2. str \in Seq(Char) /\ Len(str) = n
  BY <1>1, MaxLenAssumption
<1> QED
  BY <1>2 DEF Init, Inv

LEMMA OpenQuoteKeeps == Inv /\ OpenQuote => Inv'
<1> SUFFICES ASSUME Inv, OpenQuote PROVE Inv'
  OBVIOUS
<1>1. at = "begin" /\ out = <<>> /\ i = 0 /\ str' = str /\ i' = i /\ str \in Seq(Char)
  BY DEF Inv, OpenQuote
<1>2. Len(<<Quote>>) <= Room - Len(out)
  BY <1>1, RoomIsPositive
<1>3. out' = out \o <<Quote>> /\ at' = "loop"
  BY <1>2 DEF OpenQuote, Push
<1>4. Within(<<Quote>>, <<>>)
  <2>1. Outside(<<>>, <<>>)
    <3>1. <<>> \in Seq(Char)
      OBVIOUS
    <3> QED
      BY <3>1, ReadNothing, Zenon DEF Outside, Reads
  <2>2. Within(<<>> \o <<Quote>>, <<>>)
    <3>1. <<>> \in Seq(Char)
      OBVIOUS
    <3> QED
      BY <2>1, <3>1, QuoteBegins, Zenon
  <2>3. <<>> \o <<Quote>> = <<Quote>>
    BY SpecialChars
  <2> QED
    BY <2>2, <2>3, Zenon
<1>5. SubSeq(str, 1, 0) = <<>> /\ LengthQuoted(<<>>) = 0
  <2>1. SubSeq(str, 1, 0) = <<>> /\ 0 \in 0 .. Len(str)
    BY <1>1
  <2>2. LengthQuoted(SubSeq(str, 1, 0)) = 0 + 3 * Cardinality(Quotes(str, 0))
    BY <1>1, <2>1, LengthOfBegin
  <2>3. Quotes(str, 0) = {}
    BY DEF Quotes
  <2>4. Cardinality(Quotes(str, 0)) = 0
    BY <2>3, FS_EmptySet
  <2>5. LengthQuoted(SubSeq(str, 1, 0)) = 0
    BY <2>2, <2>4
  <2> QED
    BY <2>1, <2>5
<1>6. out' = <<Quote>> /\ Len(out') = 1
  BY <1>1, <1>3
<1>7. InLoop'
  <2>1. SubSeq(str', 1, i') = <<>>
    BY <1>1, <1>5
  <2>2. Within(out', SubSeq(str', 1, i'))
    BY <1>4, <1>6, <2>1
  <2>3. LengthQuoted(SubSeq(str', 1, i')) = 0
    BY <1>5, <2>1
  <2>4. Len(out') = 1 + LengthQuoted(SubSeq(str', 1, i')) /\ Len(out') <= Room
    BY <1>6, <2>3, RoomIsPositive
  <2> QED
    BY <2>2, <2>4 DEF InLoop, Room
<1> QED
  BY <1>1, <1>3, <1>7 DEF Inv

LEMMA CloseQuoteKeeps == Inv /\ CloseQuote => Inv'
<1> SUFFICES ASSUME Inv, CloseQuote PROVE Inv'
  OBVIOUS
<1>1. /\ at = "loop" /\ i = Len(str) /\ str' = str /\ i' = i /\ str \in Seq(Char) /\ InLoop
      /\ out \in Seq(Char)
  BY DEF Inv, CloseQuote, InLoop, Within, Reads
<1>2. Within(out, str) /\ Len(out) = 1 + LengthQuoted(str) /\ Len(out) <= Room
  <2>1. SubSeq(str, 1, i) = str
    BY <1>1
  <2> QED
    BY <1>1, <2>1 DEF InLoop
<1>3. LengthQuoted(str) \in Nat
  <2>1. Len(str) \in 0 .. Len(str)
    BY <1>1
  <2> QED
    BY <1>1, <2>1, LengthOfWhole
<1>4. CASE 1 <= Room - Len(out)
  <2>1. out' = out \o <<Quote>> /\ at' = "finish"
    BY <1>4 DEF CloseQuote, Push
  <2>2. Outside(out', str)
    BY <1>1, <1>2, <2>1, QuoteEnds
  <2>3. Len(out') = Len(out) + 1
    BY <1>1, <2>1, SpecialChars
  <2>4. Whole'
    BY <1>1, <1>2, <1>3, <1>4, <2>2, <2>3, RoomIsPositive DEF Whole
  <2> QED
    BY <1>1, <2>1, <2>4 DEF Inv
<1>5. CASE ~(1 <= Room - Len(out))
  <2>1. Len(out) = Room
    BY <1>2, <1>3, <1>5, RoomIsPositive
  <2>2. out' = out \o SubSeq(<<Quote>>, 1, Room - Len(out)) \o <<Quote, Dot, Dot, Dot>>
        /\ at' = "push_error"
    BY <1>5 DEF CloseQuote, Push
  <2>3. SubSeq(<<Quote>>, 1, Room - Len(out)) = <<>>
    BY <2>1, RoomIsPositive
  <2>4. out \o <<>> = out
    BY <1>1
  <2>5. out' = out \o <<Quote, Dot, Dot, Dot>>
    BY <2>2, <2>3, <2>4
  <2>6. Outside(out', str \o Dots)
    BY <1>1, <1>2, <2>5, QuoteEnds
  <2>7. Len(out') = Room + 4
    BY <1>1, <2>1, <2>5, SpecialSeqs DEF Mark
  <2>8. SubSeq(str, 1, Len(str)) = str /\ Len(str) \in 0 .. Len(str)
    BY <1>1
  <2>9. ~CutInQuote'
    <3>1. 1 + LengthQuoted(str) - Room = 0
      BY <1>2, <1>3, <2>1, RoomIsPositive
    <3>2. SubSeq(str', 1, i') = str
      BY <1>1, <2>8
    <3>3. 1 + LengthQuoted(SubSeq(str', 1, i')) - Room = 0
      BY <3>1, <3>2
    <3> QED
      BY <3>3 DEF CutInQuote, Room
  <2>10. 2 + LengthQuoted(str) > Room
    BY <1>2, <1>3, <2>1, RoomIsPositive
  <2>11. Cut'
    BY <1>1, <2>6, <2>7, <2>8, <2>9, <2>10 DEF Cut, Room
  <2> QED
    BY <1>1, <2>2, <2>11 DEF Inv
<1> QED
  BY <1>4, <1>5

\* A char that fits.
LEMMA CharFits ==
  ASSUME Inv, QuoteChar, Len(Quoted(str[i + 1])) <= Room - Len(out)
  PROVE  Inv'
<1>1. /\ at = "loop" /\ i \in 0 .. Len(str) - 1 /\ str' = str /\ i' = i + 1
      /\ str \in Seq(Char) /\ str[i + 1] \in Char /\ InLoop /\ out \in Seq(Char)
  BY DEF Inv, QuoteChar, InLoop, Within, Reads
<1>2. out' = out \o Quoted(str[i + 1]) /\ at' = "loop"
  BY DEF QuoteChar, Push
<1> DEFINE c == str[i + 1]
           w == SubSeq(str, 1, i)
<1>3. Within(out, w) /\ w \in Seq(Char) /\ Append(w, c) = SubSeq(str, 1, i + 1)
  BY <1>1 DEF InLoop
<1>4. Within(out', Append(w, c)) /\ Len(out') = Len(out) + (IF c = Quote THEN 4 ELSE 1)
  <2>1. CASE c = Quote
    <3>1. out' = out \o <<Quote, Backslash, Quote, Quote>>
      BY <1>2, <2>1, SpecialSeqs
    <3>2. Within(out', Append(w, Quote))
      BY <1>3, <3>1, QuotedQuoteRead
    <3>3. Len(out') = Len(out) + 4
      BY <1>1, <3>1, SpecialChars
    <3> QED
      BY <2>1, <3>2, <3>3
  <2>2. CASE c # Quote
    <3>1. out' = out \o <<c>>
      BY <1>1, <1>2, <2>2, SpecialSeqs
    <3>2. out' = Append(out, c) /\ Len(out') = Len(out) + 1
      BY <1>1, <3>1
    <3>3. Within(out', Append(w, c))
      BY <1>1, <1>3, <2>2, <3>2, PlainRead DEF Within
    <3> QED
      BY <2>2, <3>2, <3>3
  <2> QED
    BY <2>1, <2>2
<1>5. LengthQuoted(SubSeq(str, 1, i + 1)) =
        LengthQuoted(SubSeq(str, 1, i)) + (IF c = Quote THEN 4 ELSE 1)
  BY <1>1, LengthOfNext
<1>6. Len(out') <= Room
  <2>1. Len(Quoted(c)) = IF c = Quote THEN 4 ELSE 1
    BY <1>1, QuotedLength
  <2> QED
    BY <1>1, <1>4, <2>1, RoomIsPositive
<1>7. LengthQuoted(SubSeq(str, 1, i)) \in Nat
  BY <1>1, LengthOfBegin
<1>8. InLoop'
  <2>1. SubSeq(str', 1, i') = SubSeq(str, 1, i + 1)
    BY <1>1
  <2>2. Within(out', SubSeq(str', 1, i'))
    BY <1>3, <1>4, <2>1
  <2>3. Len(out') = 1 + LengthQuoted(SubSeq(str', 1, i'))
    <3>1. Len(out) = 1 + LengthQuoted(SubSeq(str, 1, i))
      BY <1>1 DEF InLoop
    <3>2. LengthQuoted(SubSeq(str', 1, i')) =
            LengthQuoted(SubSeq(str, 1, i)) + (IF c = Quote THEN 4 ELSE 1)
      BY <1>5, <2>1
    <3> HIDE DEF c
    <3> QED
      BY <1>4, <1>7, <3>1, <3>2
  <2> QED
    BY <1>6, <2>2, <2>3 DEF InLoop, Room
<1> QED
  BY <1>1, <1>2, <1>8 DEF Inv

\* A char that does not.
LEMMA CharCut ==
  ASSUME Inv, QuoteChar, ~(Len(Quoted(str[i + 1])) <= Room - Len(out))
  PROVE  Inv'
<1>1. /\ at = "loop" /\ i \in 0 .. Len(str) - 1 /\ str' = str /\ i' = i + 1
      /\ str \in Seq(Char) /\ str[i + 1] \in Char /\ InLoop /\ out \in Seq(Char)
  BY DEF Inv, QuoteChar, InLoop, Within, Reads
<1> DEFINE c == str[i + 1]
           w == SubSeq(str, 1, i)
           k == Room - Len(out)
<1>2. out' = out \o SubSeq(Quoted(c), 1, k) \o Mark /\ at' = "push_error"
  BY DEF QuoteChar, Push, Mark
<1>3. Within(out, w) /\ w \in Seq(Char) /\ Append(w, c) = SubSeq(str, 1, i + 1)
  BY <1>1 DEF InLoop
<1>4. /\ Len(Quoted(c)) = IF c = Quote THEN 4 ELSE 1
      /\ k \in Nat /\ k < Len(Quoted(c)) /\ Len(out) + k = Room
  <2>1. Len(Quoted(c)) = IF c = Quote THEN 4 ELSE 1
    BY <1>1, QuotedLength
  <2>2. Len(out) \in Nat /\ Len(out) <= Room
    BY <1>1 DEF InLoop
  <2> QED
    BY <2>1, <2>2, RoomIsPositive
<1>5. /\ LengthQuoted(SubSeq(str, 1, i + 1)) =
           LengthQuoted(SubSeq(str, 1, i)) + (IF c = Quote THEN 4 ELSE 1)
      /\ LengthQuoted(SubSeq(str, 1, i)) \in Nat
  BY <1>1, LengthOfNext, LengthOfBegin
<1>6. Len(out) = 1 + LengthQuoted(SubSeq(str, 1, i))
  BY <1>1 DEF InLoop
<1>7. 1 + LengthQuoted(SubSeq(str, 1, i + 1)) - Room = (IF c = Quote THEN 4 ELSE 1) - k
  <2>1. PICK m, x, r, l : /\ m = LengthQuoted(SubSeq(str, 1, i)) /\ r = Room /\ l = Len(out)
                          /\ x = (IF c = Quote THEN 4 ELSE 1)
    OBVIOUS
  <2>2. l = 1 + m /\ m \in Nat /\ r \in Nat /\ x \in Nat
    BY <1>5, <1>6, <2>1, RoomIsPositive
  <2>3. 1 + (m + x) - r = x - (r - l)
    BY <2>2
  <2> HIDE DEF c
  <2> QED
    BY <1>5, <2>1, <2>3
<1>8. 2 + LengthQuoted(str) > Room
  <2>1. LengthQuoted(SubSeq(str, 1, i + 1)) <= LengthQuoted(str) /\ LengthQuoted(str) \in Nat
    BY <1>1, LengthOfWhole
  <2>2. LengthQuoted(SubSeq(str, 1, i + 1)) \in Nat
    BY <1>1, LengthOfBegin
  <2> HIDE DEF c, k
  <2> QED
    BY <1>4, <1>7, <2>1, <2>2, RoomIsPositive
<1>9. CutInQuote' <=> (c = Quote /\ (IF c = Quote THEN 4 ELSE 1) - k \in {1, 3})
  <2>1. SubSeq(str', 1, i') = SubSeq(str, 1, i + 1) /\ i' > 0 /\ str'[i'] = c
    BY <1>1
  <2>2. CutInQuote' <=>
          str'[i'] = Quote /\ 1 + LengthQuoted(SubSeq(str', 1, i')) - Room \in {1, 3}
    BY <2>1 DEF CutInQuote, Room
  <2> QED
    BY <1>7, <2>1, <2>2
<1>10. Len(out') = Room + 4
       /\ IF CutInQuote' THEN \E v : Within(out', v)
          ELSE \E n \in 0 .. Len(str) : Outside(out', SubSeq(str, 1, n) \o Dots)
  <2>1. CASE c # Quote
    <3>1. k = 0 /\ SubSeq(Quoted(c), 1, 0) = <<>>
      BY <1>1, <1>4, <2>1, SpecialSeqs
    <3>2. out \o <<>> = out
      BY <1>1
    <3>3. out' = out \o Mark
      BY <1>2, <3>1, <3>2
    <3>4. Outside(out', w \o Dots)
      BY <1>3, <3>3, QuoteEnds DEF Mark
    <3>5. Len(out') = Len(out) + 4
      <4>1. PICK x : x = Mark /\ x \in Seq(Char) /\ Len(x) = 4
        BY SpecialSeqs
      <4>2. Len(out \o x) = Len(out) + Len(x)
        BY <1>1, <4>1, ConcatProperties
      <4> QED
        BY <3>3, <4>1, <4>2
    <3>6. Len(out) = Room
      BY <1>1, <1>4, <3>1
    <3> QED
      BY <1>1, <1>9, <2>1, <3>4, <3>5, <3>6
  <2>2. CASE c = Quote
    <3>1. k \in 0 .. 3
      BY <1>4, <2>2
    <3>2. out' = out \o SubSeq(Quoted(Quote), 1, k) \o Mark
      BY <1>2, <2>2
    <3>3. /\ Len(out') = Len(out) + k + 4
          /\ k \in {1, 3} => \E v : Within(out', v)
          /\ k = 0 => Outside(out', w \o Dots)
          /\ k = 2 => Outside(out', Append(w, Quote) \o Dots)
      <4> HIDE DEF k, w, c
      <4>1. out' = CutQuote(out, k)
        BY <3>2 DEF CutQuote
      <4>2. Within(out, w) /\ w \in Seq(Char)
        BY <1>3
      <4> QED
        BY <3>1, <4>1, <4>2, CutQuoteReads
    <3>4. Len(out') = Room + 4
      BY <1>1, <1>4, <3>3
    <3>5. CutInQuote' <=> k \in {1, 3}
      <4>1. CutInQuote' <=> 4 - k \in {1, 3}
        BY <1>9, <2>2
      <4> HIDE DEF k
      <4> QED
        BY <3>1, <4>1
    <3>6. k = 0 \/ k = 2 => \E n \in 0 .. Len(str) : Outside(out', SubSeq(str, 1, n) \o Dots)
      <4>1. i \in 0 .. Len(str) /\ i + 1 \in 0 .. Len(str)
        BY <1>1
      <4>2. k = 2 => Outside(out', SubSeq(str, 1, i + 1) \o Dots)
        BY <1>3, <2>2, <3>3
      <4> HIDE DEF k
      <4> QED
        BY <3>3, <4>1, <4>2
    <3> HIDE DEF k
    <3> QED
      BY <3>1, <3>3, <3>4, <3>5, <3>6
  <2> QED
    BY <2>1, <2>2
<1>11. Cut'
  BY <1>1, <1>8, <1>10 DEF Cut, Room
<1> QED
  BY <1>1, <1>2, <1>11 DEF Inv

LEMMA Invariant == Spec => []Inv
<1>1. Inv /\ [Next]_vars => Inv'
  <2> SUFFICES ASSUME Inv, [Next]_vars PROVE Inv'
    OBVIOUS
  <2>1. CASE OpenQuote
    BY <2>1, OpenQuoteKeeps
  <2>2. CASE QuoteChar
    BY <2>2, CharFits, CharCut
  <2>3. CASE CloseQuote
    BY <2>3, CloseQuoteKeeps
  <2>4. CASE UNCHANGED vars
    <3>1. str' = str /\ i' = i /\ out' = out /\ at' = at
      BY <2>4 DEF vars
    <3> QED
      BY <3>1 DEF Inv, InLoop, Whole, Cut, CutInQuote, Room
  <2> QED
    BY <2>1, <2>2, <2>3, <2>4 DEF Next, Returned
<1> QED
  BY <1>1, InitInv, PTL DEF Spec

\* String_quote_sh stays in its array, the final \0 included, and cuts no
\* string that fits (String.h 67-98), for any string and any array.
THEOREM StaysWithin == Spec => []StaysInArray
<1>1. Inv => StaysInArray
  <2> SUFFICES ASSUME Inv PROVE StaysInArray
    OBVIOUS
  <2>1. str \in Seq(Char) /\ Len(str) \in 0 .. Len(str)
    BY DEF Inv
  <2>2. LengthQuoted(str) \in Nat
    BY <2>1, LengthOfWhole
  <2>3. CASE at = "begin"
    BY <2>3, RoomIsPositive DEF Inv, StaysInArray
  <2>4. CASE at = "loop"
    <3>1. Len(out) <= Room /\ Len(out) \in Nat
      BY <2>4 DEF Inv, InLoop, Within, Reads
    <3> QED
      BY <2>4, <3>1, RoomIsPositive DEF StaysInArray
  <2>5. CASE at = "finish"
    <3>1. Len(out) <= Room /\ Len(out) = 2 + LengthQuoted(str)
      BY <2>5 DEF Inv, Whole
    <3> QED
      BY <2>2, <2>5, <3>1, RoomIsPositive DEF StaysInArray
  <2>6. CASE at = "push_error"
    <3>1. Len(out) = Room + 4 /\ 2 + LengthQuoted(str) > Room
      BY <2>6 DEF Inv, Cut
    <3> QED
      BY <2>6, <3>1, RoomIsPositive DEF StaysInArray
  <2> QED
    BY <2>3, <2>4, <2>5, <2>6 DEF Inv
<1> QED
  BY <1>1, Invariant, PTL

\* A string that was not cut is read back by a shell as it was (String.h
\* 74-91), for any string and any array.
THEOREM QuotedReadsBack == Spec => []ReadsBack
<1>1. Inv => ReadsBack
  BY DEF Inv, Whole, Outside, Reads, ReadsBack, IsWord
<1> QED
  BY <1>1, Invariant, PTL

\* A string that was cut is read as its begin and three dots, or, for the two
\* cuts in a quote, leaves the quotes open (String.h 92-98).
THEOREM CutIsPrefix == Spec => []CutReadsAsPrefix
<1>1. Inv => CutReadsAsPrefix
  <2> SUFFICES ASSUME Inv, at = "push_error" PROVE CutReadsAsPrefix
    BY DEF CutReadsAsPrefix
  <2>1. Cut
    BY DEF Inv
  <2>2. CASE CutInQuote
    <3>1. PICK w : ShellReads(out) = Shell(w, TRUE, FALSE)
      BY <2>1, <2>2 DEF Cut, Within, Reads
    <3>2. Shell(w, TRUE, FALSE).quoted
      BY DEF Shell
    <3>3. ShellReads(out).quoted
      BY <3>1, <3>2
    <3> QED
      BY <2>2, <3>3 DEF CutReadsAsPrefix
  <2>3. CASE ~CutInQuote
    <3>1. PICK n \in 0 .. Len(str) : Outside(out, SubSeq(str, 1, n) \o Dots)
      BY <2>1, <2>3 DEF Cut
    <3>2. IsWord(out, SubSeq(str, 1, n) \o <<Dot, Dot, Dot>>)
      BY <3>1 DEF Outside, Reads, IsWord, Dots
    <3> QED
      BY <2>3, <3>2 DEF CutReadsAsPrefix
  <2> QED
    BY <2>2, <2>3
<1> QED
  BY <1>1, Invariant, PTL
=============================================================================
