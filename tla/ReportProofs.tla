---------------------------- MODULE ReportProofs ----------------------------
(***************************************************************************)
(* Theorems about Report, for every set of code points and texts of every  *)
(* length: what the loop has counted is what is there.  The counters are   *)
(* compared with the sets of places CRLFs, LoneCRs and LoneLFs; the lemmas *)
(* of the first part say how these sets change when a character is added.  *)
(***************************************************************************)
EXTENDS Report, FiniteSetTheorems, TLAPS

EndsInCR(t) == t # <<>> /\ t[Len(t)] = CR

LEMMA PlacesAreFinite ==
  ASSUME NEW t \in Seq(Char)
  PROVE  /\ IsFiniteSet(CRLFs(t)) /\ Cardinality(CRLFs(t)) \in Nat
         /\ IsFiniteSet(LoneCRs(t)) /\ Cardinality(LoneCRs(t)) \in Nat
         /\ IsFiniteSet(LoneLFs(t)) /\ Cardinality(LoneLFs(t)) \in Nat
<1>1. IsFiniteSet(1 .. Len(t))
  BY FS_Interval
<1>2. /\ CRLFs(t) \subseteq 1 .. Len(t) /\ LoneCRs(t) \subseteq 1 .. Len(t)
      /\ LoneLFs(t) \subseteq 1 .. Len(t)
  BY DEF CRLFs, LoneCRs, LoneLFs
<1> QED
  BY <1>1, <1>2, FS_Subset, FS_CardinalityType

LEMMA AppendPlaces ==
  ASSUME NEW t \in Seq(Char), NEW c \in Char
  PROVE  /\ Len(t) \in Nat /\ Len(Append(t, c)) = Len(t) + 1
         /\ Append(t, c)[Len(t) + 1] = c
         /\ \A i \in 1 .. Len(t) : Append(t, c)[i] = t[i]
OBVIOUS

\* A character that separates no lines.
LEMMA OtherKeepsPlaces ==
  ASSUME NEW t \in Seq(Char), NEW c \in Char \ Separators
  PROVE  /\ CRLFs(Append(t, c)) = CRLFs(t)
         /\ LoneCRs(Append(t, c)) = LoneCRs(t)
         /\ LoneLFs(Append(t, c)) = LoneLFs(t)
BY AppendPlaces DEF CRLFs, LoneCRs, LoneLFs, Separators

\* A CR is alone as long as nothing follows it.
LEMMA CRIsAlone ==
  ASSUME NEW t \in Seq(Char)
  PROVE  /\ CRLFs(Append(t, CR)) = CRLFs(t)
         /\ LoneCRs(Append(t, CR)) = LoneCRs(t) \cup {Len(t) + 1}
         /\ Len(t) + 1 \notin LoneCRs(t)
         /\ LoneLFs(Append(t, CR)) = LoneLFs(t)
BY AppendPlaces, CharAssumption DEF CRLFs, LoneCRs, LoneLFs

\* A LF behind a CR makes one of the two.
LEMMA LFCompletesCR ==
  ASSUME NEW t \in Seq(Char), EndsInCR(t)
  PROVE  /\ CRLFs(Append(t, LF)) = CRLFs(t) \cup {Len(t)}
         /\ Len(t) \notin CRLFs(t)
         /\ LoneCRs(Append(t, LF)) = LoneCRs(t) \ {Len(t)}
         /\ Len(t) \in LoneCRs(t)
         /\ LoneLFs(Append(t, LF)) = LoneLFs(t)
<1>1. Len(t) \in 1 .. Len(t)
  BY DEF EndsInCR
<1>2. t[Len(t)] = CR
  BY DEF EndsInCR
<1>3. CRLFs(Append(t, LF)) = CRLFs(t) \cup {Len(t)} /\ Len(t) \notin CRLFs(t)
  BY <1>1, <1>2, AppendPlaces, CharAssumption DEF CRLFs
<1>4. LoneCRs(Append(t, LF)) = LoneCRs(t) \ {Len(t)} /\ Len(t) \in LoneCRs(t)
  BY <1>1, <1>2, AppendPlaces, CharAssumption DEF LoneCRs
<1>5. LoneLFs(Append(t, LF)) = LoneLFs(t)
  BY <1>1, <1>2, AppendPlaces, CharAssumption DEF LoneLFs
<1> QED
  BY <1>3, <1>4, <1>5

LEMMA LFIsAlone ==
  ASSUME NEW t \in Seq(Char), ~EndsInCR(t)
  PROVE  /\ CRLFs(Append(t, LF)) = CRLFs(t)
         /\ LoneCRs(Append(t, LF)) = LoneCRs(t)
         /\ LoneLFs(Append(t, LF)) = LoneLFs(t) \cup {Len(t) + 1}
         /\ Len(t) + 1 \notin LoneLFs(t)
<1>1. \A i \in 1 .. Len(t) : t[i] = CR => i < Len(t)
  BY DEF EndsInCR
<1>2. CRLFs(Append(t, LF)) = CRLFs(t) /\ LoneCRs(Append(t, LF)) = LoneCRs(t)
  BY <1>1, AppendPlaces, CharAssumption DEF CRLFs, LoneCRs
<1>3. LoneLFs(Append(t, LF)) = LoneLFs(t) \cup {Len(t) + 1} /\ Len(t) + 1 \notin LoneLFs(t)
  BY <1>1, AppendPlaces, CharAssumption DEF LoneLFs
<1> QED
  BY <1>2, <1>3

LEMMA EndsInCRNext ==
  ASSUME NEW t \in Seq(Char), NEW c \in Char
  PROVE  EndsInCR(Append(t, c)) <=> c = CR
BY AppendPlaces DEF EndsInCR

\* The column of a character is its distance from the last separator.
LEMMA ColumnNext ==
  ASSUME NEW t \in Seq(Char), NEW c \in Char, NEW k \in Nat, EndsInLineOf(t, k)
  PROVE  EndsInLineOf(Append(t, c), IF c \in Separators THEN 0 ELSE k + 1)
<1>1. CASE c \in Separators
  BY <1>1, AppendPlaces DEF EndsInLineOf
<1>2. CASE c \notin Separators
  <2>1. k + 1 <= Len(Append(t, c))
    BY AppendPlaces DEF EndsInLineOf
  <2>2. ASSUME NEW i \in Len(Append(t, c)) - (k + 1) + 1 .. Len(Append(t, c))
        PROVE  Append(t, c)[i] \notin Separators
    <3>1. CASE i = Len(t) + 1
      BY <1>2, <3>1, AppendPlaces
    <3>2. CASE i # Len(t) + 1
      <4>1. i \in Len(t) - k + 1 .. Len(t) /\ i \in 1 .. Len(t)
        BY <3>2, AppendPlaces DEF EndsInLineOf
      <4> QED
        BY <4>1, AppendPlaces DEF EndsInLineOf
    <3> QED
      BY <3>1, <3>2
  <2>3. ASSUME k + 1 < Len(Append(t, c))
        PROVE  Append(t, c)[Len(Append(t, c)) - (k + 1)] \in Separators
    <3>1. Len(Append(t, c)) - (k + 1) = Len(t) - k /\ k < Len(t) /\ Len(t) - k \in 1 .. Len(t)
      BY <2>3, AppendPlaces
    <3> QED
      BY <3>1, AppendPlaces DEF EndsInLineOf
  <2> QED
    BY <1>2, <2>1, <2>2, <2>3 DEF EndsInLineOf
<1> QED
  BY <1>1, <1>2

-----------------------------------------------------------------------------
(* The invariant *)

\* What is known of the text between two iterations.  Once a record is
\* printed only the count of the CRs may still change.
ReadState ==
  /\ last_was_CR <=> EndsInCR(text)
  /\ EndsInLineOf(text, column)

Inv ==
  /\ TypeOK
  /\ ReadState
  /\ EachCountedOnce
  /\ LinecountCorrect
  /\ FailurePositionCorrect
  /\ QuestionableCorrect

LEMMA InitInv == Init => Inv
<1> SUFFICES ASSUME Init PROVE Inv
  OBVIOUS
<1>1. /\ charcount = 0 /\ LFcount = 0 /\ CRcount = 0 /\ CRLFcount = 0 /\ column = 0
      /\ text = <<>>
  BY DEF Init
<1>2. ~last_was_CR /\ last_was_CR \in BOOLEAN
  BY Zenon DEF Init
<1>3. printed \in [type : {"none"}] /\ printed.type = "none"
  BY DEF Init
<1>4. TypeOK
  <2>1. {charcount, LFcount, CRcount, CRLFcount, column} \subseteq Nat /\ text \in Seq(Char)
    BY <1>1
  <2> QED
    BY <1>2, <1>3, <2>1, Zenon DEF TypeOK
<1>5. CRLFs(text) = {} /\ LoneCRs(text) = {} /\ LoneLFs(text) = {} /\ Len(text) = 0
  BY <1>1 DEF CRLFs, LoneCRs, LoneLFs
<1>6. EachCountedOnce
  <2>1. Cardinality({}) = 0
    BY FS_EmptySet
  <2>2. /\ Cardinality(CRLFs(text)) = 0 /\ Cardinality(LoneCRs(text)) = 0
        /\ Cardinality(LoneLFs(text)) = 0
    BY <1>5, <2>1, Zenon
  <2>3. CRcount + (IF last_was_CR THEN 1 ELSE 0) = 0
    BY <1>1, <1>2
  <2> QED
    BY <1>1, <1>5, <2>2, <2>3, Zenon DEF EachCountedOnce
<1>7. ReadState
  BY <1>1, <1>2 DEF ReadState, EndsInCR, EndsInLineOf
<1> QED
  BY <1>3, <1>4, <1>6, <1>7
     DEF Inv, LinecountCorrect, FailurePositionCorrect, QuestionableCorrect

\* One more character: the counters and the places change alike.
LEMMA ReadsKeepInv ==
  ASSUME Inv, CarriageReturn \/ LineFeed \/ \E c \in Char : OtherChar(c)
  PROVE  Inv'
<1>1. PICK c \in Char : Read(c) /\ (\/ c = CR /\ CarriageReturn
                                    \/ c = LF /\ LineFeed
                                    \/ c \notin Separators /\ OtherChar(c))
  BY CharAssumption DEF CarriageReturn, LineFeed, OtherChar
<1>2. /\ text \in Seq(Char) /\ text' = Append(text, c) /\ charcount' = charcount + 1
      /\ printed' = printed /\ Running /\ Running'
  BY <1>1 DEF Inv, TypeOK, Read, Running
<1>3. /\ {charcount, LFcount, CRcount, CRLFcount, column} \subseteq Nat
      /\ charcount = Len(text)
      /\ LFcount = Cardinality(LoneLFs(text))
      /\ CRLFcount = Cardinality(CRLFs(text))
      /\ CRcount + (IF last_was_CR THEN 1 ELSE 0) = Cardinality(LoneCRs(text))
      /\ last_was_CR \in BOOLEAN
  BY <1>2 DEF Inv, TypeOK, EachCountedOnce
<1>4. /\ last_was_CR' = (c = CR)
      /\ column' = IF c \in Separators THEN 0 ELSE column + 1
  BY <1>1, CharAssumption DEF CarriageReturn, LineFeed, OtherChar, Separators
<1>5. TypeOK'
  <2>1. {charcount', LFcount', CRcount', CRLFcount', column'} \subseteq Nat
    BY <1>1, <1>2, <1>3, <1>4 DEF CarriageReturn, LineFeed, OtherChar, CRcountNext
  <2>2. printed' \in [type : {"none"}]
           \cup [type : {"linecount"}, charcount : Nat, LFcount : Nat, CRcount : Nat,
                 CRLFcount : Nat]
           \cup [type : {"utf-8-failure"}, line_questionable : BOOLEAN,
                 position : [character_position : Positive, line : Positive,
                             column : Positive]]
    BY <1>2 DEF Inv, TypeOK
  <2>3. Append(text, c) \in Seq(Char)
    BY <1>2
  <2> QED
    BY <1>2, <1>4, <2>1, <2>2, <2>3 DEF TypeOK, Positive
<1>6. ReadState'
  <2>1. EndsInLineOf(text', column')
    BY <1>2, <1>3, <1>4, ColumnNext DEF Inv, ReadState
  <2>2. last_was_CR' <=> EndsInCR(text')
    BY <1>2, <1>4, EndsInCRNext
  <2> QED
    BY <2>1, <2>2 DEF ReadState
<1>7. EachCountedOnce'
  <2>1. charcount' = Len(text')
    BY <1>2, <1>3, AppendPlaces
  <2>2. CASE c = CR /\ CarriageReturn
    <3>1. /\ CRcount' = IF last_was_CR THEN CRcount + 1 ELSE CRcount
          /\ UNCHANGED <<LFcount, CRLFcount>>
      BY <2>2 DEF CarriageReturn, CRcountNext
    <3>2. /\ CRLFs(text') = CRLFs(text) /\ LoneLFs(text') = LoneLFs(text)
          /\ LoneCRs(text') = LoneCRs(text) \cup {Len(text) + 1}
          /\ Len(text) + 1 \notin LoneCRs(text)
      BY <1>2, <2>2, CRIsAlone
    <3>3. Cardinality(LoneCRs(text')) = Cardinality(LoneCRs(text)) + 1
      BY <1>2, <3>2, PlacesAreFinite, FS_AddElement
    <3>4. last_was_CR' = TRUE
      BY <2>2 DEF CarriageReturn
    <3>5. CRcount' + (IF last_was_CR' THEN 1 ELSE 0) = Cardinality(LoneCRs(text'))
      BY <1>3, <3>1, <3>3, <3>4
    <3> QED
      BY <1>3, <2>1, <3>1, <3>2, <3>5 DEF EachCountedOnce
  <2>3. CASE c = LF /\ LineFeed
    <3>1. UNCHANGED CRcount /\ ~last_was_CR'
      BY <2>3 DEF LineFeed
    <3>2. CASE last_was_CR
      <4>1. EndsInCR(text)
        BY <3>2 DEF Inv, ReadState
      <4>2. CRLFcount' = CRLFcount + 1 /\ UNCHANGED LFcount
        BY <2>3, <3>2 DEF LineFeed
      <4>3. /\ Cardinality(CRLFs(text')) = Cardinality(CRLFs(text)) + 1
            /\ Cardinality(LoneCRs(text')) = Cardinality(LoneCRs(text)) - 1
            /\ LoneLFs(text') = LoneLFs(text)
        <5>1. text' = Append(text, LF)
          BY <1>2, <2>3
        <5>2. Cardinality(CRLFs(text) \cup {Len(text)}) = Cardinality(CRLFs(text)) + 1
          BY <1>2, <4>1, LFCompletesCR, PlacesAreFinite, FS_AddElement
        <5>3. Cardinality(LoneCRs(text) \ {Len(text)}) = Cardinality(LoneCRs(text)) - 1
          BY <1>2, <4>1, LFCompletesCR, PlacesAreFinite, FS_RemoveElement
        <5> QED
          BY <1>2, <4>1, <5>1, <5>2, <5>3, LFCompletesCR
      <4> QED
        BY <1>3, <2>1, <3>1, <3>2, <4>2, <4>3 DEF EachCountedOnce
    <3>3. CASE ~last_was_CR
      <4>1. ~EndsInCR(text)
        BY <3>3 DEF Inv, ReadState
      <4>2. LFcount' = LFcount + 1 /\ UNCHANGED CRLFcount
        BY <2>3, <3>3 DEF LineFeed
      <4>3. /\ CRLFs(text') = CRLFs(text) /\ LoneCRs(text') = LoneCRs(text)
            /\ Cardinality(LoneLFs(text')) = Cardinality(LoneLFs(text)) + 1
        <5>1. text' = Append(text, LF)
          BY <1>2, <2>3
        <5>2. Cardinality(LoneLFs(text) \cup {Len(text) + 1})
                = Cardinality(LoneLFs(text)) + 1
          BY <1>2, <4>1, LFIsAlone, PlacesAreFinite, FS_AddElement
        <5> QED
          BY <1>2, <4>1, <5>1, <5>2, LFIsAlone
      <4> QED
        BY <1>3, <2>1, <3>1, <3>3, <4>2, <4>3 DEF EachCountedOnce
    <3> QED
      BY <3>2, <3>3
  <2>4. CASE c \notin Separators /\ OtherChar(c)
    <3>1. /\ CRcount' = IF last_was_CR THEN CRcount + 1 ELSE CRcount
          /\ UNCHANGED <<LFcount, CRLFcount>> /\ ~last_was_CR'
      BY <2>4 DEF OtherChar, CRcountNext
    <3>2. /\ CRLFs(text') = CRLFs(text) /\ LoneCRs(text') = LoneCRs(text)
          /\ LoneLFs(text') = LoneLFs(text)
      BY <1>2, <2>4, OtherKeepsPlaces
    <3> QED
      BY <1>3, <2>1, <3>1, <3>2, PlacesAreFinite, <1>2 DEF EachCountedOnce
  <2> QED
    BY <1>1, <2>2, <2>3, <2>4
<1>8. (LinecountCorrect /\ FailurePositionCorrect /\ QuestionableCorrect)'
  BY <1>2 DEF Running, LinecountCorrect, FailurePositionCorrect, QuestionableCorrect
<1> QED
  BY <1>5, <1>6, <1>7, <1>8 DEF Inv

-----------------------------------------------------------------------------
(* The records *)

LEMMA EndOfTextKeepsInv == ASSUME Inv, EndOfText PROVE Inv'
<1>1. /\ {charcount, LFcount, CRcount, CRLFcount, column} \subseteq Nat
      /\ charcount = Len(text)
      /\ LFcount = Cardinality(LoneLFs(text))
      /\ CRLFcount = Cardinality(CRLFs(text))
      /\ CRcount + (IF last_was_CR THEN 1 ELSE 0) = Cardinality(LoneCRs(text))
  BY DEF Inv, TypeOK, EachCountedOnce, EndOfText
<1>2. /\ CRcount' = Cardinality(LoneCRs(text)) /\ CRcount' \in Nat
      /\ UNCHANGED <<charcount, LFcount, CRLFcount, column, last_was_CR, text>>
  BY <1>1 DEF EndOfText, CRcountNext
<1>3. /\ printed' \in [type : {"linecount"}, charcount : Nat, LFcount : Nat,
                       CRcount : Nat, CRLFcount : Nat]
      /\ printed'.type = "linecount" /\ printed'.charcount = charcount
      /\ printed'.LFcount = LFcount /\ printed'.CRcount = CRcount'
      /\ printed'.CRLFcount = CRLFcount
  BY <1>1, <1>2 DEF EndOfText
<1>4. TypeOK'
  BY <1>1, <1>2, <1>3 DEF TypeOK, Inv, Positive
<1>5. ReadState'
  BY <1>2 DEF ReadState, Inv, EndsInLineOf, EndsInCR, Separators
<1>6. LinecountCorrect'
  BY <1>1, <1>2, <1>3 DEF LinecountCorrect, CRLFs, LoneCRs, LoneLFs
<1> QED
  BY <1>3, <1>4, <1>5, <1>6
     DEF Inv, EachCountedOnce, Running, FailurePositionCorrect, QuestionableCorrect

\* The kinds of separators that there are, of three disjoint sets of places.
LEMMA SeveralKinds ==
  ASSUME NEW A, NEW B, NEW C, A \cap B = {}, A \cap C = {}, B \cap C = {}
  PROVE  Cardinality({k \in {A, B, C} : k # {}}) > 1
           <=> (A # {} /\ B # {}) \/ (A # {} /\ C # {}) \/ (B # {} /\ C # {})
<1> DEFINE K == {k \in {A, B, C} : k # {}}
<1>1. IsFiniteSet(K)
  <2>1. IsFiniteSet({A, B, C})
    <3>1. IsFiniteSet({A} \cup {B})
      BY FS_Singleton, FS_AddElement
    <3>2. IsFiniteSet(({A} \cup {B}) \cup {C})
      BY <3>1, FS_AddElement
    <3> QED
      BY <3>2, ({A} \cup {B}) \cup {C} = {A, B, C}
  <2> QED
    BY <2>1, FS_Subset
<1>2. ASSUME NEW X \in K, NEW Y \in K, X # Y PROVE Cardinality(K) > 1
  <2>1. IsFiniteSet(K \ {X}) /\ Cardinality(K \ {X}) = Cardinality(K) - 1
    BY <1>1, FS_RemoveElement
  <2>2. K \ {X} # {}
    BY <1>2
  <2>3. Cardinality(K \ {X}) # 0 /\ Cardinality(K \ {X}) \in Nat /\ Cardinality(K) \in Nat
    BY <1>1, <2>1, <2>2, FS_EmptySet, FS_CardinalityType
  <2> QED
    BY <2>1, <2>3
<1>3. ASSUME NEW X, K \subseteq {X} PROVE ~(Cardinality(K) > 1)
  <2>1. CASE K = {}
    <3>1. Cardinality(K) = 0
      BY <2>1, FS_EmptySet
    <3> QED
      BY <3>1
  <2>2. CASE K = {X}
    <3>1. Cardinality(K) = 1
      BY <2>2, FS_Singleton
    <3> QED
      BY <3>1
  <2> QED
    BY <1>3, <2>1, <2>2
<1>4. ASSUME A # {}, B # {} PROVE A \in K /\ B \in K /\ A # B
  BY <1>4
<1>5. ASSUME A # {}, C # {} PROVE A \in K /\ C \in K /\ A # C
  BY <1>5
<1>6. ASSUME B # {}, C # {} PROVE B \in K /\ C \in K /\ B # C
  BY <1>6
<1>7. ASSUME ~((A # {} /\ B # {}) \/ (A # {} /\ C # {}) \/ (B # {} /\ C # {}))
      PROVE  K \subseteq {A} \/ K \subseteq {B} \/ K \subseteq {C}
  BY <1>7
<1> HIDE DEF K
<1>8. Cardinality(K) > 1
        <=> (A # {} /\ B # {}) \/ (A # {} /\ C # {}) \/ (B # {} /\ C # {})
  BY <1>2, <1>3, <1>4, <1>5, <1>6, <1>7
<1> QED
  BY <1>8 DEF K

LEMMA FailureKeepsInv == ASSUME Inv, Failure PROVE Inv'
<1>1. /\ {charcount, LFcount, CRcount, CRLFcount, column} \subseteq Nat
      /\ charcount = Len(text) /\ text \in Seq(Char)
      /\ LFcount = Cardinality(LoneLFs(text))
      /\ CRLFcount = Cardinality(CRLFs(text))
      /\ CRcount + (IF last_was_CR THEN 1 ELSE 0) = Cardinality(LoneCRs(text))
      /\ EndsInLineOf(text, column)
  BY DEF Inv, TypeOK, EachCountedOnce, Failure, ReadState
<1>2. UNCHANGED <<charcount, LFcount, CRcount, CRLFcount, column, last_was_CR, text>>
  BY DEF Failure, counters
<1>3. /\ printed'.type = "utf-8-failure"
      /\ printed'.position.character_position = charcount + 1
      /\ printed'.position.line = LFcount + CRcount + CRLFcount + 1
      /\ printed'.position.column = column + 1
      /\ printed'.line_questionable = Questionable
  BY DEF Failure, Position, linecount
<1>4. TypeOK'
  <2>1. Position \in [character_position : Positive, line : Positive, column : Positive]
    BY <1>1 DEF Position, Positive, linecount
  <2>2. Questionable \in BOOLEAN
    BY DEF Questionable
  <2>3. printed' \in [type : {"utf-8-failure"}, line_questionable : BOOLEAN,
                      position : [character_position : Positive, line : Positive,
                                  column : Positive]]
    BY <2>1, <2>2 DEF Failure
  <2> QED
    BY <1>1, <1>2, <2>3 DEF TypeOK, Inv, Positive
<1>5. ReadState'
  BY <1>2 DEF ReadState, Inv, EndsInLineOf, EndsInCR, Separators
<1>6. FailurePositionCorrect'
  <2>1. printed'.position.column - 1 = column
    BY <1>1, <1>3
  <2>2. ~last_was_CR => printed'.position.line = LinesEnded(text) + 1
    BY <1>1, <1>3 DEF LinesEnded
  <2>3. printed'.position.character_position = Len(text) + 1
    BY <1>1, <1>3
  <2> QED
    BY <1>1, <1>2, <1>3, <2>1, <2>2, <2>3
       DEF FailurePositionCorrect, EndsInLineOf, LinesEnded, CRLFs, LoneCRs, LoneLFs,
           Separators
<1>7. QuestionableCorrect'
  <2> SUFFICES ASSUME ~last_was_CR
               PROVE  Questionable <=>
                        Cardinality({k \in {CRLFs(text), LoneCRs(text), LoneLFs(text)} :
                                       k # {}}) > 1
    BY <1>2, <1>3 DEF QuestionableCorrect, CRLFs, LoneCRs, LoneLFs
  <2>1. /\ (LFcount # 0 <=> LoneLFs(text) # {}) /\ (CRcount # 0 <=> LoneCRs(text) # {})
        /\ (CRLFcount # 0 <=> CRLFs(text) # {})
    BY <1>1, PlacesAreFinite, FS_EmptySet
  <2>2. Questionable <=> \/ CRLFcount # 0 /\ CRcount # 0
                         \/ CRLFcount # 0 /\ LFcount # 0
                         \/ CRcount # 0 /\ LFcount # 0
    BY <1>1 DEF Questionable, linecount, MAX3, MAX2
  <2>3. /\ CRLFs(text) \cap LoneCRs(text) = {} /\ CRLFs(text) \cap LoneLFs(text) = {}
        /\ LoneCRs(text) \cap LoneLFs(text) = {}
    BY CharAssumption DEF CRLFs, LoneCRs, LoneLFs
  <2> QED
    BY <2>1, <2>2, <2>3, SeveralKinds
<1> QED
  BY <1>3, <1>4, <1>5, <1>6, <1>7 DEF Inv, EachCountedOnce, Running, LinecountCorrect

LEMMA NextInv == Inv /\ [Next]_vars => Inv'
<1> SUFFICES ASSUME Inv, [Next]_vars PROVE Inv'
  OBVIOUS
<1>1. CASE CarriageReturn \/ LineFeed \/ \E c \in Char : OtherChar(c)
  BY <1>1, ReadsKeepInv
<1>2. CASE EndOfText \/ Failure
  BY <1>2, EndOfTextKeepsInv, FailureKeepsInv
<1>3. CASE Done \/ UNCHANGED vars
  <2>1. UNCHANGED <<charcount, LFcount, CRcount, CRLFcount, column, last_was_CR, printed, text>>
    BY <1>3 DEF Done, vars, counters
  <2> QED
    BY <2>1 DEF Inv, TypeOK, ReadState, EndsInLineOf, EndsInCR, EachCountedOnce, Running,
       LinecountCorrect, FailurePositionCorrect, QuestionableCorrect, LinesEnded, CRLFs,
       LoneCRs, LoneLFs, Separators, Positive
<1> QED
  BY <1>1, <1>2, <1>3 DEF Next

-----------------------------------------------------------------------------
(* Theorems *)

LEMMA Invariance == Spec => []Inv
BY InitInv, NextInv, PTL DEF Spec

\* The variables have their types: a failure is never reported at character,
\* line or column 0 (report, utf-8-lineseparator.c).
THEOREM TypeCorrect == Spec => []TypeOK
<1>1. Inv => TypeOK
  BY DEF Inv
<1> QED
  BY <1>1, Invariance, PTL

\* Between two iterations of the loop every separator of the text is counted
\* once and under its kind, but for a CR that was just read.
THEOREM CountsAreRight == Spec => []EachCountedOnce
<1>1. Inv => EachCountedOnce
  BY DEF Inv
<1> QED
  BY <1>1, Invariance, PTL

\* The record at the end of a text gives the numbers of its lone LFs, lone CRs
\* and CRLFs, for every text, also one that ends in a CR.
THEOREM LinecountIsRight == Spec => []LinecountCorrect
<1>1. Inv => LinecountCorrect
  BY DEF Inv
<1> QED
  BY <1>1, Invariance, PTL

\* The record of a failure names the character, the column and, unless a CR is
\* in front of it, the line of what could not be read.
THEOREM FailurePositionIsRight == Spec => []FailurePositionCorrect
<1>1. Inv => FailurePositionCorrect
  BY DEF Inv
<1> QED
  BY <1>1, Invariance, PTL

\* Comparing the sum of the three counts with the greatest of them tells
\* whether there are separators of more than one kind.
THEOREM QuestionableIsRight == Spec => []QuestionableCorrect
<1>1. Inv => QuestionableCorrect
  BY DEF Inv
<1> QED
  BY <1>1, Invariance, PTL
=============================================================================
