------------------------ MODULE BufferedStreamProofs ------------------------
(***************************************************************************)
(* Theorems about BufferedStream, for every buffer size, every set of byte *)
(* values and every bound.  One inductive invariant, IInv, holds the type, *)
(* the soundness of the buffer, the assertions of the code, which function *)
(* may run for which call (Control), and the balance of the allocations    *)
(* (Accounting).                                                           *)
(*                                                                         *)
(* ReleaseIsClean and BalancedAllocs look at a stream that was released;   *)
(* ReleaseInv says what must hold before, in every state, so that they do  *)
(* then.  ReadInv says when a read may happen and who may move the         *)
(* positions, and WriteInv does the same for what is written, and adds     *)
(* where startpos is while nothing is being written: ReadInOrder,          *)
(* WriteInOrder and OkMeansWritten follow.  Each of the three is inductive *)
(* together with IInv.                                                     *)
(***************************************************************************)
EXTENDS BufferedStream, FiniteSetTheorems, SequenceTheorems, TLAPS

OpenFile == stream_type = FILESTREAM /\ ~is_closed

\* Which calls may have led to a function, and what its callers have checked.
Control ==
  /\ pc \in Functions => ~result.heap
  /\ pc = "none" => owned = {} /\ ~result.heap
                    /\ ~is_closed /\ ~optional_failure
  /\ pc = "putc" => op = "putc"
  /\ pc = "close" => op = "close"
  /\ pc \in {"flush", "write"} => op \in {"putc", "flush", "close"}
  /\ pc = "flush" /\ op # "flush" => OpenFile
  /\ pc \in {"read", "write", "sysclose"} => OpenFile
  /\ op = "putc" => arg \in Byte
  /\ OpenFile /\ pc \notin {"none", "released", "aborted"}
        => optional_fd = "fd" /\ buffer.size > 0

\* Nothing is freed that was not allocated: the results and failures that are
\* held, and the parts that are owned, are allocations of their own.
Accounting ==
  pc # "released" =>
     active_allocs >= HeldBy(result) + StoredFailure + Cardinality(owned)

IInv == TypeOK /\ BufferSound /\ Control /\ Accounting

-----------------------------------------------------------------------------

LEMMA OwnedParts ==
  ASSUME NEW S \in SUBSET {"data", "name"}
  PROVE  /\ IsFiniteSet(S)
         /\ Cardinality(S) \in Nat
         /\ Cardinality(S \cap {"data"}) \in Nat
         /\ Cardinality(S \ {"data"}) \in Nat
         /\ Cardinality(S) = Cardinality(S \ {"data"}) + Cardinality(S \cap {"data"})
<1>1. IsFiniteSet({"data", "name"})
  <2>1. IsFiniteSet({"data"})
    BY FS_Singleton
  <2>2. IsFiniteSet({"data"} \cup {"name"})
    BY <2>1, FS_AddElement
  <2> QED
    BY <2>2, {"data"} \cup {"name"} = {"data", "name"}
<1>2. IsFiniteSet(S)
  BY <1>1, FS_Subset
<1>3. /\ Cardinality(S) \in Nat
      /\ Cardinality(S \cap {"data"}) \in Nat
      /\ Cardinality(S \ {"data"}) = Cardinality(S) - Cardinality(S \cap {"data"})
  BY <1>2, FS_CardinalityType, FS_Intersection, FS_Difference
<1>4. Cardinality(S \ {"data"}) \in Nat
  BY <1>2, FS_Difference, FS_CardinalityType
<1> QED
  BY <1>2, <1>3, <1>4

Sound(b) ==
  /\ b \in [startpos : Nat, endpos : Nat, size : Nat,
            data : [0 .. b.size - 1 -> Byte \cup {Uninit}]]
  /\ Buffer_assert(b)
  /\ \A k \in 0 .. b.endpos - 1 : b.data[k] \in Byte

LEMMA UpdateIsBuffer ==
  ASSUME NEW Data, NEW b \in [startpos : Nat, endpos : Nat, size : Nat, data : Data],
         NEW s \in Nat, NEW e \in Nat, NEW d \in Data
  PROVE  [b EXCEPT !.startpos = s, !.endpos = e, !.data = d]
            \in [startpos : Nat, endpos : Nat, size : Nat, data : Data]
OBVIOUS

LEMMA ClearIsSound ==
  ASSUME NEW b, Sound(b)
  PROVE  Sound(Buffer_clear(b)) /\ Buffer_clear(b).size = b.size
<1> DEFINE c == Buffer_clear(b)
<1>1. c.startpos = 0 /\ c.endpos = 0 /\ c.size = b.size /\ c.data = b.data
  BY DEF Sound, Buffer_clear
<1>2. c \in [startpos : Nat, endpos : Nat, size : Nat,
            data : [0 .. b.size - 1 -> Byte \cup {Uninit}]]
  BY DEF Sound, Buffer_clear
<1> QED
  BY <1>1, <1>2 DEF Sound, Buffer_assert

LEMMA RewindIsSound ==
  ASSUME NEW b, Sound(b)
  PROVE  Sound([b EXCEPT !.startpos = 0])
BY DEF Sound, Buffer_assert

LEMMA AdvanceIsSound ==
  ASSUME NEW b, Sound(b), NEW n \in Nat, n <= LSlice_length(b)
  PROVE  Sound([b EXCEPT !.startpos = @ + n])
BY DEF Sound, Buffer_assert, LSlice_length

LEMMA PutIsSound ==
  ASSUME NEW b, Sound(b), NEW c \in Byte, Buffer_has_room(b)
  PROVE  Sound(Buffer_putc(b, c)) /\ Buffer_putc(b, c).size = b.size
<1> DEFINE p == Buffer_putc(b, c)
<1>1. p.startpos = b.startpos + 1 /\ p.size = b.size
      /\ p.endpos = (IF b.endpos < b.startpos + 1 THEN b.startpos + 1 ELSE b.endpos)
      /\ p.data = [b.data EXCEPT ![b.startpos] = c]
  BY DEF Sound, Buffer_putc
<1>2. [b.data EXCEPT ![b.startpos] = c] \in [0 .. b.size - 1 -> Byte \cup {Uninit}]
  BY DEF Sound, Buffer_has_room
<1>5. p \in [startpos : Nat, endpos : Nat, size : Nat,
            data : [0 .. b.size - 1 -> Byte \cup {Uninit}]]
  <2> DEFINE Data == [0 .. b.size - 1 -> Byte \cup {Uninit}]
             e    == IF b.endpos < b.startpos + 1 THEN b.startpos + 1 ELSE b.endpos
             d    == [b.data EXCEPT ![b.startpos] = c]
  <2>1. b \in [startpos : Nat, endpos : Nat, size : Nat, data : Data]
        /\ b.startpos + 1 \in Nat /\ e \in Nat /\ d \in Data
    BY <1>2 DEF Sound
  <2>2. p = [b EXCEPT !.startpos = b.startpos + 1, !.endpos = e, !.data = d]
    BY DEF Buffer_putc
  <2> HIDE DEF Data, e, d, p
  <2>3. p \in [startpos : Nat, endpos : Nat, size : Nat, data : Data]
    BY <2>1, <2>2, UpdateIsBuffer
  <2> QED
    BY <2>3 DEF Data
<1>3. Buffer_assert(p)
  BY <1>1 DEF Sound, Buffer_assert, Buffer_has_room
<1>4. \A k \in 0 .. p.endpos - 1 : p.data[k] \in Byte
  BY <1>1 DEF Sound, Buffer_assert, Buffer_has_room
<1> QED
  BY <1>1, <1>5, <1>3, <1>4 DEF Sound

LEMMA FirstIsByte ==
  ASSUME NEW b, Sound(b), ~LSlice_is_empty(b)
  PROVE  /\ LSlice_ref_start(b) \in Byte
         /\ Sound(Buffer_getc(b)) /\ Buffer_getc(b).size = b.size
BY DEF Sound, Buffer_assert, LSlice_is_empty, LSlice_ref_start, Buffer_getc

LEMMA ContentIsBytes ==
  ASSUME NEW b, Sound(b)
  PROVE  Content(b) \in Seq(Byte) /\ Len(Content(b)) = LSlice_length(b)
<1>1. LSlice_length(b) \in Nat
  BY DEF Sound, Buffer_assert, LSlice_length
<1>2. \A k \in 1 .. LSlice_length(b) : b.data[b.startpos + k - 1] \in Byte
  BY DEF Sound, Buffer_assert, LSlice_length
<1> QED
  BY <1>1, <1>2 DEF Content

LEMMA RefillIsSound ==
  ASSUME IInv, NEW n \in Nat, n <= buffer.size, n <= Len(input) - offset
  PROVE  Sound(Refilled(n)) /\ Refilled(n).size = buffer.size
<1> USE DEF IInv, TypeOK, BufferSound, Buffer_assert
<1>1. \A k \in 0 .. n - 1 : input[offset + k + 1] \in Byte
  OBVIOUS
<1> DEFINE d == [k \in DOMAIN buffer.data |-> IF k < n THEN input[offset + k + 1]
                                                       ELSE buffer.data[k]]
<1>2. d \in [0 .. buffer.size - 1 -> Byte \cup {Uninit}]
  BY <1>1
<1>3. \A k \in 0 .. n - 1 : d[k] \in Byte
  BY <1>1
<1>4. Refilled(n) = [buffer EXCEPT !.startpos = 0, !.endpos = n, !.data = d]
  BY DEF Refilled
<1> HIDE DEF d
<1>5. Refilled(n).startpos = 0 /\ Refilled(n).endpos = n
      /\ Refilled(n).size = buffer.size /\ Refilled(n).data = d
  BY <1>4
<1>6. Refilled(n) \in [startpos : Nat, endpos : Nat, size : Nat,
                       data : [0 .. buffer.size - 1 -> Byte \cup {Uninit}]]
  <2> DEFINE Data == [0 .. buffer.size - 1 -> Byte \cup {Uninit}]
  <2>1. buffer \in [startpos : Nat, endpos : Nat, size : Nat, data : Data]
        /\ d \in Data
    BY <1>2
  <2> HIDE DEF Data, IInv, TypeOK, BufferSound, Buffer_assert
  <2>2. Refilled(n) \in [startpos : Nat, endpos : Nat, size : Nat, data : Data]
    BY <2>1, <1>4, UpdateIsBuffer
  <2> QED
    BY <2>2 DEF Data
<1> QED
  BY <1>3, <1>5, <1>6 DEF Sound
LEMMA InitIInv == Init => IInv
<1> SUFFICES ASSUME Init PROVE IInv
  OBVIOUS
<1> USE DEF Init
<1>1. Cardinality({}) = 0
  BY FS_EmptySet
<1>2. TypeOK
  <2>1. 0 .. 0 - 1 = {}
    OBVIOUS
  <2>2. buffer \in [startpos : Nat, endpos : Nat, size : Nat,
                    data : [0 .. buffer.size - 1 -> Byte \cup {Uninit}]]
    BY <2>1 DEF Buffer_from_buf
  <2>3. input \in Seq(Byte) /\ offset \in 0 .. Len(input) /\ output \in Seq(Byte)
        /\ got \in Seq(Byte) /\ accepted \in Seq(Byte)
    OBVIOUS
  <2> QED
    BY <2>2, <2>3 DEF TypeOK, Ok, FILESTREAM, FD_NONE, Functions
<1>3. BufferSound
  BY DEF BufferSound, Buffer_assert, Buffer_from_buf
<1>4. Control
  BY DEF Control, Ok, Functions, OpenFile
<1>5. Accounting
  BY <1>1 DEF Accounting, Ok, HeldBy, StoredFailure
<1> QED
  BY <1>2, <1>3, <1>4, <1>5 DEF IInv

\* TypeOK and BufferSound say, for the one buffer of the stream, what Sound says.
LEMMA SoundBuffer == TypeOK /\ BufferSound => Sound(buffer)
BY DEF TypeOK, BufferSound, Sound

\* The results there are, but for those of getc.
LEMMA ResultTypes ==
  /\ Ok(None) \in [is_err : BOOLEAN, value : Byte \cup {None}, heap : BOOLEAN]
  /\ \A heap \in BOOLEAN :
       Err(heap) \in [is_err : BOOLEAN, value : Byte \cup {None}, heap : BOOLEAN]
BY DEF Ok, Err

\* How the actions write down what they change, and what they leave alone.
USE DEF structVars, fileVars, osVars, historyVars, vars, Functions, FILESTREAM,
        BUFFERSTREAM, FD_NONE, OpenFile, Ok, Err, HeldBy, StoredFailure, Return,
        FlushReturns, StoreFailure, Closed, Getting, Putting, AtEnd

LEMMA GetcStep == ASSUME IInv, Getc PROVE IInv'
<1> USE DEF IInv
<1>1. Cardinality(owned) \in Nat /\ Sound(buffer)
  BY OwnedParts, SoundBuffer DEF TypeOK
<1>4. CASE GetcRefused
  BY <1>1, <1>4 DEF GetcRefused, TypeOK, BufferSound, Control, Accounting
<1>5. CASE GetcEnd
  BY <1>1, <1>5 DEF GetcEnd, TypeOK, BufferSound, Control, Accounting
<1>6. CASE GetcFailed
  BY <1>1, <1>6 DEF GetcFailed, TypeOK, BufferSound, Control, Accounting
<1>7. CASE GetcRefill
  BY <1>1, <1>7 DEF GetcRefill, TypeOK, BufferSound, Control, Accounting
<1>3. CASE GetcByte
  <2>1. LSlice_ref_start(buffer) \in Byte /\ Sound(buffer') /\ buffer'.size = buffer.size
    BY <1>1, <1>3, FirstIsByte DEF GetcByte
  <2>2. TypeOK' /\ BufferSound'
    BY <1>3, <2>1 DEF GetcByte, TypeOK, BufferSound, Sound
  <2>3. Control' /\ Accounting'
    BY <1>1, <1>3, <2>1 DEF GetcByte, TypeOK, Control, Accounting
  <2> QED
    BY <2>2, <2>3
<1> QED
  BY <1>3, <1>4, <1>5, <1>6, <1>7 DEF Getc

LEMMA ReadStep == ASSUME IInv, Read PROVE IInv'
<1> USE DEF IInv
<1>1. Cardinality(owned) \in Nat /\ Sound(buffer)
  BY OwnedParts, SoundBuffer DEF TypeOK
<1>4. CASE ReadEOF
  BY <1>1, <1>4 DEF ReadEOF, TypeOK, BufferSound, Control, Accounting
<1>5. CASE ReadFails
  BY <1>1, <1>5 DEF ReadFails, TypeOK, BufferSound, Control, Accounting
<1>3. ASSUME NEW n \in 1 .. buffer.size, ReadBytes(n) PROVE IInv'
  <2>1. Sound(buffer') /\ buffer'.size = buffer.size
    BY <1>1, <1>3, RefillIsSound DEF ReadBytes, Sound
  <2>2. TypeOK' /\ BufferSound'
    BY <1>3, <2>1 DEF ReadBytes, TypeOK, BufferSound, Sound
  <2>3. Control' /\ Accounting'
    BY <1>1, <1>3, <2>1 DEF ReadBytes, TypeOK, Control, Accounting
  <2> QED
    BY <2>2, <2>3
<1> QED
  BY <1>3, <1>4, <1>5 DEF Read

LEMMA PutcStep == ASSUME IInv, Putc PROVE IInv'
<1> USE DEF IInv
<1>1. Cardinality(owned) \in Nat /\ Sound(buffer)
  BY OwnedParts, SoundBuffer DEF TypeOK
<1>4. CASE PutcRefused
  BY <1>1, <1>4 DEF PutcRefused, TypeOK, BufferSound, Control, Accounting
<1>5. CASE PutcNoSpace
  BY <1>1, <1>5 DEF PutcNoSpace, TypeOK, BufferSound, Control, Accounting
<1>6. CASE PutcFlush
  BY <1>1, <1>6 DEF PutcFlush, TypeOK, BufferSound, Control, Accounting
<1>3. CASE PutcByte
  <2>1. arg \in Byte
    BY <1>3 DEF PutcByte, Control
  <2>2. Sound(buffer') /\ buffer'.size = buffer.size
    BY <1>1, <1>3, <2>1, PutIsSound DEF PutcByte
  <2>3. TypeOK' /\ BufferSound'
    BY <1>3, <2>1, <2>2 DEF PutcByte, TypeOK, BufferSound, Sound
  <2>4. Control' /\ Accounting'
    BY <1>1, <1>3, <2>2 DEF PutcByte, TypeOK, Control, Accounting
  <2> QED
    BY <2>3, <2>4
<1> QED
  BY <1>3, <1>4, <1>5, <1>6 DEF Putc

LEMMA FlushStep == ASSUME IInv, Flush PROVE IInv'
<1> USE DEF IInv
<1>1. Cardinality(owned) \in Nat /\ Sound(buffer)
  BY OwnedParts, SoundBuffer DEF TypeOK
<1>2. CASE FlushNothing
  <2>1. op = "flush"
    BY <1>2 DEF FlushNothing, TypeOK, Control
  <2>2. pc' = "ready" /\ result' \in {Ok(None), Err(FALSE)}
    BY <1>2, <2>1 DEF FlushNothing
  <2>3. TypeOK' /\ BufferSound'
    <3>1. result' \in [is_err : BOOLEAN, value : Byte \cup {None}, heap : BOOLEAN]
      BY <2>2, ResultTypes
    <3> HIDE DEF FlushReturns, Ok, Err
    <3> QED
      BY <1>2, <2>2, <3>1 DEF FlushNothing, TypeOK, BufferSound
  <2>4. Control' /\ Accounting'
    BY <1>1, <1>2, <2>1, <2>2 DEF FlushNothing, TypeOK, Control, Accounting
  <2> QED
    BY <2>3, <2>4
<1>3. CASE FlushFile
  <2>1. Sound(buffer') /\ buffer'.size = buffer.size
    BY <1>1, <1>3, RewindIsSound DEF FlushFile, Sound
  <2>2. TypeOK' /\ BufferSound'
    BY <1>3, <2>1 DEF FlushFile, TypeOK, BufferSound, Sound
  <2>3. Control' /\ Accounting'
    BY <1>1, <1>3, <2>1 DEF FlushFile, TypeOK, Control, Accounting
  <2> QED
    BY <2>2, <2>3
<1> QED
  BY <1>2, <1>3 DEF Flush

LEMMA WriteStep == ASSUME IInv, Write PROVE IInv'
<1> USE DEF IInv
<1>1. Cardinality(owned) \in Nat /\ Sound(buffer)
  BY OwnedParts, SoundBuffer DEF TypeOK
<1>2. Content(buffer) \in Seq(Byte) /\ Len(Content(buffer)) = LSlice_length(buffer)
  BY <1>1, ContentIsBytes
<1>3. CASE WriteAll
  <2>1. Sound(buffer') /\ buffer'.size = buffer.size
    BY <1>1, <1>3, ClearIsSound DEF WriteAll
  <2>2. TypeOK' /\ BufferSound'
    <3>1. output' \in Seq(Byte)
      BY <1>2, <1>3 DEF WriteAll, TypeOK
    <3>2. pc' \in {"ready", "putc", "sysclose"} /\ result' \in {result, Ok(None)}
      BY <1>3 DEF WriteAll
    <3>3. result' \in [is_err : BOOLEAN, value : Byte \cup {None}, heap : BOOLEAN]
      BY <3>2, ResultTypes DEF TypeOK
    <3> HIDE DEF FlushReturns, Ok, Err
    <3> QED
      BY <1>3, <2>1, <3>1, <3>2, <3>3 DEF WriteAll, TypeOK, BufferSound, Sound
  <2>3. Control' /\ Accounting'
    BY <1>1, <1>3, <2>1 DEF WriteAll, TypeOK, Control, Accounting
  <2> QED
    BY <2>2, <2>3
<1>4. ASSUME NEW n \in 1 .. buffer.size, WritePart(n) PROVE IInv'
  <2>1. Sound(buffer') /\ buffer'.size = buffer.size
    <3>1. n \in Nat /\ n <= LSlice_length(buffer) /\ buffer' = [buffer EXCEPT !.startpos = @ + n]
      BY <1>1, <1>4 DEF WritePart, Written, Sound, Buffer_assert, LSlice_length
    <3> QED
      BY <1>1, <3>1, AdvanceIsSound DEF Sound
  <2>2. output' \in Seq(Byte)
    BY <1>1, <1>2, <1>4 DEF WritePart, TypeOK, Sound
  <2>3. TypeOK' /\ BufferSound'
    BY <1>4, <2>1, <2>2 DEF WritePart, TypeOK, BufferSound, Sound
  <2>4. Control' /\ Accounting'
    BY <1>1, <1>4, <2>1 DEF WritePart, TypeOK, Control, Accounting
  <2> QED
    BY <2>3, <2>4
<1>5. CASE WriteFails
  BY <1>1, <1>5 DEF WriteFails, TypeOK, BufferSound, Control, Accounting
<1> QED
  BY <1>3, <1>4, <1>5 DEF Write

LEMMA CloseStep == ASSUME IInv, Close \/ SysClose \/ SysCloseInterrupted PROVE IInv'
<1> USE DEF IInv
<1>1. Cardinality(owned) \in Nat /\ Sound(buffer)
  BY OwnedParts, SoundBuffer DEF TypeOK
<1>4. CASE CloseRefused
  BY <1>1, <1>4 DEF CloseRefused, TypeOK, BufferSound, Control, Accounting
<1>5. CASE CloseFile
  BY <1>1, <1>5 DEF CloseFile, TypeOK, BufferSound, Control, Accounting
<1>6. CASE SysCloseInterrupted
  BY <1>1, <1>6 DEF SysCloseInterrupted, TypeOK, BufferSound, Control, Accounting
<1>3. CASE CloseBuffer \/ SysCloseSucceeds \/ SysCloseFails
  <2>1. Sound(buffer') /\ buffer'.size = buffer.size
    BY <1>1, <1>3, ClearIsSound DEF CloseBuffer, SysCloseSucceeds, SysCloseFails
  <2>2. TypeOK' /\ BufferSound'
    <3>1. CASE CloseBuffer
      BY <2>1, <3>1 DEF CloseBuffer, TypeOK, BufferSound, Sound
    <3>2. CASE SysCloseSucceeds
      BY <2>1, <3>2 DEF SysCloseSucceeds, TypeOK, BufferSound, Sound
    <3>3. CASE SysCloseFails
      <4>1. result' \in [is_err : BOOLEAN, value : Byte \cup {None}, heap : BOOLEAN]
        BY <3>3, ResultTypes DEF SysCloseFails
      <4>2. failures' \in Nat /\ active_allocs' \in Nat /\ optional_fd' \in {"fd", FD_NONE}
            /\ optional_failure' \in BOOLEAN /\ is_closed' \in BOOLEAN /\ pc' = "ready"
        BY <3>3 DEF SysCloseFails, TypeOK
      <4> HIDE DEF Err, StoreFailure, Closed
      <4> QED
        BY <2>1, <3>3, <4>1, <4>2 DEF SysCloseFails, TypeOK, BufferSound, Sound
    <3> QED
      BY <1>3, <3>1, <3>2, <3>3
  <2>3. Control' /\ Accounting'
    <3>1. CASE CloseBuffer
      BY <1>1, <2>1, <3>1 DEF CloseBuffer, TypeOK, Control, Accounting
    <3>2. CASE SysCloseSucceeds
      BY <1>1, <2>1, <3>2 DEF SysCloseSucceeds, TypeOK, Control, Accounting
    <3>3. CASE SysCloseFails
      BY <1>1, <2>1, <3>3 DEF SysCloseFails, TypeOK, Control, Accounting
    <3> QED
      BY <1>3, <3>1, <3>2, <3>3
  <2> QED
    BY <2>2, <2>3
<1> QED
  BY <1>3, <1>4, <1>5, <1>6 DEF Close, SysClose

LEMMA ClientStep == ASSUME IInv, Client PROVE IInv'
<1> USE DEF IInv
<1>1. /\ Cardinality(owned) \in Nat /\ Cardinality(owned \cap {"data"}) \in Nat
      /\ Cardinality(owned \ {"data"}) \in Nat
      /\ Cardinality(owned) = Cardinality(owned \ {"data"}) + Cardinality(owned \cap {"data"})
  BY OwnedParts DEF TypeOK
<1>2. ASSUME NEW operation \in {"getc", "flush", "close"}, Call(operation, None) PROVE IInv'
  BY <1>1, <1>2 DEF Call, TypeOK, BufferSound, Control, Accounting
<1>3. ASSUME NEW c \in Byte, Call("putc", c) PROVE IInv'
  <2>1. /\ pc = "ready" /\ pc' = "putc" /\ op' = "putc" /\ arg' = c
        /\ result' = Ok(None) /\ active_allocs' = active_allocs - HeldBy(result)
        /\ UNCHANGED <<buffer, is_closed, structVars, fileVars, osVars, historyVars>>
    BY <1>3 DEF Call
  <2> QED
    BY <1>1, <2>1 DEF TypeOK, BufferSound, Control, Accounting
<1>4. CASE BufferedStream_release
  <2>1. TypeOK' /\ BufferSound'
    <3>1. result' \in [is_err : BOOLEAN, value : Byte \cup {None}, heap : BOOLEAN]
      BY <1>4, ResultTypes DEF BufferedStream_release, TypeOK
    <3>2. active_allocs' \in Nat
      BY <1>1, <1>4 DEF BufferedStream_release, TypeOK, Accounting
    <3>3. owned' \in SUBSET {"data", "name"} /\ pc' \in {"released", "aborted"}
      BY <1>4 DEF BufferedStream_release, TypeOK
    <3> HIDE DEF Ok
    <3> QED
      BY <1>4, <3>1, <3>2, <3>3 DEF BufferedStream_release, TypeOK, BufferSound
  <2>2. Control'
    BY <1>4 DEF BufferedStream_release, TypeOK, Control
  <2>3. Accounting'
    BY <1>1, <1>4 DEF BufferedStream_release, Accounting
  <2> QED
    BY <2>1, <2>2, <2>3
<1> QED
  BY <1>2, <1>3, <1>4 DEF Client

\* What HandOver allocates, and Buffer_to_BufferedStream or FileStream build.
LEMMA HandOverCounted ==
  ASSUME NEW parts \in SUBSET {"data", "name"}, HandOver(parts), active_allocs \in Nat
  PROVE  /\ owned' \in SUBSET {"data", "name"} /\ Cardinality(owned') \in Nat
         /\ active_allocs' = active_allocs + Cardinality(owned') /\ active_allocs' \in Nat
<1>1. Cardinality(parts) \in Nat
  BY OwnedParts
<1>2. owned' = parts /\ active_allocs' = active_allocs + Cardinality(parts)
  BY DEF HandOver
<1> QED
  BY <1>1, <1>2

LEMMA FileStreamStep ==
  ASSUME IInv, NEW dir \in Directions, NEW nameOwned \in NameOwned,
         FileStream(dir, nameOwned)
  PROVE  IInv'
<1> USE DEF IInv
<1>1. Sound(buffer') /\ buffer'.size > 0
  BY BufferSizeAssumption DEF FileStream, Buffer_from_buf, Sound, Buffer_assert
<1>2. /\ owned' \in SUBSET {"data", "name"} /\ Cardinality(owned') \in Nat
      /\ active_allocs' = active_allocs + Cardinality(owned') /\ active_allocs' \in Nat
  BY HandOverCounted DEF FileStream, Name, TypeOK
<1>3. direction' \in SUBSET STREAM_INOUT
  BY ChoiceAssumption DEF FileStream, STREAM_IN, STREAM_OUT, STREAM_INOUT
<1>4. TypeOK' /\ BufferSound'
  BY <1>1, <1>2, <1>3 DEF FileStream, TypeOK, BufferSound, Sound
<1>5. Control' /\ Accounting'
  BY <1>1, <1>2 DEF FileStream, TypeOK, Control, Accounting
<1> QED
  BY <1>4, <1>5

LEMMA BufferStreamStep ==
  ASSUME IInv, NEW dir \in Directions, NEW nameOwned \in NameOwned,
         NEW n \in 0 .. MaxInput[dir], NEW full \in BOOLEAN, NEW dataOwned \in BOOLEAN,
         NEW array \in [1 .. n -> Byte],
         Buffer_to_BufferedStream(dir, array, full, dataOwned, nameOwned)
  PROVE  IInv'
<1> USE DEF IInv
<1>1. n \in Nat /\ array \in Seq(Byte) /\ Len(array) = n
  BY BoundAssumption
<1> DEFINE data == [k \in 0 .. n - 1 |-> IF full THEN array[k + 1] ELSE Uninit]
<1>2. data \in [0 .. n - 1 -> Byte \cup {Uninit}]
      /\ (full => \A k \in 0 .. n - 1 : data[k] \in Byte)
  BY <1>1
<1>3. buffer' = IF full THEN Buffer_from_array(data, n) ELSE Buffer_from_buf(data, n)
  BY <1>1 DEF Buffer_to_BufferedStream
<1> HIDE DEF data
<1>4. Sound(buffer')
  BY <1>1, <1>2, <1>3 DEF Buffer_from_array, Buffer_from_buf, Sound, Buffer_assert
<1>5. /\ owned' \in SUBSET {"data", "name"} /\ Cardinality(owned') \in Nat
      /\ active_allocs' = active_allocs + Cardinality(owned') /\ active_allocs' \in Nat
  BY HandOverCounted DEF Buffer_to_BufferedStream, Name, TypeOK
<1>6. direction' \in SUBSET STREAM_INOUT
  BY ChoiceAssumption DEF Buffer_to_BufferedStream, STREAM_IN, STREAM_OUT, STREAM_INOUT
<1>7. input' \in Seq(Byte) /\ offset' \in 0 .. Len(input')
  BY <1>1 DEF Buffer_to_BufferedStream
<1>8. TypeOK' /\ BufferSound'
  BY <1>4, <1>5, <1>6, <1>7 DEF Buffer_to_BufferedStream, TypeOK, BufferSound, Sound
<1>9. Control' /\ Accounting'
  BY <1>5 DEF Buffer_to_BufferedStream, TypeOK, Control, Accounting
<1> QED
  BY <1>8, <1>9

LEMMA OpenFailsStep ==
  ASSUME IInv, NEW dir, NEW nameOwned, open_BufferedStream(dir, nameOwned),
         ~FileStream(dir, nameOwned)
  PROVE  IInv'
<1> USE DEF IInv
<1>1. /\ pc' = "released" /\ result' = Err(TRUE) /\ active_allocs' = active_allocs + 1
      /\ UNCHANGED <<buffer, is_closed, structVars, fileVars, osVars, op, arg, historyVars>>
  BY DEF open_BufferedStream, HeldBy, Err
<1>2. result' \in [is_err : BOOLEAN, value : Byte \cup {None}, heap : BOOLEAN]
  BY <1>1, ResultTypes
<1>3. TypeOK' /\ BufferSound'
  BY <1>1, <1>2 DEF TypeOK, BufferSound
<1>4. Control' /\ Accounting'
  BY <1>1 DEF TypeOK, Control, Accounting
<1> QED
  BY <1>3, <1>4

LEMMA ConstructorStep == ASSUME IInv, Constructor PROVE IInv'
BY FileStreamStep, BufferStreamStep, OpenFailsStep
   DEF Constructor, fd_BufferedStream, open_BufferedStream

LEMMA FileGrowsStep == ASSUME IInv, NEW b \in Byte, FileGrows(b) PROVE IInv'
<1>1. input' \in Seq(Byte) /\ offset' \in 0 .. Len(input')
  BY DEF FileGrows, IInv, TypeOK
<1>2. TypeOK'
  BY <1>1 DEF FileGrows, IInv, TypeOK
<1>3. BufferSound'
  BY DEF FileGrows, IInv, BufferSound
<1>4. Control' /\ Accounting'
  BY DEF FileGrows, IInv, Control, Accounting
<1> QED
  BY <1>2, <1>3, <1>4 DEF IInv

LEMMA StutterStep == ASSUME IInv, UNCHANGED vars PROVE IInv'
BY DEF IInv, TypeOK, BufferSound, Control, Accounting

LEMMA NextIInv == IInv /\ [Next]_vars => IInv'
<1> SUFFICES ASSUME IInv, [Next]_vars PROVE IInv'
  OBVIOUS
<1>1. CASE Constructor
  BY <1>1, ConstructorStep
<1>2. CASE Client
  BY <1>2, ClientStep
<1>3. CASE Progress
  BY <1>3, GetcStep, ReadStep, PutcStep, FlushStep, WriteStep, CloseStep DEF Progress
<1>4. CASE SysCloseInterrupted
  BY <1>4, CloseStep
<1>5. ASSUME NEW b \in Byte, FileGrows(b) PROVE IInv'
  BY <1>5, FileGrowsStep
<1>6. CASE Interrupted \/ Finished \/ UNCHANGED vars
  BY <1>6, StutterStep DEF Interrupted, Finished
<1> QED
  BY <1>1, <1>2, <1>3, <1>4, <1>5, <1>6 DEF Next

LEMMA IInvImplies == IInv => TypeOK /\ BufferSound /\ AssertsHold
BY DEF IInv, Control, AssertsHold, OpenFile, TypeOK, FD_NONE

THEOREM Invariance == Spec => []IInv
BY InitIInv, NextIInv, PTL DEF Spec

\* Every variable keeps its type; the balance of the allocations never falls
\* below zero, so that nothing is freed twice.
THEOREM TypeCorrect == Spec => []TypeOK
BY Invariance, IInvImplies, PTL

LEMMA FdIsNotStaleStep == FdIsNotStale /\ [Next]_vars => FdIsNotStale'
<1> SUFFICES ASSUME FdIsNotStale, [Next]_vars PROVE FdIsNotStale'
  OBVIOUS
<1> USE DEF FdIsNotStale
<1>1. CASE Constructor
  <2>1. ASSUME NEW dir, NEW nameOwned, FileStream(dir, nameOwned) PROVE FdIsNotStale'
    BY <2>1 DEF FileStream
  <2>2. ASSUME NEW dir, NEW nameOwned, open_BufferedStream(dir, nameOwned)
        PROVE  FdIsNotStale'
    BY <2>1, <2>2 DEF open_BufferedStream
  <2>3. ASSUME NEW dir, NEW array, NEW full, NEW dataOwned, NEW nameOwned,
               Buffer_to_BufferedStream(dir, array, full, dataOwned, nameOwned)
        PROVE  FdIsNotStale'
    BY <2>3 DEF Buffer_to_BufferedStream
  <2> QED
    BY <1>1, <2>1, <2>2, <2>3 DEF Constructor, fd_BufferedStream
<1>2. CASE Client
  BY <1>2 DEF Client, Call, BufferedStream_release
<1>3. CASE Getc \/ Read
  BY <1>3 DEF Getc, GetcRefused, GetcByte, GetcEnd, GetcFailed, GetcRefill, Read,
     ReadBytes, ReadEOF, ReadFails
<1>4. CASE Putc \/ Flush
  BY <1>4 DEF Putc, PutcRefused, PutcByte, PutcNoSpace, PutcFlush, Flush, FlushNothing,
     FlushFile
<1>5. CASE Write
  BY <1>5 DEF Write, WriteAll, WritePart, WriteFails
<1>6. CASE Close
  BY <1>6 DEF Close, CloseRefused, CloseBuffer, CloseFile
<1>7. CASE SysClose \/ SysCloseInterrupted
  BY <1>7 DEF SysClose, SysCloseSucceeds, SysCloseFails, SysCloseInterrupted
<1>8. ASSUME NEW b \in Byte, FileGrows(b) PROVE FdIsNotStale'
  BY <1>8 DEF FileGrows
<1>9. CASE Interrupted \/ Finished \/ UNCHANGED vars
  BY <1>9 DEF Interrupted, Finished
<1> QED
  BY <1>1, <1>2, <1>3, <1>4, <1>5, <1>6, <1>7, <1>8, <1>9 DEF Next, Progress

\* An fd is remembered for as long as it refers to the stream's file, through
\* every failure and every interrupted close().
THEOREM FdStaysFresh == Spec => []FdIsNotStale
<1>1. Init => FdIsNotStale
  BY DEF Init, FdIsNotStale
<1> QED
  BY <1>1, FdIsNotStaleStep, PTL DEF Spec

\* Whatever the client calls and the system answers, the positions of the
\* buffer stay in order and within its memory, and no byte is handed out or
\* written that was not put into the buffer.
THEOREM BufferStaysSound == Spec => []BufferSound
BY Invariance, IInvImplies, PTL

\* No assertion about the stream fails in front of a system call.
THEOREM NoAssertionFails == Spec => []AssertsHold
BY Invariance, IInvImplies, PTL

-----------------------------------------------------------------------------
(* What a released stream leaves behind *)

\* A closed stream has no open file, nor has one without a file.
FdClosed ==
  /\ is_closed \/ stream_type = BUFFERSTREAM \/ pc \in {"none", "released"} => ~fd_open
  /\ pc = "none" => op = "open"
  /\ pc \in {"getc", "read"} => op = "getc"

\* A close that has returned and left the stream open has met a failure.
CloseFailsOnce ==
  /\ pc = "ready" /\ op = "close" /\ ~is_closed => optional_failure
  /\ pc = "aborted" => optional_failure \/ buffer.size = 0

\* As long as no failure was stored over another one, there are as many
\* allocations as results, failures and parts of the stream that hold one; of
\* a released stream's own parts only the name is left.
Balance ==
  /\ pc = "released" => owned \subseteq {"name"}
  /\ failures = 0 => ~optional_failure
  /\ failures <= 1 =>
       active_allocs = HeldBy(result) + Cardinality(owned)
                       + (IF pc = "released" THEN 0 ELSE StoredFailure)

ReleaseInv == FdClosed /\ CloseFailsOnce /\ Balance

LEMMA Numbers ==
  IInv => Cardinality(owned) \in Nat /\ active_allocs \in Nat /\ failures \in Nat
BY OwnedParts DEF IInv, TypeOK

LEMMA GetcReleases == ASSUME IInv, ReleaseInv, Getc \/ Read PROVE ReleaseInv'
<1> USE Numbers DEF IInv, Control, ReleaseInv, FdClosed, CloseFailsOnce, Balance
<1>1. CASE GetcRefused \/ GetcEnd \/ GetcRefill
  BY <1>1 DEF GetcRefused, GetcEnd, GetcRefill
<1>2. CASE GetcByte
  BY <1>2 DEF GetcByte
<1>3. CASE GetcFailed
  BY <1>3 DEF GetcFailed
<1>4. CASE ReadEOF \/ \E n \in 1 .. buffer.size : ReadBytes(n)
  BY <1>4 DEF ReadEOF, ReadBytes
<1>5. CASE ReadFails
  BY <1>5 DEF ReadFails
<1> QED
  BY <1>1, <1>2, <1>3, <1>4, <1>5 DEF Getc, Read

LEMMA PutcReleases == ASSUME IInv, ReleaseInv, Putc PROVE ReleaseInv'
BY Numbers DEF Putc, PutcRefused, PutcByte, PutcNoSpace, PutcFlush, IInv, Control,
   ReleaseInv, FdClosed, CloseFailsOnce, Balance

\* A flush that returns to the client who called close has failed.
LEMMA FlushReleases == ASSUME IInv, ReleaseInv, Flush \/ Write PROVE ReleaseInv'
<1> USE Numbers DEF IInv, Control, ReleaseInv, FdClosed, CloseFailsOnce, Balance
<1>1. CASE FlushNothing
  <2>1. op = "flush"
    BY <1>1 DEF FlushNothing
  <2> QED
    BY <1>1, <2>1 DEF FlushNothing
<1>2. CASE FlushFile
  BY <1>2 DEF FlushFile
<1>3. CASE WriteAll
  BY <1>3 DEF WriteAll
<1>4. CASE \E n \in 1 .. buffer.size : WritePart(n)
  BY <1>4 DEF WritePart
<1>5. CASE WriteFails
  BY <1>5 DEF WriteFails
<1> QED
  BY <1>1, <1>2, <1>3, <1>4, <1>5 DEF Flush, Write

LEMMA CloseReleases ==
  ASSUME IInv, ReleaseInv, Close \/ SysClose \/ SysCloseInterrupted
  PROVE  ReleaseInv'
<1> USE Numbers DEF IInv, Control, ReleaseInv, FdClosed, CloseFailsOnce, Balance
<1>1. CASE CloseRefused \/ CloseBuffer \/ CloseFile
  BY <1>1 DEF CloseRefused, CloseBuffer, CloseFile
<1>2. CASE SysCloseSucceeds \/ SysCloseInterrupted
  BY <1>2 DEF SysCloseSucceeds, SysCloseInterrupted
<1>3. CASE SysCloseFails
  BY <1>3 DEF SysCloseFails
<1> QED
  BY <1>1, <1>2, <1>3 DEF Close, SysClose

LEMMA ClientReleases == ASSUME IInv, ReleaseInv, Client PROVE ReleaseInv'
<1> USE Numbers DEF IInv, Control, ReleaseInv, FdClosed, CloseFailsOnce, Balance
<1>1. ASSUME NEW operation \in {"getc", "putc", "flush", "close"}, NEW c, Call(operation, c)
      PROVE  ReleaseInv'
  BY <1>1 DEF Call
<1>2. CASE BufferedStream_release /\ is_closed
  <2>1. Cardinality(owned) = Cardinality(owned \ {"data"}) + Cardinality(owned \cap {"data"})
        /\ Cardinality(owned \ {"data"}) \in Nat /\ Cardinality(owned \cap {"data"}) \in Nat
    BY OwnedParts DEF TypeOK
  <2>2. FdClosed' /\ CloseFailsOnce'
    BY <1>2 DEF BufferedStream_release
  <2>3. /\ ~result'.heap /\ Cardinality(owned') = Cardinality(owned \ {"data"})
        /\ active_allocs' = active_allocs - HeldBy(result)
                            - Cardinality(owned \cap {"data"}) - StoredFailure
        /\ pc = "ready" /\ pc' = "released" /\ UNCHANGED <<failures, optional_failure>>
    BY <1>2 DEF BufferedStream_release
  <2>4. owned' \subseteq {"name"}
    BY <1>2 DEF BufferedStream_release, TypeOK
  <2> QED
    BY <2>1, <2>2, <2>3, <2>4
<1>3. CASE BufferedStream_release /\ ~is_closed
  BY <1>3 DEF BufferedStream_release
<1> QED
  BY <1>1, <1>2, <1>3 DEF Client

LEMMA ConstructorReleases == ASSUME IInv, ReleaseInv, Constructor PROVE ReleaseInv'
<1> pc = "none" /\ IInv => Cardinality(owned) = 0
  BY FS_EmptySet DEF IInv, Control
<1> USE Numbers DEF IInv, Control, ReleaseInv, FdClosed, CloseFailsOnce, Balance
<1>1. ASSUME NEW dir, NEW nameOwned \in NameOwned, FileStream(dir, nameOwned) PROVE ReleaseInv'
  <2>1. active_allocs' = active_allocs + Cardinality(owned') /\ Cardinality(owned') \in Nat
    BY <1>1, HandOverCounted DEF FileStream, Name
  <2> QED
    BY <1>1, <2>1 DEF FileStream
<1>2. ASSUME NEW dir \in Directions, NEW nameOwned \in NameOwned, NEW n \in 0 .. MaxInput[dir],
             NEW full \in BOOLEAN, NEW dataOwned \in BOOLEAN, NEW array \in [1 .. n -> Byte],
             Buffer_to_BufferedStream(dir, array, full, dataOwned, nameOwned)
      PROVE  ReleaseInv'
  <2>1. active_allocs' = active_allocs + Cardinality(owned') /\ Cardinality(owned') \in Nat
    BY <1>2, HandOverCounted DEF Buffer_to_BufferedStream, Name
  <2>2. buffer'.size = Len(array)
    BY <1>2 DEF Buffer_to_BufferedStream, Buffer_from_array, Buffer_from_buf
  <2> QED
    BY <1>2, <2>1, <2>2 DEF Buffer_to_BufferedStream
<1>3. ASSUME NEW dir, NEW nameOwned, open_BufferedStream(dir, nameOwned),
             ~FileStream(dir, nameOwned)
      PROVE  ReleaseInv'
  BY <1>3 DEF open_BufferedStream
<1> QED
  BY <1>1, <1>2, <1>3 DEF Constructor, fd_BufferedStream, open_BufferedStream

LEMMA NextReleaseInv == IInv /\ ReleaseInv /\ [Next]_vars => ReleaseInv'
<1> SUFFICES ASSUME IInv, ReleaseInv, [Next]_vars PROVE ReleaseInv'
  OBVIOUS
<1>1. CASE Constructor
  BY <1>1, ConstructorReleases
<1>2. CASE Client
  BY <1>2, ClientReleases
<1>3. CASE Progress
  BY <1>3, GetcReleases, PutcReleases, FlushReleases, CloseReleases DEF Progress
<1>4. CASE SysCloseInterrupted
  BY <1>4, CloseReleases
<1>5. ASSUME NEW b \in Byte, FileGrows(b) PROVE ReleaseInv'
  BY <1>5 DEF FileGrows, ReleaseInv, FdClosed, CloseFailsOnce, Balance
<1>6. CASE Interrupted \/ Finished \/ UNCHANGED vars
  BY <1>6 DEF Interrupted, Finished, ReleaseInv, FdClosed, CloseFailsOnce, Balance
<1> QED
  BY <1>1, <1>2, <1>3, <1>4, <1>5, <1>6 DEF Next

THEOREM ReleaseInvariance == Spec => [](IInv /\ ReleaseInv)
<1>1. Init => ReleaseInv
  BY FS_EmptySet DEF Init, ReleaseInv, FdClosed, CloseFailsOnce, Balance
<1> QED
  BY <1>1, NextReleaseInv, InitIInv, NextIInv, PTL DEF Spec

\* A stream that was released has left no file open, and its assertion fails
\* only after a flush that failed.
THEOREM ReleasesAreClean == Spec => []ReleaseIsClean
<1>1. ReleaseInv => ReleaseIsClean
  BY DEF ReleaseInv, FdClosed, CloseFailsOnce, ReleaseIsClean
<1> QED
  BY <1>1, ReleaseInvariance, PTL

\* With at most one failure of the system in the life of a stream whose name is
\* a literal or borrowed, all that was allocated for it was freed at its release,
\* but the string of a result that the client holds.
THEOREM AllocsBalance == Spec => []BalancedAllocs
<1>1. IInv /\ ReleaseInv => BalancedAllocs
  <2> SUFFICES ASSUME IInv, ReleaseInv, pc = "released", failures <= 1, "name" \notin owned
               PROVE  active_allocs = HeldBy(result)
    BY DEF BalancedAllocs
  <2>1. owned = {}
    BY DEF ReleaseInv, Balance
  <2>2. Cardinality(owned) = 0
    BY <2>1, FS_EmptySet
  <2> QED
    BY <2>2, Numbers DEF ReleaseInv, Balance, IInv, TypeOK
<1> QED
  BY <1>1, ReleaseInvariance, PTL

-----------------------------------------------------------------------------
(* What is read *)

\* What of the input is in the buffer, by the places of the memory.
Buffered ==
  \A k \in Nat : buffer.startpos <= k /\ k < buffer.endpos
     => buffer.data[k] = input[Len(got) + (k - buffer.startpos) + 1]

\* ReadInOrder of a stream that is not closed, and of one that is.
InOrder ==
  /\ Len(got) <= offset
  /\ \A k \in 1 .. Len(got) : got[k] = input[k]
  /\ ~is_closed => Len(got) + (buffer.endpos - buffer.startpos) = offset /\ Buffered

ReadInv ==
  /\ pc = "none" => got = <<>> /\ offset = 0 /\ input = <<>> /\ ~fd_open
  /\ pc \in {"flush", "write"} => "OUT" \in direction
  /\ pc = "read" => LSlice_is_empty(buffer)
  /\ direction = STREAM_IN => InOrder

LEMMA InOrderIsReadInOrder ==
  ASSUME TypeOK, BufferSound
  PROVE  ReadInOrder <=> (direction = STREAM_IN => InOrder)
<1> USE DEF TypeOK, BufferSound, Buffer_assert
<1>1. LSlice_length(buffer) \in Nat /\ LSlice_length(buffer) = buffer.endpos - buffer.startpos
  BY DEF LSlice_length
<1>2. ASSUME Len(got) <= offset, Len(got) + LSlice_length(buffer) = offset
      PROVE  Buffered <=> \A i \in 1 .. LSlice_length(buffer) :
                             Content(buffer)[i] = input[Len(got) + i]
  <2>1. \A i \in 1 .. LSlice_length(buffer) :
           Content(buffer)[i] = buffer.data[buffer.startpos + i - 1]
    BY DEF Content
  <2>2. ASSUME Buffered, NEW i \in 1 .. LSlice_length(buffer)
        PROVE  Content(buffer)[i] = input[Len(got) + i]
    <3> DEFINE k == buffer.startpos + i - 1
    <3>1. k \in Nat /\ buffer.startpos <= k /\ k < buffer.endpos
      BY <1>1, <2>2
    <3>2. Len(got) + (k - buffer.startpos) + 1 = Len(got) + i
      BY <2>2
    <3>3. buffer.data[k] = input[Len(got) + (k - buffer.startpos) + 1]
      BY <2>2, <3>1 DEF Buffered
    <3> QED
      BY <2>1, <2>2, <3>2, <3>3
  <2>3. ASSUME \A i \in 1 .. LSlice_length(buffer) : Content(buffer)[i] = input[Len(got) + i],
               NEW k \in Nat, buffer.startpos <= k, k < buffer.endpos
        PROVE  buffer.data[k] = input[Len(got) + (k - buffer.startpos) + 1]
    <3> DEFINE i == k - buffer.startpos + 1
    <3>1. i \in 1 .. LSlice_length(buffer) /\ buffer.startpos + i - 1 = k
      BY <1>1, <2>3
    <3> QED
      BY <2>1, <2>3, <3>1
  <2> QED
    BY <2>2, <2>3 DEF Buffered
<1> QED
  BY <1>1, <1>2 DEF ReadInOrder, InOrder

\* A step that leaves what is read, what was read and the buffer alone.
LEMMA ReadFrame ==
  ASSUME ReadInv, UNCHANGED <<got, offset, input, buffer, is_closed, direction>>,
         pc' # "none", pc' \in {"flush", "write"} => "OUT" \in direction,
         pc' = "read" => LSlice_is_empty(buffer)
  PROVE  ReadInv'
BY DEF ReadInv, InOrder, Buffered, LSlice_is_empty

LEMMA GetcKeepsOrder == ASSUME IInv, ReadInv, Getc PROVE ReadInv'
<1>1. CASE GetcRefused \/ GetcEnd \/ GetcFailed \/ GetcRefill
  BY <1>1, ReadFrame DEF GetcRefused, GetcEnd, GetcFailed, GetcRefill
<1>2. CASE GetcByte
  <2> USE DEF IInv, TypeOK, BufferSound, Buffer_assert
  <2> DEFINE b == buffer.data[buffer.startpos]
  <2>1. /\ buffer.startpos < buffer.endpos /\ ~is_closed /\ pc' = "ready"
        /\ got' = Append(got, b) /\ UNCHANGED <<offset, input, is_closed, direction>>
    BY <1>2 DEF GetcByte, LSlice_is_empty, LSlice_ref_start
  <2>2. buffer'.startpos = buffer.startpos + 1 /\ buffer'.endpos = buffer.endpos
        /\ buffer'.data = buffer.data
    BY <1>2 DEF GetcByte, Buffer_getc
  <2>3. b \in Byte /\ buffer.startpos \in Nat /\ Len(got) \in Nat
    BY <2>1
  <2>4. ASSUME direction = STREAM_IN PROVE InOrder'
    <3>1. b = input[Len(got) + 1]
      <4>1. Buffered /\ Len(got) + (buffer.startpos - buffer.startpos) + 1 = Len(got) + 1
        BY <2>1, <2>4 DEF ReadInv, InOrder
      <4>2. b = input[Len(got) + (buffer.startpos - buffer.startpos) + 1]
        <5> HIDE DEF IInv
        <5> QED
          BY <2>1, <2>3, <4>1 DEF Buffered
      <4> QED
        BY <4>1, <4>2
    <3>2. Len(got') = Len(got) + 1 /\ \A k \in 1 .. Len(got) : got'[k] = got[k]
          /\ got'[Len(got) + 1] = b
      BY <2>1, <2>3
    <3> HIDE DEF b
    <3>3. Len(got') <= offset' /\ \A k \in 1 .. Len(got') : got'[k] = input'[k]
      BY <2>1, <2>4, <3>1, <3>2 DEF ReadInv, InOrder
    <3>4. Len(got') + (buffer'.endpos - buffer'.startpos) = offset'
      BY <2>1, <2>2, <2>4, <3>2 DEF ReadInv, InOrder
    <3>5. Buffered'
      <4>1. Buffered
        BY <2>1, <2>4 DEF ReadInv, InOrder
      <4>2. ASSUME NEW k \in Nat, buffer.startpos + 1 <= k, k < buffer.endpos
            PROVE  buffer.data[k] = input[Len(got') + (k - (buffer.startpos + 1)) + 1]
        <5>1. Len(got') + (k - (buffer.startpos + 1)) + 1
                = Len(got) + (k - buffer.startpos) + 1
          <6>1. Len(got') = Len(got) + 1
            BY <3>2
          <6>2. \A g, p \in Nat : (g + 1) + (k - (p + 1)) + 1 = g + (k - p) + 1
            OBVIOUS
          <6> HIDE DEF IInv
          <6> QED
            BY <2>3, <6>1, <6>2
        <5>2. buffer.data[k] = input[Len(got) + (k - buffer.startpos) + 1]
          BY <4>1, <4>2 DEF Buffered
        <5> QED
          BY <5>1, <5>2
      <4> QED
        BY <2>1, <2>2, <4>2 DEF Buffered
    <3> QED
      BY <3>3, <3>4, <3>5 DEF InOrder
  <2> QED
    BY <2>1, <2>4 DEF ReadInv
<1> QED
  BY <1>1, <1>2 DEF Getc

LEMMA ReadKeepsOrder == ASSUME IInv, ReadInv, Read PROVE ReadInv'
<1>1. CASE ReadEOF \/ ReadFails
  BY <1>1, ReadFrame DEF ReadEOF, ReadFails
<1>2. ASSUME NEW n \in 1 .. buffer.size, ReadBytes(n) PROVE ReadInv'
  <2> USE DEF IInv, TypeOK, BufferSound, Buffer_assert
  <2>1. /\ pc = "read" /\ pc' = "getc" /\ n <= buffer.size /\ offset' = offset + n
        /\ n <= Len(input) - offset /\ n \in Nat
        /\ UNCHANGED <<got, input, is_closed, direction>>
    BY <1>2 DEF ReadBytes
  <2>2. buffer.startpos = buffer.endpos
    BY <2>1 DEF ReadInv, LSlice_is_empty
  <2> DEFINE d == [k \in DOMAIN buffer.data |-> IF k < n THEN input[offset + k + 1]
                                                         ELSE buffer.data[k]]
  <2>3. buffer' = [buffer EXCEPT !.startpos = 0, !.endpos = n, !.data = d]
    BY <1>2 DEF ReadBytes, Refilled
  <2>4. \A k \in 0 .. n - 1 : d[k] = input[offset + k + 1]
    BY <2>1
  <2> HIDE DEF d
  <2>5. buffer'.startpos = 0 /\ buffer'.endpos = n /\ buffer'.data = d
    BY <2>3
  <2>6. ASSUME direction = STREAM_IN, ~is_closed PROVE InOrder'
    <3>1. Len(got) = offset /\ \A k \in 1 .. Len(got) : got[k] = input[k]
      BY <2>2, <2>6 DEF ReadInv, InOrder
    <3>2. Buffered'
      BY <2>1, <2>4, <2>5, <3>1 DEF Buffered
    <3> QED
      BY <2>1, <2>5, <3>1, <3>2 DEF InOrder
  <2>7. ~is_closed
    BY <2>1 DEF Control
  <2> QED
    BY <2>1, <2>6, <2>7 DEF ReadInv
<1> QED
  BY <1>1, <1>2 DEF Read

LEMMA PutcKeepsOrder == ASSUME IInv, ReadInv, Putc PROVE ReadInv'
<1>1. CASE PutcRefused \/ PutcNoSpace \/ PutcFlush
  BY <1>1, ReadFrame DEF PutcRefused, PutcNoSpace, PutcFlush
<1>2. CASE PutcByte
  BY <1>2 DEF PutcByte, ReadInv, STREAM_IN
<1> QED
  BY <1>1, <1>2 DEF Putc

\* A stream that is flushed was opened for output.
LEMMA FlushKeepsOrder == ASSUME IInv, ReadInv, Flush \/ Write PROVE ReadInv'
<1>1. "OUT" \in direction /\ direction' = direction
  BY DEF Flush, FlushNothing, FlushFile, Write, WriteAll, WritePart, WriteFails, ReadInv
<1>2. pc' \in {"write", "ready", "putc", "sysclose"}
  BY DEF Flush, FlushNothing, FlushFile, Write, WriteAll, WritePart, WriteFails
<1> QED
  BY <1>1, <1>2 DEF ReadInv, STREAM_IN

LEMMA CloseKeepsOrder ==
  ASSUME IInv, ReadInv, Close \/ SysClose \/ SysCloseInterrupted
  PROVE  ReadInv'
<1>1. CASE CloseRefused \/ CloseFile \/ SysCloseInterrupted
  BY <1>1, ReadFrame DEF CloseRefused, CloseFile, SysCloseInterrupted
<1>2. CASE CloseBuffer \/ SysCloseSucceeds \/ SysCloseFails
  <2>1. is_closed' /\ pc' = "ready" /\ UNCHANGED <<got, offset, input, direction>>
    BY <1>2 DEF CloseBuffer, SysCloseSucceeds, SysCloseFails
  <2> QED
    BY <2>1 DEF ReadInv, InOrder
<1> QED
  BY <1>1, <1>2 DEF Close, SysClose

LEMMA ConstructorOrder == ASSUME IInv, ReadInv, Constructor PROVE ReadInv'
<1>1. ASSUME NEW dir, NEW nameOwned, FileStream(dir, nameOwned) PROVE ReadInv'
  <2>1. /\ buffer'.startpos = 0 /\ buffer'.endpos = 0 /\ got' = <<>> /\ offset' = 0
        /\ pc' = "ready"
    BY <1>1 DEF FileStream, ReadInv, Buffer_from_buf
  <2> QED
    BY <2>1 DEF ReadInv, InOrder, Buffered
<1>2. ASSUME NEW dir \in Directions, NEW nameOwned, NEW n \in 0 .. MaxInput[dir],
             NEW full \in BOOLEAN, NEW dataOwned, NEW array \in [1 .. n -> Byte],
             Buffer_to_BufferedStream(dir, array, full, dataOwned, nameOwned)
      PROVE  ReadInv'
  <2>1. n \in Nat /\ array \in Seq(Byte) /\ Len(array) = n
    BY BoundAssumption
  <2> DEFINE data == [k \in 0 .. n - 1 |-> IF full THEN array[k + 1] ELSE Uninit]
  <2>2. buffer' = IF full THEN Buffer_from_array(data, n) ELSE Buffer_from_buf(data, n)
    BY <1>2, <2>1 DEF Buffer_to_BufferedStream
  <2>3. pc' \in {"ready", "aborted"} /\ got' = <<>> /\ ~is_closed'
        /\ input' = (IF full THEN array ELSE <<>>) /\ offset' = Len(input')
    BY <1>2 DEF Buffer_to_BufferedStream, ReadInv, IInv, Control
  <2>4. CASE full
    <3>1. buffer'.startpos = 0 /\ buffer'.endpos = n /\ buffer'.data = data
      BY <2>2, <2>4 DEF Buffer_from_array
    <3>2. \A k \in 0 .. n - 1 : data[k] = array[k + 1]
      BY <2>4
    <3> HIDE DEF data
    <3>3. Buffered'
      BY <2>1, <2>3, <2>4, <3>1, <3>2 DEF Buffered
    <3> QED
      BY <2>1, <2>3, <2>4, <3>1, <3>3 DEF ReadInv, InOrder
  <2>5. CASE ~full
    <3>1. buffer'.startpos = 0 /\ buffer'.endpos = 0
      BY <2>2, <2>5 DEF Buffer_from_buf
    <3> QED
      BY <2>3, <2>5, <3>1 DEF ReadInv, InOrder, Buffered
  <2> QED
    BY <2>4, <2>5
<1>3. ASSUME NEW dir, NEW nameOwned, open_BufferedStream(dir, nameOwned),
             ~FileStream(dir, nameOwned)
      PROVE  ReadInv'
  <2>1. pc' = "released" /\ UNCHANGED <<got, offset, input, buffer, is_closed, direction>>
    BY <1>3 DEF open_BufferedStream
  <2> QED
    BY <2>1, ReadFrame
<1> QED
  BY <1>1, <1>2, <1>3 DEF Constructor, fd_BufferedStream, open_BufferedStream

LEMMA FileGrowsOrder == ASSUME IInv, ReadInv, NEW b \in Byte, FileGrows(b) PROVE ReadInv'
<1> USE DEF IInv, TypeOK, BufferSound, Buffer_assert
<1>1. /\ input' = Append(input, b)
      /\ UNCHANGED <<got, offset, buffer, is_closed, direction, pc>>
  BY DEF FileGrows
<1>2. \A k \in 1 .. Len(input) : input'[k] = input[k]
  BY <1>1
<1>3. ASSUME direction = STREAM_IN PROVE InOrder'
  <2>1. InOrder
    BY <1>3 DEF ReadInv
  <2>2. \A k \in 1 .. Len(got) : got'[k] = input'[k]
    BY <1>1, <1>2, <2>1 DEF InOrder
  <2>3. ~is_closed => Buffered'
    BY <1>1, <1>2, <2>1 DEF InOrder, Buffered
  <2> QED
    BY <1>1, <2>1, <2>2, <2>3 DEF InOrder
<1>4. pc # "none"
  BY DEF FileGrows, ReadInv
<1> QED
  BY <1>1, <1>3, <1>4 DEF ReadInv, LSlice_is_empty

LEMMA NextReadInv == IInv /\ ReadInv /\ [Next]_vars => ReadInv'
<1> SUFFICES ASSUME IInv, ReadInv, [Next]_vars PROVE ReadInv'
  OBVIOUS
<1>1. CASE Constructor
  BY <1>1, ConstructorOrder
<1>2. CASE Client
  <2>1. /\ pc' # "none" /\ (pc' = "flush" => "OUT" \in direction)
        /\ pc' \notin {"read", "write"}
        /\ UNCHANGED <<got, offset, input, buffer, is_closed, direction>>
    BY <1>2 DEF Client, Call, BufferedStream_release
  <2> QED
    BY <2>1, ReadFrame
<1>3. CASE Progress
  BY <1>3, GetcKeepsOrder, ReadKeepsOrder, PutcKeepsOrder, FlushKeepsOrder,
     CloseKeepsOrder DEF Progress
<1>4. CASE SysCloseInterrupted
  BY <1>4, CloseKeepsOrder
<1>5. ASSUME NEW b \in Byte, FileGrows(b) PROVE ReadInv'
  BY <1>5, FileGrowsOrder
<1>6. CASE Interrupted \/ Finished \/ UNCHANGED vars
  BY <1>6 DEF Interrupted, Finished, ReadInv, InOrder, Buffered, LSlice_is_empty
<1> QED
  BY <1>1, <1>2, <1>3, <1>4, <1>5, <1>6 DEF Next

\* An input stream returns the bytes of its file in their order, none lost and
\* none twice, for every size of the buffer and however the reads are cut.
THEOREM ReadsInOrder == Spec => []ReadInOrder
<1>1. Init => ReadInv
  BY DEF Init, ReadInv, STREAM_IN
<1>2. IInv /\ ReadInv => ReadInOrder
  BY InOrderIsReadInOrder DEF IInv, ReadInv
<1> QED
  BY <1>1, <1>2, NextReadInv, Invariance, PTL DEF Spec

-----------------------------------------------------------------------------
(* What is written *)

\* The streams and the time that WriteInOrder speaks of.
Puts == direction = STREAM_OUT /\ stream_type = FILESTREAM /\ ~optional_failure

\* Where in the memory the bytes start that no write has taken.
First == IF pc = "write" THEN buffer.startpos ELSE 0

OutOrder ==
  /\ Len(output) + (buffer.endpos - First) = Len(accepted)
  /\ \A k \in 1 .. Len(output) : output[k] = accepted[k]
  /\ \A k \in Nat : First <= k /\ k < buffer.endpos
       => buffer.data[k] = accepted[Len(output) + (k - First) + 1]

\* A flush has just returned an Ok, to the client or to close.
Flushed ==
  \/ pc = "sysclose"
  \/ pc = "ready" /\ op \in {"flush", "close"} /\ ~result.is_err

WriteInv ==
  /\ pc = "none" => direction = {} /\ output = <<>> /\ accepted = <<>>
  /\ pc = "read" => "IN" \in direction
  /\ Puts => OutOrder
  /\ Puts /\ pc # "write" => buffer.startpos = buffer.endpos
  /\ Puts /\ Flushed => buffer.endpos = 0

-----------------------------------------------------------------------------

LEMMA SameElements ==
  ASSUME NEW S, NEW s \in Seq(S), NEW t \in Seq(S), Len(s) = Len(t),
         \A k \in 1 .. Len(s) : s[k] = t[k]
  PROVE  s = t
BY SeqEqual

\* WriteInv in the words of the properties.
LEMMA WriteInvImplies ==
  ASSUME IInv, WriteInv PROVE WriteInOrder /\ OkMeansWritten
<1> USE DEF IInv, TypeOK, BufferSound, Buffer_assert, WriteInv
<1>1. ASSUME Puts PROVE output \o Pending = accepted
  <2> DEFINE b == IF pc = "write" THEN buffer ELSE [buffer EXCEPT !.startpos = 0]
             n == buffer.endpos - First
  <2>1. b.startpos = First /\ b.endpos = buffer.endpos /\ b.data = buffer.data
    BY DEF First
  <2>2. n \in Nat /\ First \in Nat /\ LSlice_length(b) = n
    BY <2>1 DEF First, LSlice_length
  <2>3. Sound(b)
    BY SoundBuffer, RewindIsSound
  <2>4. Pending \in Seq(Byte) /\ Len(Pending) = n
    BY <2>2, <2>3, ContentIsBytes DEF Pending
  <2>5. \A i \in 1 .. n : Pending[i] = accepted[Len(output) + i]
    <3>1. TAKE i \in 1 .. n
    <3>2. Pending[i] = buffer.data[First + i - 1]
      BY <2>1, <2>2 DEF Pending, Content
    <3>3. First + i - 1 \in Nat /\ First <= First + i - 1 /\ First + i - 1 < buffer.endpos
          /\ Len(output) + ((First + i - 1) - First) + 1 = Len(output) + i
      BY <2>2
    <3> QED
      BY <1>1, <3>2, <3>3 DEF OutOrder
  <2> HIDE DEF b
  <2>6. \A k \in 1 .. Len(accepted) : (output \o Pending)[k] = accepted[k]
    <3>1. TAKE k \in 1 .. Len(accepted)
    <3>2. CASE k <= Len(output)
      BY <1>1, <2>4, <3>2 DEF OutOrder
    <3>3. CASE k > Len(output)
      <4>1. k - Len(output) \in 1 .. n /\ Len(output) + (k - Len(output)) = k
        BY <1>1, <2>2, <3>3 DEF OutOrder
      <4>2. (output \o Pending)[k] = Pending[k - Len(output)]
        BY <2>4, <3>3, <4>1
      <4> QED
        BY <2>5, <4>1, <4>2
    <3>4. k \in Nat /\ Len(output) \in Nat
      OBVIOUS
    <3>5. k <= Len(output) \/ k > Len(output)
      BY <3>4
    <3> HIDE DEF IInv
    <3> QED
      BY <3>2, <3>3, <3>5
  <2>7. output \o Pending \in Seq(Byte) /\ Len(output \o Pending) = Len(accepted)
    BY <1>1, <2>2, <2>4 DEF OutOrder
  <2> QED
    BY <2>6, <2>7, SameElements
<1>2. ASSUME Puts, Flushed PROVE output = accepted
  <2>1. buffer.endpos = 0 /\ First = 0
    BY <1>2 DEF Flushed, First
  <2> QED
    BY <1>2, <2>1, SameElements DEF OutOrder
<1> QED
  BY <1>1, <1>2 DEF WriteInOrder, OkMeansWritten, Puts, Flushed

\* A step that writes nothing, takes nothing and leaves the buffer alone.
LEMMA WriteFrame ==
  ASSUME WriteInv, UNCHANGED <<output, accepted, buffer, direction, stream_type>>,
         optional_failure => optional_failure', pc # "none",
         pc' # "none", pc' = "read" => "IN" \in direction,
         (pc = "write") = (pc' = "write"), Puts /\ Flushed' => buffer.endpos = 0
  PROVE  WriteInv'
BY DEF WriteInv, Puts, OutOrder, First

\* An input stream, and one on memory, is none that Puts speaks of.
LEMMA GetcWrites == ASSUME IInv, WriteInv, Getc \/ Read PROVE WriteInv'
<1>1. CASE Getc /\ "IN" \notin direction
  BY <1>1, WriteFrame DEF Getc, GetcRefused, GetcByte, GetcEnd, GetcFailed, GetcRefill, Flushed
<1>2. CASE (Getc \/ Read) /\ "IN" \in direction
  BY <1>2 DEF Getc, GetcRefused, GetcByte, GetcEnd, GetcFailed, GetcRefill,
     Read, ReadBytes, ReadEOF, ReadFails, WriteInv, Puts, STREAM_OUT
<1> QED
  BY <1>1, <1>2 DEF Read, ReadBytes, ReadEOF, ReadFails, WriteInv

LEMMA PutcWrites == ASSUME IInv, WriteInv, Putc PROVE WriteInv'
<1>1. CASE PutcRefused \/ PutcNoSpace \/ PutcFlush
  BY <1>1, WriteFrame DEF PutcRefused, PutcNoSpace, PutcFlush, Flushed, IInv, Control
<1>2. CASE PutcByte
  <2> USE DEF IInv, TypeOK, BufferSound, Buffer_assert
  <2>1. /\ pc = "putc" /\ pc' = "ready" /\ op' = "putc" /\ buffer.startpos < buffer.size
        /\ accepted' = Append(accepted, arg) /\ arg \in Byte
        /\ UNCHANGED <<output, direction, stream_type, optional_failure>>
    BY <1>2 DEF PutcByte, Buffer_has_room, Control
  <2>2. ASSUME Puts
        PROVE  /\ buffer'.startpos = buffer.endpos + 1 /\ buffer'.endpos = buffer.endpos + 1
               /\ buffer'.data = [buffer.data EXCEPT ![buffer.endpos] = arg]
    <3>1. buffer' = Buffer_putc(buffer, arg) /\ buffer.startpos = buffer.endpos
      BY <1>2, <2>1, <2>2 DEF PutcByte, WriteInv
    <3>2. /\ Buffer_putc(buffer, arg).startpos = buffer.startpos + 1
          /\ Buffer_putc(buffer, arg).endpos = (IF buffer.endpos < buffer.startpos + 1
                                                THEN buffer.startpos + 1 ELSE buffer.endpos)
          /\ Buffer_putc(buffer, arg).data = [buffer.data EXCEPT ![buffer.startpos] = arg]
      BY DEF Buffer_putc
    <3> QED
      BY <3>1, <3>2
  <2>3. ASSUME Puts PROVE OutOrder'
    <3>1. First = 0 /\ First' = 0 /\ OutOrder /\ buffer.startpos = buffer.endpos
      BY <2>1, <2>3 DEF First, WriteInv
    <3>2. Len(accepted') = Len(accepted) + 1 /\ accepted'[Len(accepted) + 1] = arg
          /\ \A k \in 1 .. Len(accepted) : accepted'[k] = accepted[k]
      BY <2>1
    <3>3. \A k \in 1 .. Len(output') : output'[k] = accepted'[k]
      <4>1. Len(output) <= Len(accepted) /\ output' = output
        BY <2>1, <3>1 DEF OutOrder
      <4>2. \A k \in 1 .. Len(output) : k \in 1 .. Len(accepted)
        BY <4>1
      <4> HIDE DEF IInv
      <4> QED
        BY <3>1, <3>2, <4>1, <4>2 DEF OutOrder
    <3>4. ASSUME NEW k \in Nat, k < buffer'.endpos
          PROVE  buffer'.data[k] = accepted'[Len(output') + k + 1]
      <4>1. CASE k = buffer.endpos
        BY <2>1, <2>2, <2>3, <3>1, <3>2, <4>1 DEF OutOrder
      <4>2. CASE k < buffer.endpos
        <5>1. buffer'.data[k] = buffer.data[k]
          BY <2>1, <2>2, <2>3, <4>2
        <5>2. buffer.data[k] = accepted[Len(output) + k + 1]
          BY <3>1, <4>2 DEF OutOrder
        <5> QED
          BY <2>1, <3>1, <3>2, <4>2, <5>1, <5>2 DEF OutOrder
      <4> QED
        BY <2>2, <2>3, <3>4, <4>1, <4>2
    <3>5. Len(output') + (buffer'.endpos - First') = Len(accepted')
      <4>1. Len(output) + (buffer.endpos - 0) = Len(accepted)
        BY <3>1 DEF OutOrder
      <4> QED
        BY <2>1, <2>2, <2>3, <3>1, <3>2, <4>1
    <3>6. \A k \in Nat : First' <= k /\ k < buffer'.endpos
            => buffer'.data[k] = accepted'[Len(output') + (k - First') + 1]
      BY <3>1, <3>4
    <3> HIDE DEF IInv
    <3> QED
      BY <3>3, <3>5, <3>6 DEF OutOrder
  <2> QED
    BY <2>1, <2>2, <2>3 DEF WriteInv, Puts, Flushed
<1> QED
  BY <1>1, <1>2 DEF Putc

LEMMA FlushWrites == ASSUME IInv, WriteInv, Flush PROVE WriteInv'
<1>1. CASE FlushNothing
  BY <1>1, WriteFrame DEF FlushNothing, Flushed, IInv, TypeOK, Control, Puts
<1>2. CASE FlushFile
  <2>1. /\ pc = "flush" /\ pc' = "write" /\ buffer' = [buffer EXCEPT !.startpos = 0]
        /\ UNCHANGED <<output, accepted, direction, stream_type, optional_failure>>
    BY <1>2 DEF FlushFile
  <2>2. buffer'.startpos = 0 /\ buffer'.endpos = buffer.endpos /\ buffer'.data = buffer.data
    BY <2>1 DEF IInv, TypeOK
  <2> QED
    BY <2>1, <2>2 DEF WriteInv, Puts, OutOrder, First, Flushed
<1> QED
  BY <1>1, <1>2 DEF Flush

\* n bytes go from the start of the buffer to the end of the output.
LEMMA TransferKeepsOrder ==
  ASSUME IInv, pc = "write", OutOrder, NEW n \in Nat, n <= LSlice_length(buffer),
         NEW out, out = output \o SubSeq(Content(buffer), 1, n)
  PROVE  /\ Len(out) = Len(output) + n /\ Len(out) <= Len(accepted)
         /\ \A k \in 1 .. Len(out) : out[k] = accepted[k]
<1> USE DEF IInv, TypeOK, BufferSound, Buffer_assert
<1> DEFINE c == SubSeq(Content(buffer), 1, n)
<1>1. Content(buffer) \in Seq(Byte) /\ Len(Content(buffer)) = LSlice_length(buffer)
  BY SoundBuffer, ContentIsBytes
<1>2. c \in Seq(Byte) /\ Len(c) = n /\ \A i \in 1 .. n : c[i] = Content(buffer)[i]
  BY <1>1
<1>3. ASSUME NEW i \in 1 .. n PROVE c[i] = accepted[Len(output) + i]
  <2>1. Content(buffer)[i] = buffer.data[buffer.startpos + i - 1]
    BY DEF Content, LSlice_length
  <2>2. /\ buffer.startpos + i - 1 \in Nat /\ buffer.startpos <= buffer.startpos + i - 1
        /\ buffer.startpos + i - 1 < buffer.endpos
        /\ Len(output) + ((buffer.startpos + i - 1) - buffer.startpos) + 1 = Len(output) + i
    BY DEF LSlice_length
  <2> QED
    BY <1>2, <2>1, <2>2 DEF OutOrder, First
<1> HIDE DEF c
<1>4. Len(out) = Len(output) + n
  BY <1>2 DEF c
<1>5. ASSUME NEW k \in 1 .. Len(out) PROVE out[k] = accepted[k]
  <2>1. CASE k <= Len(output)
    BY <1>2, <2>1 DEF OutOrder, c
  <2>2. CASE k > Len(output)
    <3>1. k - Len(output) \in 1 .. n /\ Len(output) + (k - Len(output)) = k
      BY <1>4, <2>2
    <3>2. out[k] = c[k - Len(output)]
      BY <1>2, <2>2, <3>1 DEF c
    <3> QED
      BY <1>3, <3>1, <3>2
  <2> QED
    BY <2>1, <2>2
<1> QED
  BY <1>4, <1>5 DEF OutOrder, First, LSlice_length

LEMMA WriteWrites == ASSUME IInv, WriteInv, Write PROVE WriteInv'
<1> USE DEF IInv, TypeOK, BufferSound, Buffer_assert
<1>1. CASE WriteAll
  <2>1. /\ pc = "write" /\ pc' \in {"ready", "putc", "sysclose"}
        /\ output' = output \o Content(buffer)
        /\ UNCHANGED <<accepted, direction, stream_type, optional_failure>>
    BY <1>1 DEF WriteAll
  <2>2. buffer'.startpos = 0 /\ buffer'.endpos = 0
    BY <1>1 DEF WriteAll, Buffer_clear
  <2>3. ASSUME Puts PROVE OutOrder'
    <3>1. LSlice_length(buffer) \in Nat /\ LSlice_length(buffer) = buffer.endpos - buffer.startpos
      BY DEF LSlice_length
    <3>2. Content(buffer) \in Seq(Byte) /\ Len(Content(buffer)) = LSlice_length(buffer)
      BY SoundBuffer, ContentIsBytes
    <3>3. Content(buffer) = SubSeq(Content(buffer), 1, LSlice_length(buffer))
      BY <3>1, <3>2
    <3>4. Len(output') = Len(output) + LSlice_length(buffer)
          /\ \A k \in 1 .. Len(output') : output'[k] = accepted[k]
      <4>1. /\ OutOrder /\ pc = "write" /\ LSlice_length(buffer) <= LSlice_length(buffer)
            /\ output' = output \o SubSeq(Content(buffer), 1, LSlice_length(buffer))
            /\ accepted' = accepted
        <5>1. OutOrder
          BY <2>3 DEF WriteInv
        <5> HIDE DEF IInv
        <5> QED
          BY <2>1, <3>1, <3>3, <5>1
      <4> HIDE DEF IInv
      <4> QED
        BY <3>1, <4>1, TransferKeepsOrder
    <3>5. Len(output') = Len(accepted)
      BY <2>1, <2>3, <3>1, <3>4 DEF WriteInv, OutOrder, First
    <3> QED
      BY <2>1, <2>2, <3>4, <3>5 DEF OutOrder, First
  <2> QED
    BY <2>1, <2>2, <2>3 DEF WriteInv, Puts
<1>2. ASSUME NEW n \in 1 .. buffer.size, WritePart(n) PROVE WriteInv'
  <2>1. /\ pc = "write" /\ pc' = "write" /\ n < LSlice_length(buffer) /\ n \in Nat
        /\ output' = output \o SubSeq(Content(buffer), 1, n)
        /\ UNCHANGED <<accepted, direction, stream_type, optional_failure>>
    BY <1>2 DEF WritePart
  <2>2. buffer'.startpos = buffer.startpos + n /\ buffer'.endpos = buffer.endpos
        /\ buffer'.data = buffer.data
    BY <1>2 DEF WritePart, Written
  <2>3. ASSUME Puts PROVE OutOrder'
    <3>1. LSlice_length(buffer) \in Nat /\ LSlice_length(buffer) = buffer.endpos - buffer.startpos
      BY DEF LSlice_length
    <3>2. Len(output') = Len(output) + n
          /\ \A k \in 1 .. Len(output') : output'[k] = accepted[k]
      <4>1. OutOrder /\ n <= LSlice_length(buffer)
        BY <2>1, <2>3, <3>1 DEF WriteInv
      <4> HIDE DEF IInv
      <4> QED
        BY <2>1, <4>1, TransferKeepsOrder
    <3>3. ASSUME NEW k \in Nat, buffer.startpos + n <= k, k < buffer.endpos
          PROVE  buffer.data[k]
                   = accepted[(Len(output) + n) + (k - (buffer.startpos + n)) + 1]
      <4>1. /\ buffer.startpos <= k
            /\ (Len(output) + n) + (k - (buffer.startpos + n)) + 1
                  = Len(output) + (k - buffer.startpos) + 1
        BY <2>1, <3>3
      <4> QED
        BY <2>1, <2>3, <3>3, <4>1 DEF WriteInv, OutOrder, First
    <3>4. First = buffer.startpos /\ First' = buffer.startpos + n
      BY <2>1, <2>2 DEF First
    <3>5. Len(output') + (buffer'.endpos - First') = Len(accepted')
      <4>1. Len(output) + (buffer.endpos - buffer.startpos) = Len(accepted)
        BY <2>3, <3>4 DEF WriteInv, OutOrder
      <4> QED
        BY <2>1, <2>2, <3>2, <3>4, <4>1
    <3>6. \A k \in Nat : First' <= k /\ k < buffer'.endpos
            => buffer'.data[k] = accepted'[Len(output') + (k - First') + 1]
      BY <2>1, <2>2, <3>2, <3>3, <3>4
    <3>7. accepted' = accepted
      BY <2>1
    <3> HIDE DEF IInv
    <3> QED
      BY <3>2, <3>5, <3>6, <3>7 DEF OutOrder
  <2> QED
    BY <2>1, <2>3 DEF WriteInv, Puts, Flushed
<1>3. CASE WriteFails
  BY <1>3 DEF WriteFails, WriteInv, Puts
<1> QED
  BY <1>1, <1>2, <1>3 DEF Write

LEMMA CloseWrites ==
  ASSUME IInv, WriteInv, Close \/ SysClose \/ SysCloseInterrupted
  PROVE  WriteInv'
<1>1. CASE CloseRefused \/ SysCloseInterrupted
  BY <1>1, WriteFrame DEF CloseRefused, SysCloseInterrupted, Flushed, WriteInv
<1>2. CASE CloseFile
  BY <1>2, WriteFrame DEF CloseFile, Flushed, Puts, STREAM_OUT
<1>3. CASE SysCloseSucceeds
  <2>1. /\ pc = "sysclose" /\ pc' = "ready" /\ buffer' = Buffer_clear(buffer)
        /\ UNCHANGED <<output, accepted, direction, stream_type, optional_failure>>
    BY <1>3 DEF SysCloseSucceeds
  <2>2. buffer'.startpos = 0 /\ buffer'.endpos = 0
    BY <2>1 DEF Buffer_clear, IInv, TypeOK
  <2> QED
    BY <2>1, <2>2 DEF WriteInv, Puts, OutOrder, First, Flushed
<1>4. CASE CloseBuffer \/ SysCloseFails
  BY <1>4 DEF CloseBuffer, SysCloseFails, WriteInv, Puts
<1> QED
  BY <1>1, <1>2, <1>3, <1>4 DEF Close, SysClose

LEMMA ConstructorWrites == ASSUME IInv, WriteInv, Constructor PROVE WriteInv'
<1>1. ASSUME NEW dir, NEW nameOwned, FileStream(dir, nameOwned) PROVE WriteInv'
  <2>1. /\ buffer'.startpos = 0 /\ buffer'.endpos = 0 /\ output' = <<>> /\ accepted' = <<>>
        /\ pc' = "ready"
    BY <1>1 DEF FileStream, Buffer_from_buf, WriteInv
  <2> QED
    BY <2>1 DEF WriteInv, OutOrder, First
<1>2. ASSUME NEW dir, NEW array, NEW full, NEW dataOwned, NEW nameOwned,
             Buffer_to_BufferedStream(dir, array, full, dataOwned, nameOwned)
      PROVE  WriteInv'
  BY <1>2 DEF Buffer_to_BufferedStream, WriteInv, Puts
<1>3. ASSUME NEW dir, NEW nameOwned, open_BufferedStream(dir, nameOwned),
             ~FileStream(dir, nameOwned)
      PROVE  WriteInv'
  BY <1>3 DEF open_BufferedStream, WriteInv, Puts, STREAM_OUT
<1> QED
  BY <1>1, <1>2, <1>3 DEF Constructor, fd_BufferedStream, open_BufferedStream

LEMMA NextWriteInv == IInv /\ WriteInv /\ [Next]_vars => WriteInv'
<1> SUFFICES ASSUME IInv, WriteInv, [Next]_vars PROVE WriteInv'
  OBVIOUS
<1>1. CASE Constructor
  BY <1>1, ConstructorWrites
<1>2. CASE Client
  BY <1>2, WriteFrame DEF Client, Call, BufferedStream_release, Flushed
<1>3. CASE Progress
  BY <1>3, GetcWrites, PutcWrites, FlushWrites, WriteWrites, CloseWrites DEF Progress
<1>4. CASE SysCloseInterrupted
  BY <1>4, CloseWrites
<1>5. ASSUME NEW b \in Byte, FileGrows(b) PROVE WriteInv'
  BY <1>5 DEF FileGrows, WriteInv, Puts, OutOrder, First, Flushed
<1>6. CASE Interrupted \/ Finished \/ UNCHANGED vars
  BY <1>6 DEF Interrupted, Finished, WriteInv, Puts, OutOrder, First, Flushed
<1> QED
  BY <1>1, <1>2, <1>3, <1>4, <1>5, <1>6 DEF Next

THEOREM WriteInvariance == Spec => [](IInv /\ WriteInv)
<1>1. Init => WriteInv
  BY DEF Init, WriteInv, Puts, STREAM_OUT
<1> QED
  BY <1>1, NextWriteInv, InitIInv, NextIInv, PTL DEF Spec

\* Up to its first failure an output stream writes the bytes that putc took,
\* once and in their order, for every size of the buffer and however the
\* writes are cut.
THEOREM WritesInOrder == Spec => []WriteInOrder
BY WriteInvariance, WriteInvImplies, PTL

\* As long as no failure was met, an Ok of flush or close says that all bytes
\* that putc took were written.
THEOREM OkOnlyWhenWritten == Spec => []OkMeansWritten
BY WriteInvariance, WriteInvImplies, PTL
=============================================================================
