---------------------------- MODULE MonkeyProofs ----------------------------
(***************************************************************************)
(* Theorems about Monkey: for any number of wrappers and registrations,    *)
(* any size of the table and any array, not only those TLC is given.       *)
(***************************************************************************)
EXTENDS Monkey, FiniteSetTheorems, TLAPS

Entry ==
  [wrapper : Wrappers, what : {"init", "call", "fail", "waits", "other"},
   pos : Nat, errno : u8]

\* The buffer is over the whole array.
BufferOfArray ==
  /\ monkey_buf = [startpos |-> monkey_buf.startpos, endpos |-> monkey_buf.endpos,
                   data |-> monkey_buf.data, size |-> monkey_buf.size]
  /\ monkey_buf.startpos \in Nat /\ monkey_buf.startpos <= Len(array)
  /\ monkey_buf.endpos = Len(array) /\ monkey_buf.size = Len(array)
  /\ \A k \in Nat : k < Len(array) => monkey_buf.data[k] \in u8

\* The first entry of the log draws the first byte.
LogBegins == log = <<>> => Pos = 1

Inv ==
  /\ TypeOK
  /\ array \in Seq(u8) /\ log \in Seq(Entry)
  /\ BufferOfArray /\ LogBegins /\ EachByteOnce

-----------------------------------------------------------------------------

LEMMA Widths ==
  /\ MONKEY_MAX_MONKEYWRAPPERSTATE_INSTANCES \in Nat
  /\ MONKEY_INIT_LEN \in Nat /\ U8_MAX \in Nat
BY WidthAssumption

\* --waits of a u8
LEMMA CountdownInRange ==
  ASSUME NEW x \in u8
  PROVE  (x + U8_MAX) % (U8_MAX + 1) \in u8
BY Widths DEF u8

\* What the buffer is after one byte, or two, have been drawn from it.
LEMMA DrawOne ==
  ASSUME BufferOfArray, array \in Seq(u8), Left >= 1
  PROVE  /\ LSlice_ref_start(monkey_buf) \in u8
         /\ Buffer_getc(monkey_buf).startpos = monkey_buf.startpos + 1
         /\ Buffer_getc(monkey_buf).endpos = monkey_buf.endpos
         /\ Buffer_getc(monkey_buf).size = monkey_buf.size
         /\ Buffer_getc(monkey_buf).data = monkey_buf.data
         /\ Buffer_getc(monkey_buf) =
              [startpos |-> monkey_buf.startpos + 1, endpos |-> monkey_buf.endpos,
               data |-> monkey_buf.data, size |-> monkey_buf.size]
         /\ monkey_buf.startpos + 1 <= Len(array)
<1> DEFINE s == monkey_buf.startpos
           e == monkey_buf.endpos
           d == monkey_buf.data
           z == monkey_buf.size
<1>1. Len(array) \in Nat /\ s \in Nat /\ e = Len(array) /\ s + 1 <= Len(array)
  BY DEF BufferOfArray, Left, LSlice_length
<1>2. d[s] \in u8
  BY <1>1 DEF BufferOfArray
<1>3. Buffer_getc(monkey_buf) = [startpos |-> s + 1, endpos |-> e, data |-> d, size |-> z]
  BY DEF BufferOfArray, Buffer_getc
<1> QED
  BY <1>1, <1>2, <1>3 DEF LSlice_ref_start

LEMMA GetcOfRecord ==
  ASSUME NEW s, NEW e, NEW d, NEW z
  PROVE  Buffer_getc([startpos |-> s, endpos |-> e, data |-> d, size |-> z]) =
           [startpos |-> s + 1, endpos |-> e, data |-> d, size |-> z]
BY DEF Buffer_getc

LEMMA DrawTwo ==
  ASSUME BufferOfArray, array \in Seq(u8), Left >= 2
  PROVE  /\ LSlice_ref_start(monkey_buf) \in u8
         /\ LSlice_ref_start(Buffer_getc(monkey_buf)) \in u8
         /\ Buffer_getc(Buffer_getc(monkey_buf)) =
              [startpos |-> monkey_buf.startpos + 2, endpos |-> monkey_buf.endpos,
               data |-> monkey_buf.data, size |-> monkey_buf.size]
         /\ monkey_buf.startpos + 2 <= Len(array)
<1> DEFINE s == monkey_buf.startpos
           e == monkey_buf.endpos
           d == monkey_buf.data
           z == monkey_buf.size
<1>1. /\ Len(array) \in Nat /\ s \in Nat /\ e = Len(array) /\ s + 2 <= Len(array)
      /\ Left >= 1
  BY DEF BufferOfArray, Left, LSlice_length
<1>2. d[s] \in u8 /\ d[s + 1] \in u8
  BY <1>1 DEF BufferOfArray
<1>3. Buffer_getc(monkey_buf) = [startpos |-> s + 1, endpos |-> e, data |-> d, size |-> z]
  BY <1>1, DrawOne
<1>4. Buffer_getc(Buffer_getc(monkey_buf)) =
        [startpos |-> s + 2, endpos |-> e, data |-> d, size |-> z]
  <2>1. Buffer_getc(Buffer_getc(monkey_buf)) =
          [startpos |-> (s + 1) + 1, endpos |-> e, data |-> d, size |-> z]
    BY <1>3, GetcOfRecord
  <2>2. (s + 1) + 1 = s + 2
    BY <1>1
  <2> QED
    BY <2>1, <2>2
<1>5. LSlice_ref_start(monkey_buf) = d[s]
  BY DEF LSlice_ref_start
<1>6. LSlice_ref_start(Buffer_getc(monkey_buf)) = d[s + 1]
  BY <1>3 DEF LSlice_ref_start
<1> QED
  BY <1>1, <1>2, <1>4, <1>5, <1>6

\* The buffer after n bytes have been drawn.
Advances(n) ==
  /\ monkey_buf' = [startpos |-> monkey_buf.startpos + n, endpos |-> monkey_buf.endpos,
                    data |-> monkey_buf.data, size |-> monkey_buf.size]
  /\ monkey_buf.startpos + n <= Len(array)

\* An entry that has drawn n bytes is appended.
LEMMA LogStep ==
  ASSUME Inv, NEW e \in Entry, NEW n \in {0, 1, 2}, Advances(n),
         array' = array, log' = Append(log, e), e.pos = Pos,
         n = IF e.what \in {"init", "fail"} THEN 2
             ELSE IF e.what \in {"waits", "other"} THEN 1 ELSE 0
  PROVE  /\ Buffer_assert(monkey_buf)' /\ array' \in Seq(u8) /\ log' \in Seq(Entry)
         /\ BufferOfArray' /\ LogBegins' /\ EachByteOnce'
<1>1. /\ array \in Seq(u8) /\ log \in Seq(Entry) /\ Len(array) \in Nat /\ Len(log) \in Nat
      /\ monkey_buf.startpos \in Nat /\ monkey_buf.endpos = Len(array)
      /\ monkey_buf.size = Len(array)
  BY DEF Inv, BufferOfArray
<1>2. /\ monkey_buf'.startpos = monkey_buf.startpos + n
      /\ monkey_buf'.endpos = Len(array) /\ monkey_buf'.size = Len(array)
      /\ monkey_buf'.data = monkey_buf.data /\ monkey_buf.startpos + n <= Len(array)
  BY <1>1 DEF Advances
<1>3. Buffer_assert(monkey_buf)' /\ array' \in Seq(u8) /\ log' \in Seq(Entry)
  BY <1>1, <1>2 DEF Buffer_assert
<1>4. BufferOfArray'
  <2>1. monkey_buf' = [startpos |-> monkey_buf'.startpos, endpos |-> monkey_buf'.endpos,
                       data |-> monkey_buf'.data, size |-> monkey_buf'.size]
    BY DEF Advances
  <2>2. monkey_buf'.startpos \in Nat
    BY <1>1, <1>2
  <2> QED
    BY <1>1, <1>2, <2>1, <2>2 DEF Inv, BufferOfArray
<1>5. log' # <<>> /\ Len(log') = Len(log) + 1 /\ log'[Len(log) + 1] = e
      /\ \A k \in 1 .. Len(log) : log'[k] = log[k]
  BY <1>1
<1>6. Pos' = Pos + n /\ Pos \in Nat /\ Pos' - 1 <= Len(array)
  BY <1>1, <1>2 DEF Pos
<1>7. EachByteOnce'
  <2> SUFFICES ASSUME NEW k \in 1 .. Len(log) + 1
               PROVE  /\ log'[k].pos + Drawn(k)' =
                           IF k = Len(log') THEN Pos' ELSE log'[k + 1].pos
                      /\ k = 1 => log'[k].pos = 1
                      /\ log'[k].pos + Drawn(k)' - 1 <= Len(array')
    BY <1>1, <1>5 DEF EachByteOnce
  <2>1. CASE k = Len(log) + 1
    <3>1. log'[k] = e /\ Drawn(k)' = n
      BY <1>5, <2>1 DEF Drawn
    <3>2. k = 1 => e.pos = 1
      <4>1. k = 1 => log = <<>>
        BY <1>1, <2>1
      <4> QED
        BY <4>1 DEF Inv, LogBegins
    <3> QED
      BY <1>5, <1>6, <2>1, <3>1, <3>2
  <2>2. CASE k # Len(log) + 1
    <3>1. k \in 1 .. Len(log) /\ log'[k] = log[k] /\ Drawn(k)' = Drawn(k)
      BY <1>1, <1>5, <2>2 DEF Drawn
    <3>2. /\ log[k].pos + Drawn(k) = IF k = Len(log) THEN Pos ELSE log[k + 1].pos
          /\ k = 1 => log[k].pos = 1
          /\ log[k].pos + Drawn(k) - 1 <= Len(array)
      BY <1>1, <3>1 DEF Inv, EachByteOnce
    <3>3. k = Len(log) => log'[k + 1].pos = Pos
      BY <1>5
    <3>4. k # Len(log) => log'[k + 1] = log[k + 1]
      BY <1>1, <1>5, <3>1
    <3> QED
      BY <1>1, <1>5, <2>2, <3>1, <3>2, <3>3, <3>4
  <2> QED
    BY <2>1, <2>2
<1> QED
  BY <1>3, <1>4, <1>5, <1>7 DEF LogBegins

-----------------------------------------------------------------------------
(* The invariant *)

\* A buffer that nothing has been drawn from, and an empty log.
LEMMA Fresh ==
  ASSUME NEW a \in Seq(u8), monkey_buf' = Copied(a), array' = a, log' = <<>>
  PROVE  /\ Buffer_assert(monkey_buf)' /\ array' \in Seq(u8) /\ log' \in Seq(Entry)
         /\ BufferOfArray' /\ LogBegins' /\ EachByteOnce'
<1>1. /\ monkey_buf'.startpos = 0 /\ monkey_buf'.endpos = Len(a)
      /\ monkey_buf'.size = Len(a)
      /\ monkey_buf'.data = [k \in 0 .. Len(a) - 1 |-> a[k + 1]]
      /\ monkey_buf' = [startpos |-> 0, endpos |-> Len(a),
                        data |-> [k \in 0 .. Len(a) - 1 |-> a[k + 1]], size |-> Len(a)]
  BY DEF Copied, Buffer_from_array
<1>2. \A k \in Nat : k < Len(a) => monkey_buf'.data[k] \in u8
  <2> SUFFICES ASSUME NEW k \in Nat, k < Len(a) PROVE a[k + 1] \in u8
    BY <1>1
  <2> QED
    OBVIOUS
<1>3. Len(a) \in Nat /\ Len(array') = Len(a)
  OBVIOUS
<1>4. BufferOfArray'
  BY <1>1, <1>2, <1>3 DEF BufferOfArray
<1>5. Buffer_assert(monkey_buf)'
  BY <1>1, <1>3 DEF Buffer_assert
<1>6. LogBegins' /\ EachByteOnce' /\ log' \in Seq(Entry)
  BY <1>1 DEF LogBegins, EachByteOnce, Pos
<1> QED
  BY <1>4, <1>5, <1>6

LEMMA EmptyBuffer ==
  ASSUME monkey_buf' = Buffer_from_array(<<>>, 0), array' = <<>>, log' = <<>>
  PROVE  /\ Buffer_assert(monkey_buf)' /\ array' \in Seq(u8) /\ log' \in Seq(Entry)
         /\ BufferOfArray' /\ LogBegins' /\ EachByteOnce'
BY DEF Buffer_from_array, Buffer_assert, BufferOfArray, LogBegins, EachByteOnce, Pos

LEMMA InitInv == Init => Inv
<1> SUFFICES ASSUME Init PROVE Inv
  OBVIOUS
<1>1. TypeOK
  BY Widths DEF Init, TypeOK, Buffer_from_array, Buffer_assert, u8
<1>2. BufferOfArray /\ LogBegins /\ EachByteOnce
  BY DEF Init, Buffer_from_array, BufferOfArray, LogBegins, EachByteOnce, Pos
<1> QED
  BY <1>1, <1>2 DEF Init, Inv

\* Steps that leave buffer, array and log alone.
LEMMA Unlogged ==
  ASSUME Inv, UNCHANGED <<monkey_buf, array, log>>
  PROVE  /\ Buffer_assert(monkey_buf)' /\ array' \in Seq(u8) /\ log' \in Seq(Entry)
         /\ BufferOfArray' /\ LogBegins' /\ EachByteOnce'
BY DEF Inv, TypeOK, Buffer_assert, BufferOfArray, LogBegins, EachByteOnce, Pos, Drawn

\* A step that draws both bytes of a wrapper's state, and logs it.
LEMMA BothStep ==
  ASSUME Inv, NEW w \in Wrappers, NEW what \in {"init", "fail"}, NEW errno \in u8,
         DrawsBoth(w), Logged(w, what, errno), array' = array
  PROVE  /\ Buffer_assert(monkey_buf)' /\ array' \in Seq(u8) /\ log' \in Seq(Entry)
         /\ BufferOfArray' /\ LogBegins' /\ EachByteOnce'
         /\ state' \in [Wrappers -> [waits : u8, other : u8]]
<1>1. /\ Left >= 2 /\ BufferOfArray /\ array \in Seq(u8)
      /\ state \in [Wrappers -> [waits : u8, other : u8]]
  BY DEF DrawsBoth, Inv, TypeOK
<1>2. Advances(2)
  BY <1>1, DrawTwo DEF DrawsBoth, Advances
<1>3. state' \in [Wrappers -> [waits : u8, other : u8]]
  BY <1>1, DrawTwo DEF DrawsBoth
<1> DEFINE e == [wrapper |-> w, what |-> what, pos |-> Pos, errno |-> errno]
<1>4. e \in Entry /\ log' = Append(log, e) /\ e.pos = Pos /\ e.what = what
  <2>1. Pos \in Nat
    BY <1>1 DEF BufferOfArray, Pos
  <2> QED
    BY <2>1 DEF Logged, Entry
<1> HIDE DEF e
<1>5. /\ Buffer_assert(monkey_buf)' /\ array' \in Seq(u8) /\ log' \in Seq(Entry)
      /\ BufferOfArray' /\ LogBegins' /\ EachByteOnce'
  <2>1. 2 = IF e.what \in {"init", "fail"} THEN 2
            ELSE IF e.what \in {"waits", "other"} THEN 1 ELSE 0
    BY <1>4
  <2> QED
    BY <1>2, <1>4, <2>1, LogStep
<1> QED
  BY <1>3, <1>5

\* A step that draws one byte, and logs it.
LEMMA OneStep ==
  ASSUME Inv, NEW w \in Wrappers, NEW field \in {"waits", "other"},
         Draws(w, field), Logged(w, field, 0), array' = array
  PROVE  /\ Buffer_assert(monkey_buf)' /\ array' \in Seq(u8) /\ log' \in Seq(Entry)
         /\ BufferOfArray' /\ LogBegins' /\ EachByteOnce'
         /\ state' \in [Wrappers -> [waits : u8, other : u8]]
<1>1. /\ Left >= 1 /\ BufferOfArray /\ array \in Seq(u8)
      /\ state \in [Wrappers -> [waits : u8, other : u8]]
  BY DEF Draws, Inv, TypeOK
<1>2. Advances(1)
  BY <1>1, DrawOne DEF Draws, Advances
<1>3. state' \in [Wrappers -> [waits : u8, other : u8]]
  <2>1. LSlice_ref_start(monkey_buf) \in u8
    BY <1>1, DrawOne
  <2>2. CASE field = "waits"
    BY <1>1, <2>1, <2>2 DEF Draws
  <2>3. CASE field = "other"
    BY <1>1, <2>1, <2>3 DEF Draws
  <2> QED
    BY <2>2, <2>3
<1> DEFINE e == [wrapper |-> w, what |-> field, pos |-> Pos, errno |-> 0]
<1>4. e \in Entry /\ log' = Append(log, e) /\ e.pos = Pos /\ e.what = field
  <2>1. Pos \in Nat /\ 0 \in u8
    BY <1>1, Widths DEF BufferOfArray, Pos, u8
  <2> QED
    BY <2>1 DEF Logged, Entry
<1> HIDE DEF e
<1>5. /\ Buffer_assert(monkey_buf)' /\ array' \in Seq(u8) /\ log' \in Seq(Entry)
      /\ BufferOfArray' /\ LogBegins' /\ EachByteOnce'
  <2>1. 1 = IF e.what \in {"init", "fail"} THEN 2
            ELSE IF e.what \in {"waits", "other"} THEN 1 ELSE 0
    BY <1>4
  <2> QED
    BY <1>2, <1>4, <2>1, LogStep
<1> QED
  BY <1>3, <1>5

\* What is left of Inv when the buffer and the log have been taken care of.
LEMMA Rest ==
  ASSUME /\ Buffer_assert(monkey_buf)' /\ array' \in Seq(u8) /\ log' \in Seq(Entry)
         /\ BufferOfArray' /\ LogBegins' /\ EachByteOnce',
         waiting' \subseteq Wrappers,
         monkey_monkeywrapperstates' \in Seq(Wrappers),
         Len(monkey_monkeywrapperstates') <= MONKEY_MAX_MONKEYWRAPPERSTATE_INSTANCES,
         state' \in [Wrappers -> [waits : u8, other : u8]],
         pc' \in {"constructors", "main", "monkey_init", "test_case", "aborted"}
  PROVE  Inv'
BY DEF Inv, TypeOK

LEMMA RegisterStep ==
  ASSUME Inv, NEW w \in Wrappers, monkey_register_monkeywrapperstate(w)
  PROVE  Inv'
<1>1. /\ waiting \subseteq Wrappers /\ monkey_monkeywrapperstates \in Seq(Wrappers)
      /\ Len(monkey_monkeywrapperstates) <= MONKEY_MAX_MONKEYWRAPPERSTATE_INSTANCES
      /\ state \in [Wrappers -> [waits : u8, other : u8]]
  BY DEF Inv, TypeOK
<1>2. UNCHANGED <<monkey_buf, array, log, state>> /\ waiting' \subseteq Wrappers
  BY <1>1 DEF monkey_register_monkeywrapperstate, DIE
<1>3. pc' \in {"constructors", "aborted"}
  BY DEF monkey_register_monkeywrapperstate, DIE
<1>4. /\ monkey_monkeywrapperstates' \in Seq(Wrappers)
      /\ Len(monkey_monkeywrapperstates') <= MONKEY_MAX_MONKEYWRAPPERSTATE_INSTANCES
  <2>1. CASE TableHasRoom /\ monkey_monkeywrapperstates' = Append(monkey_monkeywrapperstates, w)
    BY <1>1, <2>1, Widths DEF TableHasRoom
  <2>2. CASE monkey_monkeywrapperstates' = monkey_monkeywrapperstates
    BY <1>1, <2>2
  <2> QED
    BY <2>1, <2>2 DEF monkey_register_monkeywrapperstate, DIE
<1> QED
  BY <1>1, <1>2, <1>3, <1>4, Unlogged, Rest

LEMMA WrapperStep ==
  ASSUME Inv, NEW w \in Wrappers,
         \/ CallPasses(w) \/ CallFails(w)
         \/ monkeywrapperstate_refresh_waits(w) \/ monkeywrapperstate_refresh_other(w)
  PROVE  Inv'
<1>1. /\ waiting \subseteq Wrappers /\ monkey_monkeywrapperstates \in Seq(Wrappers)
      /\ Len(monkey_monkeywrapperstates) <= MONKEY_MAX_MONKEYWRAPPERSTATE_INSTANCES
      /\ state \in [Wrappers -> [waits : u8, other : u8]]
      /\ BufferOfArray /\ array \in Seq(u8) /\ Buffer_assert(monkey_buf)
  BY DEF Inv, TypeOK
<1>2. /\ waiting' = waiting /\ monkey_monkeywrapperstates' = monkey_monkeywrapperstates
      /\ array' = array /\ pc' \in {"test_case", "aborted"}
  BY DEF CallPasses, CallFails, monkeywrapperstate_refresh_waits,
     monkeywrapperstate_refresh_other, monkeywrapperstate_refresh, Running, DIE
<1>3. CASE CallPasses(w)
  <2> DEFINE e == [wrapper |-> w, what |-> "call", pos |-> Pos, errno |-> 0]
  <2>1. state' \in [Wrappers -> [waits : u8, other : u8]]
    <3>1. state[w].waits \in u8
      BY <1>1
    <3>2. (state[w].waits + U8_MAX) % (U8_MAX + 1) \in u8
      BY <3>1, CountdownInRange
    <3> QED
      BY <1>1, <1>3, <3>2 DEF CallPasses
  <2>2. Advances(0)
    BY <1>1, <1>3 DEF CallPasses, BufferOfArray, Advances
  <2>3. e \in Entry /\ log' = Append(log, e) /\ e.pos = Pos /\ e.what = "call"
    <3>1. Pos \in Nat /\ 0 \in u8
      BY <1>1, Widths DEF BufferOfArray, Pos, u8
    <3> QED
      BY <1>3, <3>1 DEF CallPasses, Logged, Entry
  <2> HIDE DEF e
  <2>4. 0 = IF e.what \in {"init", "fail"} THEN 2
            ELSE IF e.what \in {"waits", "other"} THEN 1 ELSE 0
    BY <2>3
  <2>5. /\ Buffer_assert(monkey_buf)' /\ array' \in Seq(u8) /\ log' \in Seq(Entry)
        /\ BufferOfArray' /\ LogBegins' /\ EachByteOnce'
    BY <1>2, <2>2, <2>3, <2>4, LogStep
  <2> QED
    BY <1>1, <1>2, <2>1, <2>5, Rest
<1>4. CASE CallFails(w)
  <2>1. CASE DIE
    BY <1>1, <1>2, <2>1, Unlogged, Rest DEF DIE
  <2>2. CASE DrawsBoth(w) /\ Logged(w, "fail", state'[w].other)
    <3>1. state'[w].other \in u8
      BY <1>1, <2>2, DrawTwo DEF DrawsBoth
    <3> QED
      BY <1>1, <1>2, <2>2, <3>1, BothStep, Rest
  <2> QED
    BY <1>4, <2>1, <2>2 DEF CallFails
<1>5. ASSUME NEW field \in {"waits", "other"}, monkeywrapperstate_refresh(w, field)
      PROVE  Inv'
  <2>1. CASE DIE
    BY <1>1, <1>2, <2>1, Unlogged, Rest DEF DIE
  <2>2. CASE Draws(w, field) /\ Logged(w, field, 0)
    BY <1>1, <1>2, <2>2, OneStep, Rest
  <2> QED
    BY <1>5, <2>1, <2>2 DEF monkeywrapperstate_refresh
<1> QED
  BY <1>3, <1>4, <1>5 DEF monkeywrapperstate_refresh_waits, monkeywrapperstate_refresh_other

LEMMA NextInv == Inv /\ [Next]_vars => Inv'
<1> SUFFICES ASSUME Inv, [Next]_vars PROVE Inv'
  OBVIOUS
<1>1. /\ waiting \subseteq Wrappers /\ monkey_monkeywrapperstates \in Seq(Wrappers)
      /\ Len(monkey_monkeywrapperstates) <= MONKEY_MAX_MONKEYWRAPPERSTATE_INSTANCES
      /\ state \in [Wrappers -> [waits : u8, other : u8]]
      /\ pc \in {"constructors", "main", "monkey_init", "test_case", "aborted"}
      /\ log \in Seq(Entry) /\ array \in Seq(u8)
  BY DEF Inv, TypeOK
<1>2. ASSUME NEW w \in Wrappers,
             \/ monkey_register_monkeywrapperstate(w)
             \/ CallPasses(w) \/ CallFails(w)
             \/ monkeywrapperstate_refresh_waits(w) \/ monkeywrapperstate_refresh_other(w)
      PROVE  Inv'
  BY <1>2, RegisterStep, WrapperStep
<1>3. CASE Start \/ InitDone
  <2>1. UNCHANGED <<waiting, monkey_monkeywrapperstates, monkey_buf, state, array, log>>
        /\ pc' \in {"main", "test_case"}
    BY <1>3 DEF Start, InitDone
  <2> QED
    BY <1>1, <2>1, Unlogged, Rest
<1>4. ASSUME NEW bytes \in [1 .. MONKEY_INIT_LEN -> u8], monkey_init(bytes) PROVE Inv'
  <2>1. bytes \in Seq(u8)
    BY Widths
  <2>2. /\ monkey_buf' = Copied(bytes) /\ array' = bytes /\ log' = <<>>
        /\ UNCHANGED <<waiting, monkey_monkeywrapperstates, state>> /\ pc' = "monkey_init"
    BY <1>4 DEF monkey_init
  <2> QED
    BY <1>1, <2>1, <2>2, Fresh, Rest
<1>5. CASE InitState
  <2> DEFINE w == monkey_monkeywrapperstates[Len(log) + 1]
  <2>1. w \in Wrappers
    BY <1>1, <1>5 DEF InitState
  <2>2. UNCHANGED <<waiting, monkey_monkeywrapperstates, array>>
        /\ pc' \in {"monkey_init", "aborted"}
    BY <1>5 DEF InitState, DIE
  <2>3. CASE DIE
    BY <1>1, <2>2, <2>3, Unlogged, Rest DEF DIE
  <2>4. CASE DrawsBoth(w) /\ Logged(w, "init", 0)
    <3>1. 0 \in u8
      BY Widths DEF u8
    <3> QED
      BY <1>1, <2>1, <2>2, <2>4, <3>1, BothStep, Rest
  <2> QED
    BY <1>5, <2>3, <2>4 DEF InitState
<1>6. CASE monkey_release
  <2>1. /\ monkey_buf' = Buffer_from_array(<<>>, 0) /\ array' = <<>> /\ log' = <<>>
        /\ UNCHANGED <<waiting, monkey_monkeywrapperstates, state>> /\ pc' = "main"
    BY <1>6 DEF monkey_release
  <2> QED
    BY <1>1, <2>1, EmptyBuffer, Rest
<1>7. CASE Aborted \/ UNCHANGED vars
  <2>1. UNCHANGED <<waiting, monkey_monkeywrapperstates, monkey_buf, state, pc, array, log>>
    BY <1>7 DEF Aborted, vars
  <2> QED
    BY <1>1, <2>1, Unlogged, Rest
<1> QED
  BY <1>2, <1>3, <1>4, <1>5, <1>6, <1>7 DEF Next

LEMMA Invariance == Spec => []Inv
BY InitInv, NextInv, PTL DEF Spec

-----------------------------------------------------------------------------

\* The table of the wrappers is not overrun, whatever registers itself and in
\* which order, and the positions in the array stay within it.
THEOREM TypeCorrect == Spec => []TypeOK
<1>1. Inv => TypeOK
  BY DEF Inv
<1> QED
  BY <1>1, Invariance, PTL

\* However many wrappers share the array, and in whatever order they are
\* called, each of its bytes is drawn once, in order, and none behind its end.
THEOREM BytesAreDrawnOnce == Spec => []EachByteOnce
<1>1. Inv => EachByteOnce
  BY DEF Inv
<1> QED
  BY <1>1, Invariance, PTL

-----------------------------------------------------------------------------
(* The countdowns: what a state still waits for, and the calls that went    *)
(* through since it was set, make up the byte that was drawn for it.        *)

\* The buffer holds the test case.
Memory == \A k \in Nat : k < Len(array) => monkey_buf.data[k] = array[k + 1]

\* The calls of w in the entries behind the k-th, up to the n-th.
CallsOf(w, k, n) == {j \in k + 1 .. n : log[j].what = "call" /\ log[j].wrapper = w}

\* The countdown that was set by the k-th entry is still running.
LastSet(k) ==
  /\ SetsWaits(k)
  /\ ~\E j \in k + 1 .. Len(log) : log[j].wrapper = log[k].wrapper /\ SetsWaits(j)

Counted ==
  \A k \in 1 .. Len(log) : LastSet(k) =>
    Cardinality(CallsOf(log[k].wrapper, k, Len(log))) + state[log[k].wrapper].waits
      = array[log[k].pos]

IsSet(w) == \E k \in 1 .. Len(log) : log[k].wrapper = w /\ LastSet(k)

AllSet ==
  /\ pc = "monkey_init" =>
       /\ Len(log) <= Len(monkey_monkeywrapperstates)
       /\ \A j \in 1 .. Len(log) : IsSet(monkey_monkeywrapperstates[j])
  /\ pc = "test_case" => \A w \in Registered : IsSet(w)

CountInv == Memory /\ Counted /\ AllSet /\ CountdownExact

\* The state of a wrapper that the entry e is about.
Countdown(e) ==
  /\ \/ e.what \in {"init", "fail", "waits"} /\ state'[e.wrapper].waits = array[e.pos]
     \/ /\ e.what = "call" /\ state[e.wrapper].waits # 0
        /\ state'[e.wrapper].waits = state[e.wrapper].waits - 1
     \/ e.what = "other" /\ state'[e.wrapper].waits = state[e.wrapper].waits
  /\ \A v \in Wrappers : v # e.wrapper => state'[v].waits = state[v].waits
  /\ e.what = "fail" =>
       /\ state[e.wrapper].waits = 0 /\ e.errno = array[e.pos + 1] /\ IsSet(e.wrapper)

LEMMA CallsAreFinite ==
  ASSUME NEW w, NEW k \in Nat, NEW n \in Nat
  PROVE  IsFiniteSet(CallsOf(w, k, n)) /\ Cardinality(CallsOf(w, k, n)) \in Nat
<1>1. IsFiniteSet(k + 1 .. n)
  BY FS_Interval
<1>2. CallsOf(w, k, n) \in SUBSET (k + 1 .. n)
  BY DEF CallsOf
<1> QED
  BY <1>1, <1>2, FS_Subset, FS_CardinalityType

\* An entry is appended to the log.
LEMMA Longer ==
  ASSUME log \in Seq(Entry), NEW e \in Entry, log' = Append(log, e)
  PROVE  /\ Len(log) \in Nat /\ Len(log') = Len(log) + 1 /\ log'[Len(log) + 1] = e
         /\ \A k \in 1 .. Len(log) : log'[k] = log[k] /\ log[k] \in Entry
OBVIOUS

LEMMA LastSetBefore ==
  ASSUME log \in Seq(Entry), NEW e \in Entry, log' = Append(log, e), NEW k \in 1 .. Len(log)
  PROVE  /\ SetsWaits(k)' <=> SetsWaits(k)
         /\ LastSet(k)' <=>
              LastSet(k) /\ ~(e.wrapper = log[k].wrapper /\ e.what \in {"init", "fail", "waits"})
<1>1. PICK last : last = Len(log) + 1
  OBVIOUS
<1>2. /\ Len(log) \in Nat /\ Len(log') = last /\ log'[last] = e
      /\ \A j \in 1 .. Len(log) : log'[j] = log[j]
  BY <1>1, Longer
<1>3. \A j \in 1 .. Len(log) : SetsWaits(j)' <=> SetsWaits(j)
  BY <1>2 DEF SetsWaits
<1>4. SetsWaits(last)' <=> e.what \in {"init", "fail", "waits"}
  BY <1>2 DEF SetsWaits
<1>5. \A j : j \in k + 1 .. last <=> j \in k + 1 .. Len(log) \/ j = last
  BY <1>1, <1>2
<1>6. \A j : j \in k + 1 .. Len(log) => j \in 1 .. Len(log)
  BY <1>2
<1>7. (\E j \in k + 1 .. last : log'[j].wrapper = log'[k].wrapper /\ SetsWaits(j)')
        <=> \/ \E j \in k + 1 .. Len(log) : log[j].wrapper = log[k].wrapper /\ SetsWaits(j)
            \/ e.wrapper = log[k].wrapper /\ e.what \in {"init", "fail", "waits"}
  BY <1>2, <1>3, <1>4, <1>5, <1>6, Zenon
<1> QED
  BY <1>2, <1>3, <1>7, Zenon DEF LastSet

LEMMA CallsBefore ==
  ASSUME log \in Seq(Entry), NEW e \in Entry, log' = Append(log, e), NEW k \in 1 .. Len(log),
         NEW w, NEW last, last = Len(log) + 1
  PROVE  /\ \A n \in 0 .. Len(log) : CallsOf(w, k, n)' = CallsOf(w, k, n)
         /\ CallsOf(w, k, last)' =
              IF e.what = "call" /\ e.wrapper = w
              THEN CallsOf(w, k, Len(log)) \cup {last} ELSE CallsOf(w, k, Len(log))
<1>1. /\ Len(log) \in Nat /\ log'[last] = e
      /\ \A j \in 1 .. Len(log) : log'[j] = log[j]
  BY Longer
<1>2. \A n \in 0 .. Len(log) : \A j \in k + 1 .. n : j \in 1 .. Len(log)
  BY <1>1
<1>3. /\ \A j : j \in k + 1 .. last <=> j \in k + 1 .. Len(log) \/ j = last
      /\ \A j : j \in k + 1 .. Len(log) => j \in 1 .. Len(log)
  BY <1>1
<1>4. ASSUME NEW n \in 0 .. Len(log) PROVE CallsOf(w, k, n)' = CallsOf(w, k, n)
  BY <1>1, <1>2 DEF CallsOf
<1>5. \A j : j \in CallsOf(w, k, last)'
               <=> \/ j \in CallsOf(w, k, Len(log))
                   \/ j = last /\ e.what = "call" /\ e.wrapper = w
  <2>1. \A j : j \in CallsOf(w, k, last)'
                 <=> j \in k + 1 .. last /\ log'[j].what = "call" /\ log'[j].wrapper = w
    BY DEF CallsOf
  <2>2. \A j : j \in CallsOf(w, k, Len(log))
                 <=> j \in k + 1 .. Len(log) /\ log[j].what = "call" /\ log[j].wrapper = w
    BY DEF CallsOf
  <2> QED
    BY <1>1, <1>3, <2>1, <2>2, Zenon
<1>6. CASE e.what = "call" /\ e.wrapper = w
  <2>1. PICK new, old : new = CallsOf(w, k, last)' /\ old = CallsOf(w, k, Len(log))
    OBVIOUS
  <2>2. \A j : j \in new <=> j \in old \cup {last}
    BY <1>5, <1>6, <2>1, Zenon
  <2>3. new = old \cup {last}
    BY <2>2
  <2> QED
    BY <1>4, <1>6, <2>1, <2>3, Zenon
<1>7. CASE ~(e.what = "call" /\ e.wrapper = w)
  <2>1. \A j : j \in CallsOf(w, k, last)' <=> j \in CallsOf(w, k, Len(log))
    BY <1>5, <1>7, Zenon
  <2> QED
    BY <1>7, <2>1, Zenon
<1> QED
  BY <1>4, <1>6, <1>7, Zenon

LEMMA SetNow ==
  ASSUME log \in Seq(Entry), NEW e \in Entry, log' = Append(log, e),
         e.what \in {"init", "fail", "waits"}, NEW last, last = Len(log) + 1
  PROVE  LastSet(last)' /\ IsSet(e.wrapper)'
<1>1. Len(log) \in Nat /\ Len(log') = last /\ log'[last] = e
  BY Longer
<1>2. last + 1 .. last = {} /\ last \in 1 .. last
  BY <1>1
<1>3. SetsWaits(last)'
  BY <1>1 DEF SetsWaits
<1>4. LastSet(last)'
  BY <1>1, <1>2, <1>3, Zenon DEF LastSet
<1> QED
  BY <1>1, <1>2, <1>4, Zenon DEF IsSet

\* What was set stays set.
LEMMA StaysSet ==
  ASSUME log \in Seq(Entry), NEW e \in Entry, log' = Append(log, e), NEW w, IsSet(w)
  PROVE  IsSet(w)'
<1>1. PICK k \in 1 .. Len(log) : log[k].wrapper = w /\ LastSet(k)
  BY DEF IsSet
<1>2. PICK last : last = Len(log) + 1
  OBVIOUS
<1>3. k \in 1 .. Len(log') /\ log'[k] = log[k]
  BY Longer
<1>4. CASE LastSet(k)'
  BY <1>1, <1>3, <1>4, Zenon DEF IsSet
<1>5. CASE ~LastSet(k)'
  <2>1. e.wrapper = w /\ e.what \in {"init", "fail", "waits"}
    BY <1>1, <1>5, LastSetBefore
  <2> QED
    BY <1>2, <2>1, SetNow
<1> QED
  BY <1>4, <1>5

\* What is counted stays right.
LEMMA StaysCounted ==
  ASSUME Inv, Counted, NEW e \in Entry, log' = Append(log, e), array' = array, Countdown(e),
         state' \in [Wrappers -> [waits : u8, other : u8]]
  PROVE  Counted'
<1>1. /\ log \in Seq(Entry) /\ array \in Seq(u8)
      /\ \A w \in Wrappers : state[w].waits \in Nat
  BY Widths DEF Inv, TypeOK, u8
<1>2. PICK last : last = Len(log) + 1
  OBVIOUS
<1>3. /\ Len(log) \in Nat /\ Len(log') = last /\ log'[last] = e
      /\ \A k \in 1 .. Len(log) : log'[k] = log[k] /\ log[k] \in Entry
      /\ \A k \in 1 .. last : k \in 1 .. Len(log) \/ k = last
  BY <1>1, <1>2, Longer
<1>4. ASSUME NEW k \in 1 .. Len(log), LastSet(k)'
      PROVE  Cardinality(CallsOf(log[k].wrapper, k, last)') + state'[log[k].wrapper].waits
               = array[log[k].pos]
  <2>1. PICK w : w = log[k].wrapper
    OBVIOUS
  <2> DEFINE calls == CallsOf(w, k, Len(log))
  <2>2. LastSet(k) /\ ~(e.wrapper = w /\ e.what \in {"init", "fail", "waits"})
    BY <1>1, <1>4, <2>1, LastSetBefore, Zenon
  <2>3. Cardinality(calls) + state[w].waits = array[log[k].pos]
    BY <2>1, <2>2, Zenon DEF Counted
  <2>4. w \in Wrappers /\ state[w].waits \in Nat
    BY <1>1, <1>3, <2>1 DEF Entry
  <2>5. IsFiniteSet(calls) /\ Cardinality(calls) \in Nat
    BY <1>3, CallsAreFinite
  <2>6. last \notin calls
    BY <1>2, <1>3 DEF CallsOf
  <2>7. CallsOf(w, k, last)' = IF e.what = "call" /\ e.wrapper = w THEN calls \cup {last}
                                                               ELSE calls
    BY <1>1, <1>2, CallsBefore DEF CallsOf
  <2> HIDE DEF calls
  <2>8. log'[k].wrapper = w
    BY <1>3, <2>1
  <2>9. SUFFICES Cardinality(CallsOf(w, k, last)') + state'[w].waits = array[log[k].pos]
    BY <2>1, <2>8, Zenon
  <2>10. CASE e.what = "call" /\ e.wrapper = w
    <3>1. state[w].waits # 0 /\ state'[w].waits = state[w].waits - 1
      BY <2>10 DEF Countdown
    <3>2. Cardinality(calls \cup {last}) = Cardinality(calls) + 1
      BY <2>5, <2>6, FS_AddElement
    <3> QED
      <4>1. CallsOf(w, k, last)' = calls \cup {last}
        BY <2>7, <2>10, Zenon
      <4>2. Cardinality(CallsOf(w, k, last)') = Cardinality(calls) + 1
        BY <3>2, <4>1, Zenon
      <4>3. PICK n, m : n = Cardinality(calls) /\ m = state[w].waits
        OBVIOUS
      <4>4. n \in Nat /\ m \in Nat /\ n + m = array[log[k].pos] /\ (n + 1) + (m - 1) = n + m
        <5>1. n \in Nat /\ m \in Nat
          BY <2>4, <2>5, <4>3, Zenon
        <5>2. n + m = array[log[k].pos]
          BY <2>3, <4>3, Zenon
        <5>3. (n + 1) + (m - 1) = n + m
          BY <5>1
        <5> QED
          BY <5>1, <5>2, <5>3, Zenon
      <4>5. Cardinality(CallsOf(w, k, last)') = n + 1 /\ state'[w].waits = m - 1
        BY <3>1, <4>2, <4>3, Zenon
      <4> QED
        BY <4>4, <4>5, Zenon
  <2>11. CASE ~(e.what = "call" /\ e.wrapper = w)
    <3>1. state'[w].waits = state[w].waits
      BY <2>2, <2>4, <2>11 DEF Countdown
    <3> QED
      BY <2>3, <2>7, <2>11, <3>1
  <2> QED
    BY <2>10, <2>11
<1>5. ASSUME LastSet(last)'
      PROVE  Cardinality(CallsOf(e.wrapper, last, last)') + state'[e.wrapper].waits
               = array[e.pos]
  <2>1. e.what \in {"init", "fail", "waits"}
    BY <1>3, <1>5 DEF LastSet, SetsWaits
  <2>2. state'[e.wrapper].waits = array[e.pos]
    BY <2>1 DEF Countdown
  <2>3. CallsOf(e.wrapper, last, last)' = {}
    BY <1>2, <1>3 DEF CallsOf
  <2>4. array[e.pos] \in Nat
    BY <2>2, Widths DEF Entry, u8
  <2> QED
    BY <2>2, <2>3, <2>4, FS_EmptySet
<1> QED
  BY <1>2, <1>3, <1>4, <1>5 DEF Counted

LEMMA BetweenIsOf ==
  ASSUME NEW k, NEW m, NEW w, w = log[m].wrapper, NEW n, n = m - 1
  PROVE  CallsBetween(k, m) = CallsOf(w, k, n)
BY DEF CallsBetween, CallsOf

LEMMA BetweenBefore ==
  ASSUME log \in Seq(Entry), NEW e \in Entry, log' = Append(log, e), NEW m \in 1 .. Len(log),
         NEW k \in 1 .. Len(log)
  PROVE  /\ Follows(k, m)' <=> Follows(k, m)
         /\ CallsBetween(k, m)' = CallsBetween(k, m)
<1>1. /\ Len(log) \in Nat
      /\ \A j \in 1 .. Len(log) : log'[j] = log[j] /\ (SetsWaits(j)' <=> SetsWaits(j))
  BY Longer, LastSetBefore
<1>2. \A j \in k + 1 .. m - 1 : j \in 1 .. Len(log)
  BY <1>1
<1>3. Follows(k, m)' <=> Follows(k, m)
  BY <1>1, <1>2, Zenon DEF Follows
<1>4. CallsBetween(k, m)' = CallsBetween(k, m)
  BY <1>1, <1>2 DEF CallsBetween
<1> QED
  BY <1>3, <1>4

\* What the new entry follows, if it sets a countdown, is the last to do so.
LEMMA FollowsLast ==
  ASSUME log \in Seq(Entry), NEW e \in Entry, log' = Append(log, e),
         NEW last, last = Len(log) + 1, NEW k \in 1 .. Len(log)
  PROVE  /\ SetsWaits(k) /\ Follows(k, last)' <=> LastSet(k) /\ log[k].wrapper = e.wrapper
         /\ log[k].wrapper = e.wrapper =>
              CallsBetween(k, last)' = CallsOf(e.wrapper, k, Len(log))
<1>1. /\ Len(log) \in Nat /\ log'[last] = e
      /\ \A j \in 1 .. Len(log) : log'[j] = log[j] /\ (SetsWaits(j)' <=> SetsWaits(j))
  BY Longer, LastSetBefore
<1>2. last - 1 = Len(log) /\ k < last /\ \A j \in k + 1 .. Len(log) : j \in 1 .. Len(log)
  BY <1>1
<1>3. SetsWaits(k) /\ Follows(k, last)' <=> LastSet(k) /\ log[k].wrapper = e.wrapper
  BY <1>1, <1>2, Zenon DEF Follows, LastSet
<1>4. CallsBetween(k, last)' = CallsOf(e.wrapper, k, Len(log))
  BY <1>1, <1>2 DEF CallsBetween, CallsOf
<1> QED
  BY <1>3, <1>4

\* CountdownExact of one entry.
Exact(m) ==
  /\ log[m].what = "fail" =>
       /\ log[m].errno = array[log[m].pos + 1]
       /\ \E k \in DOMAIN log : SetsWaits(k) /\ Follows(k, m)
  /\ \A k \in DOMAIN log :
       SetsWaits(k) /\ Follows(k, m) =>
         LET n == Cardinality(CallsBetween(k, m)) IN
         /\ log[m].what = "fail" => n = array[log[k].pos]
         /\ n <= array[log[k].pos]

LEMMA StaysExact ==
  ASSUME Inv, Counted, CountdownExact, NEW e \in Entry, log' = Append(log, e),
         array' = array, Countdown(e)
  PROVE  CountdownExact'
<1>1. /\ log \in Seq(Entry) /\ array \in Seq(u8)
      /\ \A w \in Wrappers : state[w].waits \in Nat
  BY Widths DEF Inv, TypeOK, u8
<1>2. PICK last : last = Len(log) + 1
  OBVIOUS
<1>3. /\ Len(log) \in Nat /\ Len(log') = last /\ log'[last] = e
      /\ \A k \in 1 .. Len(log) : log'[k] = log[k] /\ log[k] \in Entry
      /\ \A k \in 1 .. last : k \in 1 .. Len(log) \/ k = last
      /\ \A k \in 1 .. Len(log) : k \in 1 .. last /\ k < last
      /\ DOMAIN log = 1 .. Len(log) /\ DOMAIN log' = 1 .. last
  BY <1>1, <1>2, Longer
<1>4. \A k \in 1 .. Len(log) : SetsWaits(k)' <=> SetsWaits(k)
  BY <1>1, LastSetBefore, Zenon
<1>5. ASSUME NEW m \in 1 .. last PROVE ~Follows(last, m)'
  BY <1>2, <1>3 DEF Follows
<1>6. ASSUME NEW m \in 1 .. Len(log) PROVE Exact(m)'
  <2>1. Exact(m)
    BY <1>3, Zenon DEF CountdownExact, Exact
  <2>2. /\ \A k \in 1 .. Len(log) : Follows(k, m)' <=> Follows(k, m)
        /\ \A k \in 1 .. Len(log) : CallsBetween(k, m)' = CallsBetween(k, m)
    BY <1>1, BetweenBefore
  <2>3. m \in 1 .. last
    BY <1>3
  <2> QED
    BY <1>3, <1>4, <1>5, <2>1, <2>2, <2>3, Zenon DEF Exact
<1>7. Exact(last)'
  <2>1. e.wrapper \in Wrappers
    BY DEF Entry
  <2>2. ASSUME NEW k \in 1 .. Len(log), SetsWaits(k), Follows(k, last)'
        PROVE  /\ e.what = "fail" => Cardinality(CallsBetween(k, last)') = array[log[k].pos]
               /\ Cardinality(CallsBetween(k, last)') <= array[log[k].pos]
    <3>1. /\ LastSet(k) /\ log[k].wrapper = e.wrapper
          /\ CallsBetween(k, last)' = CallsOf(e.wrapper, k, Len(log))
      BY <1>1, <1>2, <2>2, FollowsLast
    <3>2. PICK n, m : n = Cardinality(CallsBetween(k, last)') /\ m = state[e.wrapper].waits
      OBVIOUS
    <3>3. n \in Nat /\ m \in Nat
      <4>1. Cardinality(CallsOf(e.wrapper, k, Len(log))) \in Nat
        BY <1>3, CallsAreFinite
      <4> QED
        BY <1>1, <2>1, <3>1, <3>2, <4>1, Zenon
    <3>4. n + m = array[log[k].pos]
      BY <3>1, <3>2, Zenon DEF Counted
    <3>5. e.what = "fail" => m = 0
      BY <3>2 DEF Countdown
    <3>6. n <= n + m /\ (m = 0 => n + m = n)
      BY <3>3
    <3> QED
      BY <3>2, <3>4, <3>5, <3>6, Zenon
  <2>3. ASSUME e.what = "fail" PROVE \E k \in 1 .. Len(log) : SetsWaits(k) /\ Follows(k, last)'
    <3>1. PICK k \in 1 .. Len(log) : log[k].wrapper = e.wrapper /\ LastSet(k)
      BY <2>3 DEF Countdown, IsSet
    <3>2. SetsWaits(k) /\ Follows(k, last)'
      BY <1>1, <1>2, <3>1, FollowsLast
    <3> QED
      BY <3>2
  <2>4. e.what = "fail" => e.errno = array[e.pos + 1]
    BY DEF Countdown
  <2>5. last \in 1 .. last
    BY <1>2, <1>3
  <2> QED
    BY <1>3, <1>4, <1>5, <2>2, <2>3, <2>4, <2>5, Zenon DEF Exact
<1>8. \A m \in 1 .. last : Exact(m)'
  BY <1>3, <1>6, <1>7, Zenon
<1> QED
  BY <1>3, <1>8, Zenon DEF CountdownExact, Exact

\* A step that logs an entry.
LEMMA EntryCounts ==
  ASSUME Inv, CountInv, NEW e \in Entry, log' = Append(log, e), array' = array, Countdown(e),
         state' \in [Wrappers -> [waits : u8, other : u8]], monkey_buf'.data = monkey_buf.data
  PROVE  /\ Memory' /\ Counted' /\ CountdownExact'
         /\ \A v : IsSet(v) => IsSet(v)'
         /\ e.what \in {"init", "fail", "waits"} => IsSet(e.wrapper)'
<1>1. log \in Seq(Entry)
  BY DEF Inv
<1>2. PICK last : last = Len(log) + 1
  OBVIOUS
<1>3. Memory'
  BY Zenon DEF CountInv, Memory
<1>4. Counted' /\ CountdownExact'
  BY StaysCounted, StaysExact DEF CountInv
<1>5. ASSUME NEW v, IsSet(v) PROVE IsSet(v)'
  BY <1>1, <1>5, StaysSet
<1>6. e.what \in {"init", "fail", "waits"} => IsSet(e.wrapper)'
  BY <1>1, <1>2, SetNow
<1> QED
  BY <1>3, <1>4, <1>5, <1>6, Zenon

LEMMA BothCount ==
  ASSUME Inv, CountInv, NEW w \in Wrappers, NEW what \in {"init", "fail"}, NEW errno \in u8,
         DrawsBoth(w), Logged(w, what, errno), array' = array,
         what = "fail" => state[w].waits = 0 /\ errno = state'[w].other /\ IsSet(w)
  PROVE  /\ Memory' /\ Counted' /\ CountdownExact'
         /\ \A v : IsSet(v) => IsSet(v)'
         /\ IsSet(w)'
<1>1. /\ Left >= 2 /\ BufferOfArray /\ array \in Seq(u8) /\ Pos \in Nat
      /\ state \in [Wrappers -> [waits : u8, other : u8]]
      /\ monkey_buf.startpos \in Nat /\ monkey_buf.startpos + 2 <= Len(array)
      /\ Pos = monkey_buf.startpos + 1 /\ Len(array) \in Nat
  BY DrawTwo DEF DrawsBoth, Inv, TypeOK, BufferOfArray, Pos
<1>2. monkey_buf'.data = monkey_buf.data
  BY <1>1, DrawTwo DEF DrawsBoth
<1>3. /\ LSlice_ref_start(monkey_buf) = array[Pos]
      /\ LSlice_ref_start(Buffer_getc(monkey_buf)) = array[Pos + 1]
  <2>1. /\ LSlice_ref_start(monkey_buf) = monkey_buf.data[monkey_buf.startpos]
        /\ LSlice_ref_start(Buffer_getc(monkey_buf)) = monkey_buf.data[monkey_buf.startpos + 1]
    <3>1. Left >= 1
      BY <1>1 DEF BufferOfArray, Left, LSlice_length
    <3> QED
      BY <1>1, <3>1, DrawOne DEF LSlice_ref_start
  <2>2. /\ monkey_buf.data[monkey_buf.startpos] = array[monkey_buf.startpos + 1]
        /\ monkey_buf.data[monkey_buf.startpos + 1] = array[monkey_buf.startpos + 1 + 1]
    BY <1>1 DEF CountInv, Memory
  <2> QED
    BY <1>1, <2>1, <2>2
<1>4. /\ state' \in [Wrappers -> [waits : u8, other : u8]]
      /\ state'[w].waits = array[Pos] /\ state'[w].other = array[Pos + 1]
      /\ \A v \in Wrappers : v # w => state'[v] = state[v]
  <2>1. PICK new : new = [waits |-> LSlice_ref_start(monkey_buf),
                          other |-> LSlice_ref_start(Buffer_getc(monkey_buf))]
    OBVIOUS
  <2>2. /\ new \in [waits : u8, other : u8]
        /\ new.waits = array[Pos] /\ new.other = array[Pos + 1]
    BY <1>1, <1>3, <2>1, DrawTwo
  <2>3. state' = [state EXCEPT ![w] = new]
    BY <2>1, Zenon DEF DrawsBoth
  <2> QED
    BY <1>1, <2>2, <2>3
<1>5. PICK e : e = [wrapper |-> w, what |-> what, pos |-> Pos, errno |-> errno]
  OBVIOUS
<1>6. /\ e \in Entry /\ log' = Append(log, e) /\ e.what = what /\ e.wrapper = w /\ e.pos = Pos
      /\ e.errno = errno
  BY <1>1, <1>5 DEF Logged, Entry
<1>7. Countdown(e)
  BY <1>4, <1>6 DEF Countdown
<1> QED
  BY <1>2, <1>4, <1>6, <1>7, EntryCounts

LEMMA OneCounts ==
  ASSUME Inv, CountInv, NEW w \in Wrappers, NEW field \in {"waits", "other"},
         Draws(w, field), Logged(w, field, 0), array' = array
  PROVE  /\ Memory' /\ Counted' /\ CountdownExact'
         /\ \A v : IsSet(v) => IsSet(v)'
<1>1. /\ Left >= 1 /\ BufferOfArray /\ array \in Seq(u8) /\ Pos \in Nat /\ 0 \in u8
      /\ state \in [Wrappers -> [waits : u8, other : u8]]
      /\ monkey_buf.startpos \in Nat /\ monkey_buf.startpos + 1 <= Len(array)
      /\ Pos = monkey_buf.startpos + 1 /\ Len(array) \in Nat
  BY DrawOne, Widths DEF Draws, Inv, TypeOK, BufferOfArray, Pos, u8
<1>2. monkey_buf'.data = monkey_buf.data
  BY <1>1, DrawOne DEF Draws
<1>3. LSlice_ref_start(monkey_buf) = array[Pos] /\ LSlice_ref_start(monkey_buf) \in u8
  <2>1. monkey_buf.data[monkey_buf.startpos] = array[monkey_buf.startpos + 1]
    BY <1>1 DEF CountInv, Memory
  <2> QED
    BY <1>1, <2>1, DrawOne DEF LSlice_ref_start
<1>4. /\ state' \in [Wrappers -> [waits : u8, other : u8]]
      /\ field = "waits" => state'[w].waits = array[Pos]
      /\ field = "other" => state'[w].waits = state[w].waits
      /\ \A v \in Wrappers : v # w => state'[v] = state[v]
  <2>1. PICK b : b = LSlice_ref_start(monkey_buf)
    OBVIOUS
  <2>2. state' = [state EXCEPT ![w] = [@ EXCEPT ![field] = b]] /\ b \in u8 /\ b = array[Pos]
    BY <1>3, <2>1, Zenon DEF Draws
  <2>3. CASE field = "waits"
    BY <1>1, <2>2, <2>3
  <2>4. CASE field = "other"
    BY <1>1, <2>2, <2>4
  <2> QED
    BY <2>3, <2>4
<1>5. PICK e : e = [wrapper |-> w, what |-> field, pos |-> Pos, errno |-> 0]
  OBVIOUS
<1>6. e \in Entry /\ log' = Append(log, e) /\ e.what = field /\ e.wrapper = w /\ e.pos = Pos
  BY <1>1, <1>5 DEF Logged, Entry
<1>7. Countdown(e)
  BY <1>4, <1>6 DEF Countdown
<1> QED
  BY <1>2, <1>4, <1>6, <1>7, EntryCounts

\* A call that goes through.
LEMMA CallCounts ==
  ASSUME Inv, CountInv, NEW w \in Wrappers, CallPasses(w)
  PROVE  /\ Memory' /\ Counted' /\ CountdownExact'
         /\ \A v : IsSet(v) => IsSet(v)'
<1>1. /\ BufferOfArray /\ Pos \in Nat /\ 0 \in u8
      /\ state \in [Wrappers -> [waits : u8, other : u8]]
      /\ state[w].waits \in Nat /\ state[w].waits <= U8_MAX /\ state[w].waits # 0
  BY Widths DEF CallPasses, Passes, Inv, TypeOK, BufferOfArray, Pos, u8
<1>2. (state[w].waits + U8_MAX) % (U8_MAX + 1) = state[w].waits - 1
  <2>1. \A x, u \in Nat : x # 0 /\ x <= u => (x + u) % (u + 1) = x - 1
    OBVIOUS
  <2> QED
    BY <1>1, <2>1, Widths
<1>3. /\ state' \in [Wrappers -> [waits : u8, other : u8]]
      /\ state'[w].waits = state[w].waits - 1
      /\ \A v \in Wrappers : v # w => state'[v] = state[v]
  <2>1. PICK n : n = (state[w].waits + U8_MAX) % (U8_MAX + 1)
    OBVIOUS
  <2>2. state' = [state EXCEPT ![w].waits = n]
    BY <2>1 DEF CallPasses
  <2>3. n = state[w].waits - 1 /\ n \in u8
    BY <1>1, <1>2, <2>1, Widths DEF u8
  <2> QED
    BY <1>1, <2>2, <2>3
<1>4. PICK e : e = [wrapper |-> w, what |-> "call", pos |-> Pos, errno |-> 0]
  OBVIOUS
<1>5. e \in Entry /\ log' = Append(log, e) /\ e.what = "call" /\ e.wrapper = w
  BY <1>1, <1>4 DEF CallPasses, Logged, Entry
<1>6. Countdown(e)
  BY <1>1, <1>3, <1>5 DEF Countdown
<1>7. array' = array /\ monkey_buf'.data = monkey_buf.data
  BY DEF CallPasses
<1> QED
  BY <1>3, <1>5, <1>6, <1>7, EntryCounts

\* Steps that leave what was counted alone.
LEMMA CountFrame ==
  ASSUME Inv, CountInv, UNCHANGED <<monkey_buf, array, log, state>>
  PROVE  Memory' /\ Counted' /\ CountdownExact' /\ \A v : IsSet(v) => IsSet(v)'
<1>1. \A k : /\ SetsWaits(k)' <=> SetsWaits(k)
             /\ LastSet(k)' <=> LastSet(k)
  BY Zenon DEF SetsWaits, LastSet
<1>2. \A v, k, n : CallsOf(v, k, n)' = CallsOf(v, k, n)
  BY Zenon DEF CallsOf
<1>3. \A k, m : Follows(k, m)' <=> Follows(k, m)
  BY <1>1, Zenon DEF Follows
<1>4. \A k, m : CallsBetween(k, m)' = CallsBetween(k, m)
  BY Zenon DEF CallsBetween
<1>5. Memory'
  BY Zenon DEF CountInv, Memory
<1>6. Counted'
  BY <1>1, <1>2, Zenon DEF CountInv, Counted
<1>7. CountdownExact'
  BY <1>1, <1>3, <1>4, Zenon DEF CountInv, CountdownExact
<1>8. \A v : IsSet(v) => IsSet(v)'
  BY <1>1, Zenon DEF IsSet
<1> QED
  BY <1>5, <1>6, <1>7, <1>8, Zenon

\* An empty log.
LEMMA NothingCounted ==
  ASSUME log' = <<>>, Memory', pc' \in {"main", "monkey_init"},
         monkey_monkeywrapperstates' \in Seq(Wrappers)
  PROVE  CountInv'
<1>1. Len(log') = 0 /\ 1 .. 0 = {} /\ DOMAIN log' = {}
  OBVIOUS
<1>2. Counted' /\ CountdownExact'
  BY <1>1 DEF Counted, CountdownExact
<1>3. AllSet'
  BY <1>1 DEF AllSet
<1> QED
  BY <1>2, <1>3 DEF CountInv

LEMMA InitCountInv == Init => CountInv
<1> SUFFICES ASSUME Init PROVE CountInv
  OBVIOUS
<1>1. log = <<>> /\ array = <<>> /\ pc = "constructors" /\ Len(log) = 0 /\ Len(array) = 0
      /\ 1 .. 0 = {} /\ DOMAIN log = {}
  BY DEF Init
<1> QED
  BY <1>1 DEF CountInv, Memory, Counted, AllSet, CountdownExact

LEMMA WrapperCounts ==
  ASSUME Inv, CountInv, NEW w \in Wrappers,
         \/ CallPasses(w) \/ CallFails(w)
         \/ monkeywrapperstate_refresh_waits(w) \/ monkeywrapperstate_refresh_other(w)
  PROVE  CountInv'
<1>1. /\ pc = "test_case" /\ w \in Registered /\ array' = array
      /\ monkey_monkeywrapperstates' = monkey_monkeywrapperstates
      /\ pc' \in {"test_case", "aborted"}
  BY DEF CallPasses, CallFails, monkeywrapperstate_refresh_waits,
     monkeywrapperstate_refresh_other, monkeywrapperstate_refresh, Running, DIE
<1>2. Registered' = Registered /\ \A v \in Registered : IsSet(v)
  BY <1>1, Zenon DEF CountInv, AllSet, Registered
<1>3. ASSUME Memory' /\ Counted' /\ CountdownExact', \A v : IsSet(v) => IsSet(v)'
      PROVE  CountInv'
  <2>1. AllSet'
    BY <1>1, <1>2, <1>3 DEF AllSet
  <2> QED
    BY <1>3, <2>1 DEF CountInv
<1>4. CASE DIE /\ UNCHANGED array
  BY <1>3, <1>4, CountFrame DEF DIE
<1>5. CASE CallPasses(w)
  BY <1>3, <1>5, CallCounts
<1>6. CASE CallFails(w)
  <2>1. CASE DrawsBoth(w) /\ Logged(w, "fail", state'[w].other)
    <3>1. state[w].waits = 0
      BY <1>6 DEF CallFails, Passes
    <3>2. state'[w].other \in u8
      BY <2>1, DrawTwo DEF DrawsBoth, Inv, TypeOK
    <3>3. PICK errno \in u8 : errno = state'[w].other
      BY <3>2
    <3> QED
      BY <1>1, <1>2, <1>3, <2>1, <3>1, <3>3, BothCount
  <2> QED
    BY <1>1, <1>4, <1>6, <2>1 DEF CallFails
<1>7. ASSUME NEW field \in {"waits", "other"}, monkeywrapperstate_refresh(w, field)
      PROVE  CountInv'
  <2>1. CASE Draws(w, field) /\ Logged(w, field, 0)
    BY <1>1, <1>3, <2>1, OneCounts
  <2> QED
    BY <1>1, <1>4, <1>7, <2>1 DEF monkeywrapperstate_refresh
<1> QED
  BY <1>5, <1>6, <1>7 DEF monkeywrapperstate_refresh_waits, monkeywrapperstate_refresh_other

LEMMA NextCountInv == Inv /\ CountInv /\ [Next]_vars => CountInv'
<1> SUFFICES ASSUME Inv, CountInv, [Next]_vars PROVE CountInv'
  OBVIOUS
<1>1. /\ monkey_monkeywrapperstates \in Seq(Wrappers) /\ log \in Seq(Entry)
      /\ Len(log) \in Nat
  BY DEF Inv, TypeOK
<1>2. ASSUME UNCHANGED <<monkey_buf, array, log, state>>, AllSet' PROVE CountInv'
  BY <1>2, CountFrame DEF CountInv
<1>3. ASSUME NEW w \in Wrappers, monkey_register_monkeywrapperstate(w) PROVE CountInv'
  <2>1. UNCHANGED <<monkey_buf, array, log, state>> /\ pc' \in {"constructors", "aborted"}
    BY <1>3 DEF monkey_register_monkeywrapperstate, DIE
  <2> QED
    BY <1>2, <2>1 DEF AllSet
<1>4. CASE Start
  BY <1>2, <1>4 DEF Start, AllSet
<1>5. ASSUME NEW bytes \in [1 .. MONKEY_INIT_LEN -> u8], monkey_init(bytes) PROVE CountInv'
  <2>1. bytes \in Seq(u8)
    BY Widths
  <2>2. /\ monkey_buf' = Copied(bytes) /\ array' = bytes /\ log' = <<>>
        /\ monkey_monkeywrapperstates' = monkey_monkeywrapperstates /\ pc' = "monkey_init"
    BY <1>5 DEF monkey_init
  <2>3. Memory'
    BY <2>1, <2>2 DEF Memory, Copied, Buffer_from_array
  <2> QED
    BY <1>1, <2>2, <2>3, NothingCounted
<1>6. CASE InitState
  <2>1. PICK w : w = monkey_monkeywrapperstates[Len(log) + 1]
    OBVIOUS
  <2>2. /\ pc = "monkey_init" /\ Len(log) < Len(monkey_monkeywrapperstates) /\ array' = array
        /\ monkey_monkeywrapperstates' = monkey_monkeywrapperstates
        /\ \/ DrawsBoth(w) /\ Logged(w, "init", 0) /\ pc' = pc
           \/ DIE
    BY <1>6, <2>1 DEF InitState, DIE
  <2>3. CASE DIE
    <3>1. pc' = "aborted" /\ UNCHANGED <<monkey_buf, array, log, state>>
      BY <2>2, <2>3 DEF DIE
    <3> QED
      BY <1>2, <3>1 DEF AllSet
  <2>4. CASE DrawsBoth(w) /\ Logged(w, "init", 0) /\ pc' = pc
    <3>1. w \in Wrappers /\ 0 \in u8
      BY <1>1, <2>1, <2>2, Widths DEF u8
    <3>2. /\ Memory' /\ Counted' /\ CountdownExact' /\ IsSet(w)'
          /\ \A v : IsSet(v) => IsSet(v)'
      BY <2>2, <2>4, <3>1, BothCount
    <3>3. Len(log') = Len(log) + 1
      BY <1>1, <2>4 DEF Logged
    <3>4. \A j \in 1 .. Len(log') : j \in 1 .. Len(log) \/ j = Len(log) + 1
      BY <1>1, <3>3
    <3>5. \A j \in 1 .. Len(log) : IsSet(monkey_monkeywrapperstates[j])
      BY <2>2 DEF CountInv, AllSet
    <3>6. \A j \in 1 .. Len(log') : IsSet(monkey_monkeywrapperstates[j])'
      BY <2>1, <2>2, <3>2, <3>4, <3>5
    <3>7. AllSet'
      BY <1>1, <2>2, <2>4, <3>3, <3>6 DEF AllSet
    <3> QED
      BY <3>2, <3>7 DEF CountInv
  <2> QED
    BY <2>2, <2>3, <2>4
<1>7. CASE InitDone
  <2>1. /\ pc = "monkey_init" /\ Len(log) = Len(monkey_monkeywrapperstates)
        /\ pc' = "test_case" /\ UNCHANGED <<monkey_buf, array, log, state>>
        /\ monkey_monkeywrapperstates' = monkey_monkeywrapperstates
    BY <1>7 DEF InitDone
  <2>2. \A w \in Registered' : IsSet(w)
    <3>1. \A w \in Registered' : \E j \in 1 .. Len(log) : w = monkey_monkeywrapperstates[j]
      BY <1>1, <2>1 DEF Registered
    <3> QED
      BY <2>1, <3>1 DEF CountInv, AllSet
  <2>3. \A v : IsSet(v) => IsSet(v)'
    BY <2>1, CountFrame
  <2>4. AllSet'
    BY <2>1, <2>2, <2>3 DEF AllSet
  <2> QED
    BY <1>2, <2>1, <2>4
<1>8. CASE monkey_release
  <2>1. /\ array' = <<>> /\ log' = <<>> /\ pc' = "main"
        /\ monkey_monkeywrapperstates' = monkey_monkeywrapperstates
    BY <1>8 DEF monkey_release
  <2>2. Memory'
    <3>1. Len(<<>>) = 0
      OBVIOUS
    <3> QED
      BY <2>1, <3>1 DEF Memory
  <2> QED
    BY <1>1, <2>1, <2>2, NothingCounted
<1>9. CASE Aborted \/ UNCHANGED vars
  <2>1. UNCHANGED <<waiting, monkey_monkeywrapperstates, monkey_buf, state, pc, array, log>>
    BY <1>9 DEF Aborted, vars
  <2>2. \A v : IsSet(v) => IsSet(v)'
    BY <2>1, CountFrame
  <2>3. AllSet'
    <3>1. Registered' = Registered
      BY <2>1, Zenon DEF Registered
    <3> QED
      BY <2>1, <2>2, <3>1 DEF CountInv, AllSet
  <2> QED
    BY <1>2, <2>1, <2>3
<1> QED
  BY <1>3, <1>4, <1>5, <1>6, <1>7, <1>8, <1>9, WrapperCounts DEF Next

\* The bytes of the array alone decide which call of a wrapper fails and with
\* which errno, for any number of wrappers that share them, in any order of the
\* calls, and for every test case of a run.
THEOREM CountsDownExactly == Spec => []CountdownExact
<1>1. Inv /\ CountInv /\ [Next]_vars => (Inv /\ CountInv)'
  BY NextInv, NextCountInv
<1>2. CountInv => CountdownExact
  BY DEF CountInv
<1> QED
  BY InitInv, InitCountInv, <1>1, <1>2, PTL DEF Spec
=============================================================================
