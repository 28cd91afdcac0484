------------------------------- MODULE Monkey -------------------------------
(***************************************************************************)
(* Fault injection for AFL (monkey.h, and monkey-posix.h for a wrapper):   *)
(* each wrapper of a system call has a state of its own, a countdown of    *)
(* the calls that go through and a byte for the failure, and all of them   *)
(* draw their bytes from one buffer, the first bytes of the test case.     *)
(*                                                                         *)
(* The states register themselves before main.  main initialises all of    *)
(* them anew for each test case.  No build includes a wrapper any more     *)
(* ("Now unused", monkey-posix.h:10), so that none registers; here any of  *)
(* Wrappers may be there.  A wrapper calls what monkey_open__2 calls; the  *)
(* refreshing of one byte alone is for wrappers yet to be written.         *)
(***************************************************************************)
EXTENDS Buffer, Sequences, FiniteSets

CONSTANTS
  Wrappers,          \* the wrappers that may be compiled in
  MONKEY_MAX_MONKEYWRAPPERSTATE_INSTANCES,
  MONKEY_INIT_LEN,   \* length of the array that main hands over
  U8_MAX,            \* the greatest value of a u8
  MaxEvents          \* bound: length of the log

ASSUME WidthAssumption ==
  {MONKEY_MAX_MONKEYWRAPPERSTATE_INSTANCES, MONKEY_INIT_LEN, U8_MAX, MaxEvents} \subseteq Nat

u8 == 0 .. U8_MAX

VARIABLES
  waiting,                    \* constructors that have not run yet
  monkey_monkeywrapperstates, \* the wrappers, in the order they registered
  monkey_buf,
  state,                      \* the MonkeyWrapperState of each wrapper
  pc,                         \* what runs now
  array,                      \* the test case
  log                         \* history: what the wrappers did in this test case

vars == <<waiting, monkey_monkeywrapperstates, monkey_buf, state, pc, array, log>>

Init ==
  /\ waiting \in SUBSET Wrappers
  /\ monkey_monkeywrapperstates = <<>>
  /\ monkey_buf = Buffer_from_array(<<>>, 0)
  /\ state = [w \in Wrappers |-> [waits |-> 0, other |-> 0]]
  /\ pc = "constructors" /\ array = <<>> /\ log = <<>>

Registered ==
  {monkey_monkeywrapperstates[k] : k \in DOMAIN monkey_monkeywrapperstates}

DIE ==
  /\ pc' = "aborted"
  /\ UNCHANGED <<monkey_monkeywrapperstates, monkey_buf, state, log>>

-----------------------------------------------------------------------------
(* Drawing bytes *)

\* The bytes that are left.
Left == LSlice_length(monkey_buf)

\* The position in the array, from 1, of the next byte.
Pos == monkey_buf.startpos + 1

\* One byte is drawn for `field', or DIE ends the program.
Draws(w, field) ==
  /\ Left >= 1
  /\ state' = [state EXCEPT ![w] = [@ EXCEPT ![field] = LSlice_ref_start(monkey_buf)]]
  /\ monkey_buf' = Buffer_getc(monkey_buf)

\* Mutant: the second byte is the first one again.
DrawsBoth_Once(w) ==
  /\ Left >= 2
  /\ state' = [state EXCEPT ![w] = [waits |-> LSlice_ref_start(monkey_buf),
                                    other |-> LSlice_ref_start(monkey_buf)]]
  /\ monkey_buf' = Buffer_getc(monkey_buf)

\* new_MonkeyWrapperState and monkeywrapperstate_refresh_both: first waits.
DrawsBoth(w) ==
  /\ Left >= 2
  /\ state' = [state EXCEPT ![w] =
                 [waits |-> LSlice_ref_start(monkey_buf),
                  other |-> LSlice_ref_start(Buffer_getc(monkey_buf))]]
  /\ monkey_buf' = Buffer_getc(Buffer_getc(monkey_buf))

Logged(w, what, errno) ==
  log' = Append(log, [wrapper |-> w, what |-> what, pos |-> Pos, errno |-> errno])

-----------------------------------------------------------------------------
(* Before main, and the loop of main *)

\* Mutant: one pointer goes behind the end of the table.
TableHasRoom_OffByOne ==
  Len(monkey_monkeywrapperstates) <= MONKEY_MAX_MONKEYWRAPPERSTATE_INSTANCES

TableHasRoom ==
  Len(monkey_monkeywrapperstates) < MONKEY_MAX_MONKEYWRAPPERSTATE_INSTANCES

\* The constructors run in an order nobody chose.
monkey_register_monkeywrapperstate(w) ==
  /\ pc = "constructors" /\ w \in waiting
  /\ waiting' = waiting \ {w}
  /\ \/ /\ TableHasRoom
        /\ monkey_monkeywrapperstates' = Append(monkey_monkeywrapperstates, w)
        /\ UNCHANGED <<monkey_buf, state, pc, log>>
     \/ ~TableHasRoom /\ DIE
  /\ UNCHANGED array

Start ==
  /\ pc = "constructors" /\ waiting = {}
  /\ pc' = "main"
  /\ UNCHANGED <<waiting, monkey_monkeywrapperstates, monkey_buf, state, array, log>>

\* Buffer_from_array of the copy that xmemcpy makes.
Copied(bytes) ==
  Buffer_from_array([k \in 0 .. Len(bytes) - 1 |-> bytes[k + 1]], Len(bytes))

monkey_init(bytes) ==
  /\ pc = "main"
  /\ monkey_buf' = Copied(bytes)
  /\ array' = bytes /\ log' = <<>>
  /\ pc' = "monkey_init"
  /\ UNCHANGED <<waiting, monkey_monkeywrapperstates, state>>

\* The loop of monkey_init, one iteration for each state; the log tells how
\* many there were.
InitState ==
  /\ pc = "monkey_init" /\ Len(log) < Len(monkey_monkeywrapperstates)
  /\ LET w == monkey_monkeywrapperstates[Len(log) + 1] IN
     \/ /\ DrawsBoth(w)
        /\ Logged(w, "init", 0)
        /\ UNCHANGED <<monkey_monkeywrapperstates, pc>>
     \/ Left < 2 /\ DIE
  /\ UNCHANGED <<waiting, array>>

InitDone ==
  /\ pc = "monkey_init" /\ Len(log) = Len(monkey_monkeywrapperstates)
  /\ pc' = "test_case"
  /\ UNCHANGED <<waiting, monkey_monkeywrapperstates, monkey_buf, state, array, log>>

\* The copy is freed; the states keep what the test case has left in them.
monkey_release ==
  /\ pc = "test_case"
  /\ pc' = "main"
  /\ monkey_buf' = Buffer_from_array(<<>>, 0)
  /\ array' = <<>> /\ log' = <<>>
  /\ UNCHANGED <<waiting, monkey_monkeywrapperstates, state>>

-----------------------------------------------------------------------------
(* The test case calls wrappers *)

Running(w) == pc = "test_case" /\ w \in Registered /\ Len(log) < MaxEvents

\* if (waits--)
Passes(w) == state[w].waits # 0

\* Mutant: a wrapper counts down the state of the one that registered first.
CallPasses_OtherState(w) ==
  /\ Running(w) /\ Passes(w)
  /\ state' = [state EXCEPT ![monkey_monkeywrapperstates[1]].waits =
                               (@ + U8_MAX) % (U8_MAX + 1)]
  /\ Logged(w, "call", 0)
  /\ UNCHANGED <<waiting, monkey_monkeywrapperstates, monkey_buf, pc, array>>

\* The call goes to the system.
CallPasses(w) ==
  /\ Running(w) /\ Passes(w)
  /\ state' = [state EXCEPT ![w].waits = (@ + U8_MAX) % (U8_MAX + 1)]
  /\ Logged(w, "call", 0)
  /\ UNCHANGED <<waiting, monkey_monkeywrapperstates, monkey_buf, pc, array>>

\* The countdown, which has just wrapped around, and the byte are drawn anew;
\* errno is the byte drawn now.
CallFails(w) ==
  /\ Running(w) /\ ~Passes(w)
  /\ \/ /\ DrawsBoth(w)
        /\ Logged(w, "fail", state'[w].other)
        /\ UNCHANGED <<monkey_monkeywrapperstates, pc>>
     \/ Left < 2 /\ DIE
  /\ UNCHANGED <<waiting, array>>

monkeywrapperstate_refresh(w, field) ==
  /\ Running(w)
  /\ \/ /\ Draws(w, field)
        /\ Logged(w, field, 0)
        /\ UNCHANGED <<monkey_monkeywrapperstates, pc>>
     \/ Left < 1 /\ DIE
  /\ UNCHANGED <<waiting, array>>

\* monkeywrapperstate_refresh_waits and monkeywrapperstate_refresh_other
monkeywrapperstate_refresh_waits(w) == monkeywrapperstate_refresh(w, "waits")
monkeywrapperstate_refresh_other(w) == monkeywrapperstate_refresh(w, "other")

Aborted == pc = "aborted" /\ UNCHANGED vars

Next ==
  \/ \E w \in Wrappers :
       \/ monkey_register_monkeywrapperstate(w)
       \/ CallPasses(w) \/ CallFails(w)
       \/ monkeywrapperstate_refresh_waits(w) \/ monkeywrapperstate_refresh_other(w)
  \/ Start
  \/ \E bytes \in [1 .. MONKEY_INIT_LEN -> u8] : monkey_init(bytes)
  \/ InitState \/ InitDone \/ monkey_release
  \/ Aborted

Spec == Init /\ [][Next]_vars

-----------------------------------------------------------------------------
(* Properties *)

\* Also, the table of pointers holds what registers itself.
TypeOK ==
  /\ waiting \subseteq Wrappers
  /\ monkey_monkeywrapperstates \in Seq(Wrappers)
  /\ Len(monkey_monkeywrapperstates) <= MONKEY_MAX_MONKEYWRAPPERSTATE_INSTANCES
  /\ Buffer_assert(monkey_buf)
  /\ state \in [Wrappers -> [waits : u8, other : u8]]
  /\ pc \in {"constructors", "main", "monkey_init", "test_case", "aborted"}

\* The entries of the log that set the countdown of their wrapper.
SetsWaits(k) == log[k].what \in {"init", "fail", "waits"}

\* Of one wrapper, with no countdown set in between.
Follows(k, m) ==
  /\ k < m /\ log[k].wrapper = log[m].wrapper
  /\ ~\E j \in k + 1 .. m - 1 : log[j].wrapper = log[m].wrapper /\ SetsWaits(j)

CallsBetween(k, m) ==
  {j \in k + 1 .. m - 1 : log[j].what = "call" /\ log[j].wrapper = log[m].wrapper}

\* The array alone decides what fails and when: between two draws as many
\* calls of a wrapper go through as the byte of the first one says, if the
\* second is a failure, and no more in any case, whatever the other wrappers
\* do and however the test case before this one ended; the failure is the one
\* that is drawn when it happens.
CountdownExact ==
  \A m \in DOMAIN log :
    /\ log[m].what = "fail" =>
         /\ log[m].errno = array[log[m].pos + 1]
         /\ \E k \in DOMAIN log : SetsWaits(k) /\ Follows(k, m)
    /\ \A k \in DOMAIN log :
         SetsWaits(k) /\ Follows(k, m) =>
           LET n == Cardinality(CallsBetween(k, m)) IN
           /\ log[m].what = "fail" => n = array[log[k].pos]
           /\ n <= array[log[k].pos]

\* How many bytes an entry of the log has drawn.
Drawn(k) ==
  IF log[k].what \in {"init", "fail"} THEN 2
  ELSE IF log[k].what \in {"waits", "other"} THEN 1 ELSE 0

\* All states share the buffer, and no two draws the same byte: they draw one
\* after the other, leave no byte out, and never one behind the array's end.
EachByteOnce ==
  \A k \in DOMAIN log :
    /\ log[k].pos + Drawn(k) =
         IF k = Len(log) THEN Pos ELSE log[k + 1].pos
    /\ k = 1 => log[k].pos = 1
    /\ log[k].pos + Drawn(k) - 1 <= Len(array)
=============================================================================
