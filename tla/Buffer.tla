------------------------------- MODULE Buffer -------------------------------
(***************************************************************************)
(* Buffer.h, with the LSlice_u8 it holds (LSlice.h) flattened into the     *)
(* same record: a fixed block of memory, `data', of which the positions    *)
(* startpos .. endpos-1 are "the unused (read or unwritten) data".         *)
(*                                                                         *)
(* Buffer_getc and Buffer_putc return a value and change the buffer; here  *)
(* each is an operator for the changed buffer, and the value is named      *)
(* separately.  size_t positions are naturals: BufferSound, an invariant   *)
(* of every module that uses these operators, keeps the one subtraction    *)
(* (LSlice_length) from wrapping.                                          *)
(***************************************************************************)
EXTENDS Integers

\* LSlice_is_empty and LSlice_length.
LSlice_is_empty(b) == b.startpos >= b.endpos
LSlice_length(b)   == b.endpos - b.startpos

\* Buffer_assert, less the non-NULL data pointer.
Buffer_assert(b) == b.endpos <= b.size /\ b.startpos <= b.endpos

\* All of the array is content still to be read.
Buffer_from_array(array, size) ==
  [startpos |-> 0, endpos |-> size, data |-> array, size |-> size]

\* The memory is only room to read into or to write to.
Buffer_from_buf(buf, size) ==
  [startpos |-> 0, endpos |-> 0, data |-> buf, size |-> size]

\* The byte Buffer_getc returns from a buffer that is not empty.
LSlice_ref_start(b) == b.data[b.startpos]

\* The buffer Buffer_getc leaves behind.
Buffer_getc(b) == [b EXCEPT !.startpos = @ + 1]

Buffer_has_room(b) == b.startpos < b.size

\* Mutant: endpos is not raised to cover the byte just stored.
Buffer_putc_KeepsEnd(b, c) ==
  [b EXCEPT !.data = [@ EXCEPT ![b.startpos] = c], !.startpos = @ + 1]

\* The buffer Buffer_putc leaves behind when it returns true.
Buffer_putc(b, c) ==
  LET newpos == b.startpos + 1 IN
  [b EXCEPT !.startpos = newpos,
            !.endpos = IF b.endpos < newpos THEN newpos ELSE b.endpos,
            !.data = [b.data EXCEPT ![b.startpos] = c]]

\* Both positions back at 0: nothing to read, all of the memory to write to.
Buffer_clear(b) == [b EXCEPT !.startpos = 0, !.endpos = 0]

\* The content, as a sequence of bytes.
Content(b) == [i \in 1 .. LSlice_length(b) |-> b.data[b.startpos + i - 1]]
=============================================================================
