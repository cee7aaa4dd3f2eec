------------------------------- MODULE BitStream -------------------------------
(***************************************************************************)
(* bit_stream: one stream writes fields into a buffer, another is attached *)
(* to the bytes and reads fields of the same lengths in the same order.    *)
(* Neither looks at the size of the buffer, so it is unbounded here.       *)
(*                                                                         *)
(* Bytes are little-endian: bit j of what memcpy takes from the byte       *)
(* _seek is bit 8 * _seek + j of the buffer.  A buffer, like an integer,   *)
(* is the set of its bits that are 1.                                      *)
(***************************************************************************)
EXTENDS Integers, Sequences

VARIABLES
  bits,     \* SUBSET Nat  the bits of the buffer that are 1
  writer,   \* _seek (as an index) and _bit_offset of the stream that writes
  reader,   \* ... and of the stream that reads
  reading,  \* BOOLEAN  the reader is attached: the buffer is complete
  written,  \* Seq(Field)  history: what was written, and from where
  results   \* Seq(SUBSET Nat)  history: what was read

vars == <<bits, writer, reader, reading, written, results>>

Position == [seek : Nat, offset : 0 .. 7]

\* attach
Origin == [seek |-> 0, offset |-> 0]

\* The index of the bit at a position.
Bit(p) == 8 * p.seek + p.offset

\* Where write_uint and read_uint find room for some bits: in the next byte, if
\* the 32 bits from _seek do not hold them.
Room(p, length) ==
  IF length + p.offset > 32 THEN [seek |-> p.seek + 1, offset |-> 0] ELSE p

\* Where fast_write and fast_read do: at _seek, whatever the offset was.
Aligned(p) == [seek |-> p.seek, offset |-> 0]

\* The position behind some bits.
Advance(p, length) ==
  [seek   |-> p.seek + (p.offset + length) \div 8,
   offset |-> (p.offset + length) % 8]

Field ==
  [fast : BOOLEAN, length : Nat \ {0}, value : SUBSET Nat, from : Position]

Start(f) == IF f.fast THEN Aligned(f.from) ELSE Room(f.from, f.length)

\* The bits of the buffer from a position on.
At(p, length) == Bit(p) .. Bit(p) + length - 1

Placed(p, value) == {Bit(p) + j : j \in value}

Taken(p, length) == {j \in 0 .. length - 1 : Bit(p) + j \in bits}

\* The buffer is zero at first, which nothing in bit_stream sees to.
Init ==
  /\ bits = {}
  /\ writer = Origin
  /\ reader = Origin
  /\ reading = FALSE
  /\ written = <<>>
  /\ results = <<>>

-----------------------------------------------------------------------------
\* The value goes into the buffer with |: no bit is cleared.  write_bool is
\* write_uint of one bit.
write_uint(length, value) ==
  LET p == Room(writer, length)
  IN  /\ ~reading
      /\ bits' = bits \cup Placed(p, value)
      /\ writer' = Advance(p, length)
      /\ written' = Append(written, [fast |-> FALSE, length |-> length,
                                     value |-> value, from |-> writer])
      /\ UNCHANGED <<reader, reading, results>>

\* Assigned over what was there: the bits behind _seek that write_uint has
\* written since are lost, so that a caller must be at the start of a byte.
fast_write(size, value) ==
  LET p == Aligned(writer)
  IN  /\ ~reading
      /\ writer.offset = 0
      /\ bits' = (bits \ At(p, 8 * size)) \cup Placed(p, value)
      /\ writer' = Advance(p, 8 * size)
      /\ written' = Append(written, [fast |-> TRUE, length |-> 8 * size,
                                     value |-> value, from |-> writer])
      /\ UNCHANGED <<reader, reading, results>>

\* The message is received and a stream attached to it.
attach ==
  /\ ~reading
  /\ reading' = TRUE
  /\ UNCHANGED <<bits, writer, reader, written, results>>

\* The field that the reader's caller expects next.
Expected == written[Len(results) + 1]

read_uint ==
  LET p == Room(reader, Expected.length)
  IN  /\ reading
      /\ Len(results) < Len(written)
      /\ ~Expected.fast
      /\ results' = Append(results, Taken(p, Expected.length))
      /\ reader' = Advance(p, Expected.length)
      /\ UNCHANGED <<bits, writer, reading, written>>

fast_read ==
  LET p == Aligned(reader)
  IN  /\ reading
      /\ Len(results) < Len(written)
      /\ Expected.fast
      /\ results' = Append(results, Taken(p, Expected.length))
      /\ reader' = Advance(p, Expected.length)
      /\ UNCHANGED <<bits, writer, reading, written>>

Next ==
  \/ \E length \in 1 .. 32 : \E value \in SUBSET (0 .. length - 1) :
       write_uint(length, value)
  \/ \E size \in Nat \ {0} : \E value \in SUBSET (0 .. 8 * size - 1) :
       fast_write(size, value)
  \/ attach
  \/ read_uint
  \/ fast_read

Spec == Init /\ [][Next]_vars

-----------------------------------------------------------------------------
\* Every variable holds values of its kind.
TypeOK ==
  /\ bits \subseteq Nat
  /\ writer \in Position
  /\ reader \in Position
  /\ reading \in BOOLEAN
  /\ written \in Seq(Field)
  /\ results \in Seq(SUBSET Nat)

\* What is read is what was written, field by field: no write spoils an earlier
\* field, and the reader skips to the next byte exactly where the writer did.
ReadsBack ==
  /\ Len(results) <= Len(written)
  /\ \A k \in 1 .. Len(results) : results[k] = written[k].value
=============================================================================
