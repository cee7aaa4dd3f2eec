------------------------------- MODULE SeqNum -------------------------------
(***************************************************************************)
(* Sequence numbers of the two messengers.  In the code they are uint8_t   *)
(* (maximum_sequence_number = 255) and the window has 16 slots; both are   *)
(* parameters here, so that TLC can let the numbers wrap around after a    *)
(* few messages while the proofs hold for 255 and 16.                      *)
(***************************************************************************)
EXTENDS Integers

CONSTANTS
  MaxSeq,      \* maximum_sequence_number
  WindowSize   \* window_size

Modulus == MaxSeq + 1

(***************************************************************************)
(* The code has Modulus = 256 and WindowSize = 16.  The window must divide *)
(* the number space (otherwise two unacknowledged messages share a slot    *)
(* when the numbers wrap) and be smaller than it.                          *)
(***************************************************************************)
ASSUME SeqNumAssumption ==
  /\ MaxSeq \in Nat
  /\ WindowSize \in Nat \ {0}
  /\ WindowSize < Modulus
  /\ Modulus % WindowSize = 0

SeqNumber == 0 .. MaxSeq

SlotIndex == 0 .. WindowSize - 1

-----------------------------------------------------------------------------
\* Mutant: the counter is wider than uint8_t and does not wrap.
Advance_NoWrap(s, n) == s + n

\* A uint8_t counter after n increments.
Advance(s, n) == (s + n) % Modulus

\* The window slot of a sequence number.
Slot(s) == s % WindowSize

\* The steps from sequence number s forward to the next one stored in slot i:
\* a loop over n <= WindowSize numbers from s visits the slots with
\* StepsTo(i, s) < n, each in its step StepsTo(i, s).
StepsTo(i, s) == (i - s) % WindowSize

\* Mutant: the distance across the wrap forgets that 0 is a number too.
modulus_distance_OffByOne(leading_number, trailing_number) ==
  IF leading_number < trailing_number
    THEN leading_number + (MaxSeq - trailing_number)
    ELSE leading_number - trailing_number

\* How far leading_number is ahead of trailing_number, across the wrap.
modulus_distance(leading_number, trailing_number) ==
  IF leading_number < trailing_number
    THEN 1 + leading_number + (MaxSeq - trailing_number)
    ELSE leading_number - trailing_number
=============================================================================
