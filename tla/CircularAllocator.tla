-------------------------- MODULE CircularAllocator --------------------------
(***************************************************************************)
(* circular_allocator: the memory of the packets of one messenger, blocks  *)
(* in a ring of bytes, freed oldest first.  Each block follows a header    *)
(* word with its size; a header equal to WrapMarker, or too little room    *)
(* for one, says that the next block is at the beginning of the buffer.    *)
(*                                                                         *)
(* Pointers are offsets from _buffer_begin.                                *)
(***************************************************************************)
EXTENDS Integers, SequencesExt

CONSTANTS
  BufferSize,  \* bytes passed to create
  Word,        \* sizeof(size_t)
  Sizes,       \* the sizes a messenger asks for
  WrapMarker,  \* ~((size_t)0)
  Unwritten    \* what a word of memory holds that is no header

ASSUME AllocatorAssumption ==
  /\ Word \in Nat \ {0}
  /\ BufferSize \in Nat
  /\ BufferSize >= Word
  /\ Sizes \subseteq Nat \ {0}
  /\ WrapMarker \notin Int
  /\ Unwritten \notin Int \cup {WrapMarker}

VARIABLES
  _alloc_begin,  \* offset of the header of the oldest block
  _alloc_end,    \* offset where the next header goes
  _allocated,    \* bytes in use, headers included
  header,        \* [offset -> size, WrapMarker or Unwritten] words of the buffer
  blocks         \* the blocks the messenger holds, oldest first: where each
                 \* starts, how many bytes it asked for and, as history, the
                 \* offset at which its header was written

vars == <<_alloc_begin, _alloc_end, _allocated, header, blocks>>

Offset == 0 .. BufferSize

\* [first, first + length) as a set of bytes.
Bytes(first, length) == first .. first + length - 1

\* The words of the buffer that remain headers when bytes are written.
Overwritten(words, bytes) ==
  [o \in Offset |-> IF Bytes(o, Word) \cap bytes = {} THEN words[o] ELSE Unwritten]

\* A header is written at offset o.
WithHeader(words, o, value) == [Overwritten(words, Bytes(o, Word)) EXCEPT ![o] = value]

-----------------------------------------------------------------------------
\* create (and the constructor before it).
Init ==
  /\ _alloc_begin = 0
  /\ _alloc_end = 0
  /\ _allocated = 0
  /\ header = [o \in Offset |-> Unwritten]
  /\ blocks = <<>>

\* Mutant: the header is not counted.
Total_NoHeader(size) == size

\* The bytes a block takes, with its header.
Total(size) == Word + size

-----------------------------------------------------------------------------
(***************************************************************************)
(* push_back.  The messenger copies its message into the block it gets at  *)
(* once, so the action writes the block as well.                           *)
(***************************************************************************)
Full == _alloc_end = _alloc_begin /\ _allocated > 0

HasWrapped == _alloc_end < _alloc_begin

\* Mutant: no room is kept for the header of the block.
FitsForward_NoHeader(size) ==
  _alloc_end + size <= (IF HasWrapped THEN _alloc_begin ELSE BufferSize)

\* A header and size bytes fit between _alloc_end and what limits it.
FitsForward(size) ==
  _alloc_end + Total(size) <= (IF HasWrapped THEN _alloc_begin ELSE BufferSize)

\* Mutant: the oldest block may be overwritten.
FitsFromBeginning_Always(size) == ~HasWrapped /\ Total(size) <= BufferSize

FitsFromBeginning(size) == ~HasWrapped /\ Total(size) <= _alloc_begin

\* The header at o is written, then the message into the block at result.
Allocate(words, o, result, size) ==
  /\ header' = Overwritten(WithHeader(words, o, Total(size)), Bytes(result, size))
  /\ _alloc_end' = o + Total(size)
  /\ _allocated' = _allocated + Total(size)
  /\ blocks' = Append(blocks, [at |-> o, start |-> result, length |-> size])
  /\ UNCHANGED _alloc_begin

push_back_Forward(size) ==
  /\ ~Full
  /\ FitsForward(size)
  /\ Allocate(header, _alloc_end, _alloc_end + Word, size)

\* Mutant: the end of the used part of the buffer is left unmarked.
MarkedEnd_Not == header

\* The end of the used part of the buffer is marked if a word fits there.
MarkedEnd ==
  IF BufferSize - _alloc_end >= Word
    THEN WithHeader(header, _alloc_end, WrapMarker)
    ELSE header

\* Where the block of a wrapped allocation is.  When the request leaves not
\* one byte before the oldest block, the result is computed from the old
\* _alloc_end, although its header is at the beginning.
WrappedResult(size) ==
  IF Total(size) < _alloc_begin THEN Word ELSE _alloc_end + Word

push_back_Wrapping(size) ==
  /\ ~Full
  /\ ~FitsForward(size)
  /\ FitsFromBeginning(size)
  /\ Allocate(MarkedEnd, 0, WrappedResult(size), size)

\* nullptr is returned; the attempt to wrap may already have marked the end.
push_back_NoRoom(size) ==
  /\ Full \/ (~FitsForward(size) /\ ~FitsFromBeginning(size))
  /\ header' = IF Full \/ HasWrapped THEN header ELSE MarkedEnd
  /\ UNCHANGED <<_alloc_begin, _alloc_end, _allocated, blocks>>

push_back(size) ==
  \/ push_back_Forward(size)
  \/ push_back_Wrapping(size)
  \/ push_back_NoRoom(size)

-----------------------------------------------------------------------------
\* Mutant: only the marker is looked at, not the room for it.
HeaderAt_MarkerOnly(o) == IF header[o] = WrapMarker THEN 0 ELSE o

\* The header of the block after offset o, at o or at the beginning.
HeaderAt(o) ==
  IF BufferSize - o < Word \/ header[o] = WrapMarker THEN 0 ELSE o

\* Mutant: the offsets stay where they are when the last block is freed.
Emptied_Never(begin) == FALSE

\* The last block was freed: both offsets go back to the beginning.
Emptied(begin) == begin = _alloc_end

\* pop_front of an empty allocator returns at once.
pop_front ==
  LET front == HeaderAt(_alloc_begin)
      begin == front + header[front]
  IN  /\ _allocated > 0
      /\ header[front] \in Int
      /\ _alloc_begin' = IF Emptied(begin) THEN 0 ELSE begin
      /\ _alloc_end' = IF Emptied(begin) THEN 0 ELSE _alloc_end
      /\ _allocated' = _allocated - header[front]
      /\ blocks' = Tail(blocks)
      /\ UNCHANGED header

\* All blocks are given up and nothing is cleared: headers of old blocks and
\* old markers stay in the buffer.
reset ==
  /\ _alloc_begin' = 0
  /\ _alloc_end' = 0
  /\ _allocated' = 0
  /\ blocks' = <<>>
  /\ UNCHANGED header

\* destroy, and create with the same size: the buffer is a new one.
recreate ==
  /\ _alloc_begin' = 0
  /\ _alloc_end' = 0
  /\ _allocated' = 0
  /\ blocks' = <<>>
  /\ header' = [o \in Offset |-> Unwritten]

Next ==
  \/ \E size \in Sizes : push_back(size)
  \/ pop_front
  \/ reset
  \/ recreate

Spec == Init /\ [][Next]_vars

(***************************************************************************)
(* The copy constructor and assignment, as they leave the new object.  The *)
(* vector of connections copies every allocator when it grows: connection  *)
(* has no noexcept move.  The new buffer is not filled, and the offsets    *)
(* change sign.                                                            *)
(***************************************************************************)
copy ==
  /\ _alloc_begin' = 0 - _alloc_begin
  /\ _alloc_end' = 0 - _alloc_end
  /\ header' = [o \in Offset |-> Unwritten]
  /\ UNCHANGED <<_allocated, blocks>>

SpecWithCopies == Init /\ [][Next \/ copy]_vars

-----------------------------------------------------------------------------
(***************************************************************************)
(* Properties.                                                             *)
(***************************************************************************)
\* The offsets stay inside the buffer, and headers are what push_back writes.
TypeOK ==
  /\ _alloc_begin \in Offset
  /\ _alloc_end \in Offset
  /\ _allocated \in Nat
  /\ header \in [Offset -> Nat \cup {WrapMarker, Unwritten}]
  /\ blocks \in Seq([at : Offset, start : Nat, length : Sizes])

\* A block with its header.
Extent(b) == Bytes(b.at, Word + b.length)

\* The bytes of the buffer in live blocks and their headers.
Used == UNION {Extent(blocks[i]) : i \in 1 .. Len(blocks)}

\* _allocated, which tells a full ring from an empty one, is the number of bytes
\* in use, after any pushes and pops.
AllocatedIsLive == _allocated = Cardinality(Used)

\* What the first i pop_fronts leave as _alloc_begin, until the ring is empty.
Behind(i) ==
  IF i = 0 THEN _alloc_begin ELSE blocks[i].at + Word + blocks[i].length

\* Successive pop_fronts find every live block, oldest first, and end up at
\* _alloc_end: no write of a block or a marker has damaged a header on the way.
PopsFindEveryBlock ==
  /\ Behind(Len(blocks)) = _alloc_end
  /\ \A i \in 1 .. Len(blocks) :
       /\ HeaderAt(Behind(i - 1)) = blocks[i].at
       /\ header[blocks[i].at] = Word + blocks[i].length

\* A live block overlaps neither another one nor the header of any.
BlocksAreDisjoint ==
  \A i, j \in 1 .. Len(blocks) :
    LET block == Bytes(blocks[i].start, blocks[i].length)
    IN  /\ i # j => block \cap Bytes(blocks[j].start, blocks[j].length) = {}
        /\ block \cap Bytes(blocks[j].at, Word) = {}

\* Unless the ring has wrapped, a request is refused only if no run of free
\* bytes anywhere in the buffer is long enough for it.
RefusedOnlyWithoutRoom ==
  \A size \in Sizes :
    ~Full /\ ~HasWrapped /\ ~FitsForward(size) /\ ~FitsFromBeginning(size)
      => \A o \in 0 .. BufferSize - (Word + size) :
           Bytes(o, Word + size) \cap Used # {}

\* A request that does not fit in going forward is served from the beginning
\* of the buffer: "try and start from the beginning".
StartsFromTheBeginning ==
  [][\A size \in Sizes :
       push_back(size) /\ ~FitsForward(size) /\ Len(blocks') > Len(blocks)
         => Last(blocks').start = Word]_vars

\* "there is always a valid allocation of at least sizeof(size_t) if
\* alloc_begin != alloc_end": pop_front can rely on the header it reads.
ValidAllocation ==
  _alloc_begin # _alloc_end =>
    /\ _alloc_begin \in Offset
    /\ header[HeaderAt(_alloc_begin)] \in Nat
    /\ header[HeaderAt(_alloc_begin)] >= Word

-----------------------------------------------------------------------------
(***************************************************************************)
(* What the proofs need besides: which bytes are in use, and where blocks  *)
(* follow each other.                                                      *)
(***************************************************************************)
\* Bytes are in use on both sides of the free ones.
Wrapped == HasWrapped \/ Full

InOneRun ==
  /\ Used = _alloc_begin .. _alloc_end - 1
  /\ \A i \in 1 .. Len(blocks) :
       blocks[i].at = Behind(i - 1) /\ blocks[i].start = blocks[i].at + Word

\* The used part of the buffer ends at e, from where pop_front goes to the
\* beginning.  The block that is there may have been given its bytes behind e.
InTwoRuns(e) ==
  /\ _alloc_end <= _alloc_begin /\ _alloc_begin <= e
  /\ BufferSize - e < Word \/ header[e] = WrapMarker
  /\ Used = (_alloc_begin .. e - 1) \cup (0 .. _alloc_end - 1)
  /\ \A i \in 1 .. Len(blocks) :
       /\ blocks[i].at = Behind(i - 1) \/ (blocks[i].at = 0 /\ Behind(i - 1) = e)
       /\ \/ blocks[i].start = blocks[i].at + Word
          \/ blocks[i].at = 0 /\ blocks[i].start = e + Word

\* Headers are right, and blocks with their headers apart.
Intact ==
  /\ Behind(Len(blocks)) = _alloc_end
  /\ \A i \in 1 .. Len(blocks) :
       /\ header[blocks[i].at] = Word + blocks[i].length
       /\ Behind(i) <= BufferSize
  /\ \A i, j \in 1 .. Len(blocks) :
       i # j => Extent(blocks[i]) \cap Extent(blocks[j]) = {}

\* The inductive invariant of the proofs.
IInv ==
  /\ TypeOK
  /\ AllocatedIsLive
  /\ Intact
  /\ blocks = <<>> => _alloc_begin = 0
  /\ IF Wrapped THEN \E e \in Offset : InTwoRuns(e) ELSE InOneRun
=============================================================================
