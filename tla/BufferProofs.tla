----------------------------- MODULE BufferProofs -----------------------------
(***************************************************************************)
(* The memory of packets: circular_allocator, where they are, for buffers  *)
(* and requests of any size; and bit_stream, which writes the fields of    *)
(* one and reads them back, for fields of any length, value and number.    *)
(*                                                                         *)
(* The blocks in use make up one run of bytes, or two when the ring has    *)
(* wrapped: what is left of the first, which ends at some e, and the one   *)
(* from the beginning to _alloc_end.  push_back adds to the last run or    *)
(* begins the second one, pop_front takes from the first (IInv).           *)
(*                                                                         *)
(* Of each field of a bit_stream the invariant says that the buffer holds  *)
(* it where the writer put it, that the writer was behind it when it wrote *)
(* the next one, and that the reader starts each field where the writer    *)
(* started it.  The buffer is zero behind the writer: that is why | writes *)
(* the value (StreamInv).                                                  *)
(***************************************************************************)
EXTENDS CircularAllocator, FiniteSetTheorems, TLAPS

\* What a word of the buffer can hold.
Content == Nat \cup {WrapMarker, Unwritten}

\* The assumptions on the constants.
LEMMA Parameters ==
  /\ Word \in Nat /\ Word > 0 /\ BufferSize \in Nat /\ Word <= BufferSize
  /\ \A s \in Sizes : s \in Nat /\ s > 0 /\ Total(s) = Word + s
  /\ Offset = 0 .. BufferSize
  /\ WrapMarker \notin Int /\ Unwritten \notin Int /\ Unwritten # WrapMarker
  BY AllocatorAssumption DEF Offset, Total

LEMMA Blocks ==
  ASSUME TypeOK
  PROVE  /\ Len(blocks) \in Nat
         /\ \A i \in 1 .. Len(blocks) :
              /\ blocks[i] \in [at : Offset, start : Nat, length : Sizes]
              /\ blocks[i].at \in Nat /\ blocks[i].start \in Nat
              /\ blocks[i].length \in Sizes
              /\ blocks[i].length \in Nat /\ blocks[i].length > 0
              /\ Behind(i) = blocks[i].at + Word + blocks[i].length
              /\ Behind(i) \in Nat
              /\ Extent(blocks[i]) = blocks[i].at .. Behind(i) - 1
  <1>1. Len(blocks) \in Nat /\ \A i \in 1 .. Len(blocks) :
          blocks[i] \in [at : Offset, start : Nat, length : Sizes]
    <2>. DEFINE Block == [at : Offset, start : Nat, length : Sizes]
    <2>1. blocks \in Seq(Block)
      BY DEF TypeOK
    <2>. HIDE DEF Block
    <2>2. Len(blocks) \in Nat /\ \A i \in 1 .. Len(blocks) : blocks[i] \in Block
      BY <2>1
    <2>. QED  BY <2>2 DEF Block
  <1>2. ASSUME NEW i \in 1 .. Len(blocks)
        PROVE  /\ blocks[i].at \in Nat /\ blocks[i].start \in Nat
               /\ blocks[i].length \in Sizes
               /\ blocks[i].length \in Nat /\ blocks[i].length > 0
    BY <1>1, Parameters
  <1>3. ASSUME NEW i \in 1 .. Len(blocks)
        PROVE  /\ Behind(i) = blocks[i].at + Word + blocks[i].length
               /\ Behind(i) \in Nat
    BY <1>1, <1>2, Parameters DEF Behind
  <1>4. ASSUME NEW i \in 1 .. Len(blocks)
        PROVE  Extent(blocks[i]) = blocks[i].at .. Behind(i) - 1
    BY <1>2, <1>3, Parameters DEF Extent, Bytes
  <1>. QED  BY <1>1, <1>2, <1>3, <1>4

\* Writing bytes leaves the words that they do not touch.
LEMMA Overwriting ==
  ASSUME NEW words \in [Offset -> Content], NEW bytes
  PROVE  /\ Overwritten(words, bytes) \in [Offset -> Content]
         /\ \A p \in Offset :
              Bytes(p, Word) \cap bytes = {} => Overwritten(words, bytes)[p] = words[p]
  BY DEF Overwritten, Content

LEMMA HeaderWritten ==
  ASSUME NEW words \in [Offset -> Content], NEW o \in Offset, NEW value \in Content
  PROVE  /\ WithHeader(words, o, value) \in [Offset -> Content]
         /\ WithHeader(words, o, value)[o] = value
  BY Overwriting DEF WithHeader

LEMMA HeaderLeaves ==
  ASSUME NEW words \in [Offset -> Content], NEW o \in Offset, NEW value \in Content,
         NEW p \in Offset, Bytes(p, Word) \cap Bytes(o, Word) = {}
  PROVE  WithHeader(words, o, value)[p] = words[p]
  <1>1. p # o
    BY Parameters DEF Bytes
  <1>. QED  BY <1>1, Overwriting DEF WithHeader

\* Bytes from the same offset.
LEMMA FirstBytes ==
  ASSUME NEW o \in Int, NEW k \in Int, NEW l \in Int, k <= l
  PROVE  Bytes(o, k) \subseteq Bytes(o, l)
  BY DEF Bytes

LEMMA RunLength ==
  ASSUME NEW o \in Nat, NEW k \in Nat
  PROVE  IsFiniteSet(Bytes(o, k)) /\ Cardinality(Bytes(o, k)) = k
  <1>1. o \in Int /\ o + k - 1 \in Int
    OBVIOUS
  <1>2. /\ IsFiniteSet(o .. o + k - 1)
        /\ Cardinality(o .. o + k - 1) = IF o > o + k - 1 THEN 0 ELSE (o + k - 1) - o + 1
    BY <1>1, FS_Interval
  <1>. QED  BY <1>2 DEF Bytes

\* The bytes in use are bytes of the buffer.
LEMMA BytesInUse ==
  ASSUME TypeOK, Intact
  PROVE  Used \subseteq 0 .. BufferSize - 1 /\ IsFiniteSet(Used)
  <1>1. ASSUME NEW i \in 1 .. Len(blocks)
        PROVE  Extent(blocks[i]) \subseteq 0 .. BufferSize - 1
    <2>1. /\ blocks[i].at \in Nat /\ Behind(i) \in Nat /\ Behind(i) <= BufferSize
          /\ Extent(blocks[i]) = blocks[i].at .. Behind(i) - 1
      BY Blocks DEF Intact
    <2>. QED  BY <2>1, Parameters
  <1>2. Used \subseteq 0 .. BufferSize - 1
    BY <1>1 DEF Used
  <1>3. IsFiniteSet(0 .. BufferSize - 1)
    BY Parameters, FS_Interval
  <1>. QED  BY <1>2, <1>3, FS_Subset

-----------------------------------------------------------------------------
\* Words that push_back does not touch.
LEMMA Untouched ==
  ASSUME NEW size \in Sizes, NEW o \in Offset, NEW words \in [Offset -> Content],
         NEW result \in Nat, NEW p \in Offset,
         Allocate(words, o, result, size),
         Bytes(p, Word) \cap (Bytes(o, Word) \cup Bytes(result, size)) = {}
  PROVE  header'[p] = words[p]
  <1>1. Total(size) \in Content
    BY Parameters DEF Content
  <1>2. WithHeader(words, o, Total(size)) \in [Offset -> Content]
    BY <1>1, HeaderWritten
  <1>3. WithHeader(words, o, Total(size))[p] = words[p]
    BY <1>1, HeaderLeaves
  <1>4. Overwritten(WithHeader(words, o, Total(size)), Bytes(result, size))[p]
          = WithHeader(words, o, Total(size))[p]
    BY <1>2, Overwriting
  <1>. QED  BY <1>3, <1>4 DEF Allocate

\* A block is put behind the others, where no byte is in use.
LEMMA Pushing ==
  ASSUME IInv, NEW size \in Sizes, NEW o \in Offset, NEW words \in [Offset -> Content],
         NEW result \in Nat,
         o + Total(size) <= BufferSize,
         \A i \in 1 .. Len(blocks) : words[blocks[i].at] = Word + blocks[i].length,
         Bytes(o, Total(size)) \cap Used = {},
         Bytes(result, size) \cap (Used \cup Bytes(o, Word)) = {},
         Allocate(words, o, result, size)
  PROVE  /\ TypeOK' /\ AllocatedIsLive' /\ Intact'
         /\ blocks' # <<>> /\ _allocated' > 0
         /\ Len(blocks') = Len(blocks) + 1
         /\ blocks'[Len(blocks) + 1] = [at |-> o, start |-> result, length |-> size]
         /\ \A i \in 1 .. Len(blocks) : blocks'[i] = blocks[i]
         /\ \A i \in 0 .. Len(blocks) : Behind(i)' = Behind(i)
         /\ Used' = Used \cup Bytes(o, Total(size))
         /\ \A p \in Offset :
              Bytes(p, Word) \cap (Bytes(o, Word) \cup Bytes(result, size)) = {} =>
                header'[p] = words[p]
  <1>n. PICK n : n = Len(blocks)
    OBVIOUS
  <1>b. PICK b : b = [at |-> o, start |-> result, length |-> size]
    OBVIOUS
  <1>t. PICK T : T = Total(size)
    OBVIOUS
  <1>. DEFINE Block == [at : Offset, start : Nat, length : Sizes]
  <1>1. /\ TypeOK /\ AllocatedIsLive /\ Intact
        /\ T = Word + size /\ T \in Nat /\ size \in Nat /\ size > 0 /\ o \in Nat
        /\ o + T <= BufferSize
    BY <1>t, Parameters DEF IInv
  <1>2. /\ header' = Overwritten(WithHeader(words, o, T), Bytes(result, size))
        /\ _alloc_end' = o + T
        /\ _allocated' = _allocated + T
        /\ blocks' = Append(blocks, b)
        /\ _alloc_begin' = _alloc_begin
    BY <1>b, <1>t DEF Allocate
  <1>3. /\ blocks \in Seq(Block) /\ n \in Nat /\ b \in Block
        /\ _allocated \in Nat /\ _alloc_begin \in Offset
    BY <1>1, <1>b, <1>n, Blocks DEF TypeOK
  <1>4. b.at = o /\ b.start = result /\ b.length = size
    BY <1>b
  <1>. HIDE DEF Block
  <1>5. /\ blocks' \in Seq(Block) /\ Len(blocks') = n + 1 /\ blocks'[n + 1] = b
        /\ \A i \in 1 .. n : blocks'[i] = blocks[i]
    BY <1>2, <1>3, <1>n
  <1>6. \A i \in 0 .. n : Behind(i)' = Behind(i)
    BY <1>2, <1>3, <1>5, <1>n DEF Behind
  <1>7. Behind(n + 1)' = o + T
    BY <1>1, <1>3, <1>4, <1>5, Parameters DEF Behind
  <1>8. Extent(b) = Bytes(o, T)
    BY <1>1, <1>4 DEF Extent
  <1>9. Used' = Used \cup Bytes(o, T)
    <2>1. Used' = UNION {Extent(blocks'[i]) : i \in 1 .. n + 1}
      BY <1>5 DEF Used, Extent, Bytes
    <2>. QED  BY <2>1, <1>3, <1>5, <1>8, <1>n DEF Used
  \* The headers.
  <1>10. T \in Content
    BY <1>1 DEF Content
  <1>11. /\ WithHeader(words, o, T) \in [Offset -> Content]
         /\ WithHeader(words, o, T)[o] = T
         /\ \A p \in Offset : Bytes(p, Word) \cap Bytes(o, Word) = {} =>
              WithHeader(words, o, T)[p] = words[p]
    <2>1. words \in [Offset -> Content] /\ o \in Offset
      OBVIOUS
    <2>2. WithHeader(words, o, T) \in [Offset -> Content]
      BY <2>1, <1>10, HeaderWritten
    <2>3. WithHeader(words, o, T)[o] = T
      BY <2>1, <1>10, HeaderWritten
    <2>4. ASSUME NEW p \in Offset, Bytes(p, Word) \cap Bytes(o, Word) = {}
          PROVE  WithHeader(words, o, T)[p] = words[p]
      BY <2>1, <2>4, <1>10, HeaderLeaves
    <2>. QED  BY <2>2, <2>3, <2>4
  <1>12. /\ header' \in [Offset -> Content]
         /\ \A p \in Offset : Bytes(p, Word) \cap Bytes(result, size) = {} =>
              header'[p] = WithHeader(words, o, T)[p]
    BY <1>2, <1>11, Overwriting
  <1>13. \A p \in Offset :
           Bytes(p, Word) \cap (Bytes(o, Word) \cup Bytes(result, size)) = {} =>
             header'[p] = words[p]
    BY <1>11, <1>12
  <1>14. header'[o] = T
    <2>1. Bytes(o, Word) \cap Bytes(result, size) = {}
      OBVIOUS
    <2>. QED  BY <2>1, <1>11, <1>12
  <1>15. ASSUME NEW i \in 1 .. n
         PROVE  header'[blocks[i].at] = Word + blocks[i].length
    <2>1. /\ blocks[i].at \in Offset
          /\ Bytes(blocks[i].at, Word) \subseteq Extent(blocks[i])
      <3>1. /\ blocks[i].at \in Offset /\ blocks[i].at \in Int
            /\ blocks[i].length \in Nat
        BY <1>1, <1>n, Blocks
      <3>2. /\ Word \in Int /\ Word + blocks[i].length \in Int
            /\ Word <= Word + blocks[i].length
        BY <3>1, Parameters
      <3>. QED  BY <3>1, <3>2, FirstBytes DEF Extent
    <2>2. Extent(blocks[i]) \subseteq Used
      BY <1>15, <1>n DEF Used
    <2>3. Bytes(o, Word) \subseteq Bytes(o, T)
      <3>1. o \in Int /\ Word \in Int /\ T \in Int /\ Word <= T
        BY <1>1, Parameters
      <3>. QED  BY <3>1, FirstBytes
    <2>4. Bytes(blocks[i].at, Word) \cap (Bytes(o, Word) \cup Bytes(result, size)) = {}
      BY <2>1, <2>2, <2>3, <1>t
    <2>. QED  BY <2>1, <2>4, <1>13, <1>n
  \* The parts of the invariant.
  <1>16. TypeOK'
    <2>1. _alloc_end' \in Offset /\ _allocated' \in Nat
      <3>1. BufferSize \in Nat /\ Offset = 0 .. BufferSize
        BY Parameters
      <3>2. o + T \in Offset
        BY <1>1, <3>1
      <3>3. _allocated + T \in Nat
        BY <1>1, <1>3
      <3>. QED  BY <3>2, <3>3, <1>2
    <2>2. blocks' \in Seq([at : Offset, start : Nat, length : Sizes])
      BY <1>5 DEF Block
    <2>. QED  BY <2>1, <2>2, <1>2, <1>3, <1>12 DEF TypeOK, Content
  <1>17. AllocatedIsLive' /\ _allocated' > 0
    <2>1. IsFiniteSet(Used)
      BY <1>1, BytesInUse
    <2>2. IsFiniteSet(Bytes(o, T)) /\ Cardinality(Bytes(o, T)) = T
      BY <1>1, RunLength
    <2>3. Used \cap Bytes(o, T) = {}
      BY <1>t
    <2>4. Cardinality(Used \cup Bytes(o, T)) = Cardinality(Used) + T
      <3>1. /\ Cardinality(Used) \in Nat
            /\ Cardinality(Used \cup Bytes(o, T))
                 = Cardinality(Used) + Cardinality(Bytes(o, T)) - Cardinality(Used \cap Bytes(o, T))
        BY <2>1, <2>2, FS_Union, FS_CardinalityType
      <3>2. Cardinality(Used \cap Bytes(o, T)) = 0
        BY <2>3, FS_EmptySet
      <3>. QED  BY <3>1, <3>2, <2>2, <1>1
    <2>5. _allocated = Cardinality(Used)
      BY <1>1 DEF AllocatedIsLive
    <2>6. _allocated' = Cardinality(Used')
      BY <1>2, <1>9, <2>4, <2>5
    <2>. QED  BY <1>1, <1>2, <1>3, <2>6, Parameters DEF AllocatedIsLive
  <1>18. Intact'
    <2>1. Behind(Len(blocks))' = _alloc_end'
      BY <1>2, <1>3, <1>5, <1>7 DEF Behind
    <2>2. ASSUME NEW i \in 1 .. n + 1
          PROVE  /\ header'[blocks'[i].at] = Word + blocks'[i].length
                 /\ Behind(i)' <= BufferSize
      <3>1. CASE i = n + 1
        BY <3>1, <1>1, <1>4, <1>5, <1>7, <1>14
      <3>2. CASE i \in 1 .. n
        <4>1. Behind(i)' = Behind(i) /\ Behind(i) <= BufferSize
          BY <3>2, <1>1, <1>6, <1>n DEF Intact
        <4>. QED  BY <3>2, <4>1, <1>5, <1>15
      <3>. QED  BY <3>1, <3>2, <1>3
    <2>3. ASSUME NEW i \in 1 .. n + 1, NEW j \in 1 .. n + 1, i # j
          PROVE  Extent(blocks'[i]) \cap Extent(blocks'[j]) = {}
      <3>1. ASSUME NEW k \in 1 .. n
            PROVE  Extent(blocks'[k]) \cap Bytes(o, T) = {}
        BY <1>5, <1>n, <1>t DEF Used
      <3>2. CASE i \in 1 .. n /\ j \in 1 .. n
        BY <2>3, <3>2, <1>1, <1>5, <1>n DEF Intact
      <3>3. CASE i = n + 1 /\ j \in 1 .. n
        BY <3>1, <3>3, <1>5, <1>8
      <3>4. CASE j = n + 1 /\ i \in 1 .. n
        BY <3>1, <3>4, <1>5, <1>8
      <3>. QED  BY <2>3, <3>2, <3>3, <3>4, <1>3
    <2>4. \A i \in 1 .. n + 1, j \in 1 .. n + 1 :
            i # j => Extent(blocks[i])' \cap Extent(blocks[j])' = {}
      BY <2>3 DEF Extent, Bytes
    <2>. QED  BY <1>5, <2>1, <2>2, <2>4 DEF Intact
  <1>. QED
    BY <1>3, <1>5, <1>6, <1>9, <1>13, <1>16, <1>17, <1>18, <1>b, <1>n, <1>t

-----------------------------------------------------------------------------
\* What the invariant says of the blocks and the bytes in use.
LEMMA InUse ==
  ASSUME IInv
  PROVE  /\ _alloc_begin \in Nat /\ _alloc_end \in Nat
         /\ _alloc_begin <= BufferSize /\ _alloc_end <= BufferSize
         /\ header \in [Offset -> Content]
         /\ \A i \in 1 .. Len(blocks) :
              /\ blocks[i].at \in Used /\ Behind(i) - 1 \in Used
              /\ blocks[i].at < Behind(i)
              /\ Extent(blocks[i]) \subseteq Used
         /\ blocks # <<>> => Len(blocks) >= 1 /\ 1 \in 1 .. Len(blocks)
         /\ blocks = <<>> => _alloc_begin = 0 /\ _alloc_end = 0 /\ _allocated = 0
         /\ _allocated = 0 => blocks = <<>>
  <1>1. TypeOK /\ AllocatedIsLive /\ Intact /\ (blocks = <<>> => _alloc_begin = 0)
    BY DEF IInv
  <1>2. ASSUME NEW i \in 1 .. Len(blocks)
        PROVE  /\ blocks[i].at \in Used /\ Behind(i) - 1 \in Used
               /\ blocks[i].at < Behind(i)
               /\ Extent(blocks[i]) \subseteq Used
    <2>1. /\ blocks[i].at \in Nat /\ Behind(i) \in Nat
          /\ blocks[i].at < Behind(i)
          /\ Extent(blocks[i]) = blocks[i].at .. Behind(i) - 1
      BY <1>1, Blocks, Parameters
    <2>2. blocks[i].at \in Extent(blocks[i]) /\ Behind(i) - 1 \in Extent(blocks[i])
      BY <2>1
    <2>. QED  BY <2>1, <2>2 DEF Used
  <1>3. blocks # <<>> => Len(blocks) >= 1 /\ 1 \in 1 .. Len(blocks)
    <2>. DEFINE Block == [at : Offset, start : Nat, length : Sizes]
    <2>1. blocks \in Seq(Block)
      BY <1>1 DEF TypeOK
    <2>. HIDE DEF Block
    <2>. QED  BY <2>1
  <1>4. blocks = <<>> => Used = {} /\ _alloc_end = _alloc_begin
    BY <1>1 DEF Used, Intact, Behind
  <1>5. Used = {} => _allocated = 0
    BY <1>1, FS_EmptySet DEF AllocatedIsLive
  <1>6. _allocated = 0 => blocks = <<>>
    <2>1. IsFiniteSet(Used)
      BY <1>1, BytesInUse
    <2>2. _allocated = 0 => Used = {}
      BY <1>1, <2>1, FS_EmptySet DEF AllocatedIsLive
    <2>. QED  BY <2>2, <1>2, <1>3
  <1>7. /\ _alloc_begin \in Nat /\ _alloc_end \in Nat
        /\ _alloc_begin <= BufferSize /\ _alloc_end <= BufferSize
        /\ header \in [Offset -> Content]
    BY <1>1, Parameters DEF TypeOK, Content
  <1>. QED  BY <1>1, <1>2, <1>3, <1>4, <1>5, <1>6, <1>7

\* push_back with room in front of it.
LEMMA ForwardStep ==
  ASSUME IInv, NEW size \in Sizes, push_back_Forward(size)
  PROVE  IInv'
  <1>n. PICK n : n = Len(blocks)
    OBVIOUS
  <1>o. PICK o : o = _alloc_end
    OBVIOUS
  <1>r. PICK result : result = o + Word
    OBVIOUS
  <1>t. PICK T : T = Total(size)
    OBVIOUS
  <1>1. /\ ~Full /\ FitsForward(size) /\ Allocate(header, o, result, size)
        /\ TypeOK /\ Intact /\ n \in Nat
    BY <1>n, <1>o, <1>r, Blocks DEF push_back_Forward, IInv
  <1>2. /\ T = Word + size /\ T \in Nat /\ size \in Nat /\ size > 0 /\ Word \in Nat
        /\ Word > 0 /\ BufferSize \in Nat /\ o \in Nat /\ result \in Nat
        /\ _alloc_begin \in Nat /\ _alloc_begin <= BufferSize /\ o <= BufferSize
        /\ header \in [Offset -> Content] /\ o \in Offset
    BY <1>t, <1>o, <1>r, Parameters, InUse
  <1>3. o + T <= (IF HasWrapped THEN _alloc_begin ELSE BufferSize)
    BY <1>1, <1>o, <1>t DEF FitsForward
  <1>4. /\ Wrapped <=> HasWrapped
        /\ HasWrapped <=> o < _alloc_begin
    BY <1>1, <1>o DEF Wrapped, HasWrapped
  <1>5. \A x \in Used : x \in Int /\ (x < o \/ x >= o + T)
    <2>1. CASE Wrapped
      <3>1. PICK e \in Offset : InTwoRuns(e)
        BY <2>1 DEF IInv
      <3>2. Used = (_alloc_begin .. e - 1) \cup (0 .. o - 1)
        BY <3>1, <1>o DEF InTwoRuns
      <3>. QED  BY <3>2, <2>1, <1>2, <1>3, <1>4, Parameters
    <2>2. CASE ~Wrapped
      <3>1. Used = _alloc_begin .. o - 1
        BY <2>2, <1>o DEF IInv, InOneRun
      <3>. QED  BY <3>1, <1>2
    <2>. QED  BY <2>1, <2>2
  <1>6. Bytes(o, T) \cap Used = {}
    BY <1>2, <1>5 DEF Bytes
  <1>7. Bytes(result, size) \cap (Used \cup Bytes(o, Word)) = {}
    BY <1>2, <1>5, <1>r DEF Bytes
  <1>8. o + T <= BufferSize
    BY <1>2, <1>3
  <1>9. \A i \in 1 .. Len(blocks) : header[blocks[i].at] = Word + blocks[i].length
    BY <1>1 DEF Intact
  <1>10. /\ TypeOK' /\ AllocatedIsLive' /\ Intact' /\ blocks' # <<>> /\ _allocated' > 0
         /\ Len(blocks') = n + 1
         /\ blocks'[n + 1] = [at |-> o, start |-> result, length |-> size]
         /\ \A i \in 1 .. n : blocks'[i] = blocks[i]
         /\ \A i \in 0 .. n : Behind(i)' = Behind(i)
         /\ Used' = Used \cup Bytes(o, T)
    <2>1. /\ o + Total(size) <= BufferSize
          /\ Bytes(o, Total(size)) \cap Used = {}
      BY <1>6, <1>8, <1>t
    <2>2. /\ TypeOK' /\ AllocatedIsLive' /\ Intact' /\ blocks' # <<>> /\ _allocated' > 0
          /\ Len(blocks') = Len(blocks) + 1
          /\ blocks'[Len(blocks) + 1] = [at |-> o, start |-> result, length |-> size]
          /\ \A i \in 1 .. Len(blocks) : blocks'[i] = blocks[i]
          /\ \A i \in 0 .. Len(blocks) : Behind(i)' = Behind(i)
          /\ Used' = Used \cup Bytes(o, Total(size))
      BY <2>1, <1>1, <1>2, <1>7, <1>9, Pushing
    <2>. QED  BY <2>2, <1>n, <1>t
  <1>h. ASSUME NEW p \in Offset,
               Bytes(p, Word) \cap (Bytes(o, Word) \cup Bytes(result, size)) = {}
        PROVE  header'[p] = header[p]
    BY <1>h, <1>1, <1>2, Untouched
  <1>11. _alloc_begin' = _alloc_begin /\ _alloc_end' = o + T
    BY <1>1, <1>t DEF Allocate
  <1>12. Behind(n) = o
    BY <1>1, <1>n, <1>o DEF Intact
  <1>13. CASE ~Wrapped
    <2>1. Used' = _alloc_begin' .. _alloc_end' - 1
      <3>1. Used = _alloc_begin .. o - 1
        BY <1>13, <1>o DEF IInv, InOneRun
      <3>2. o >= _alloc_begin
        BY <1>13, <1>2, <1>4
      <3>. QED  BY <3>1, <3>2, <1>2, <1>10, <1>11 DEF Bytes
    <2>2. ASSUME NEW i \in 1 .. n + 1
          PROVE  blocks'[i].at = Behind(i - 1)' /\ blocks'[i].start = blocks'[i].at + Word
      <3>1. CASE i = n + 1
        BY <3>1, <1>1, <1>10, <1>12, <1>r
      <3>2. CASE i \in 1 .. n
        <4>1. blocks[i].at = Behind(i - 1) /\ blocks[i].start = blocks[i].at + Word
          BY <3>2, <1>13, <1>n DEF IInv, InOneRun
        <4>2. i - 1 \in 0 .. n
          BY <3>2, <1>1
        <4>. QED  BY <3>2, <4>1, <4>2, <1>10
      <3>. QED  BY <3>1, <3>2, <1>1
    <2>3. InOneRun'
      BY <2>1, <2>2, <1>10 DEF InOneRun
    <2>4. ~Wrapped'
      <3>1. _alloc_end' > _alloc_begin'
        BY <1>13, <1>2, <1>4, <1>11
      <3>. QED  BY <3>1, <1>2, <1>11 DEF Wrapped, HasWrapped, Full
    <2>. QED  BY <2>3, <2>4, <1>10 DEF IInv
  <1>14. CASE Wrapped
    <2>1. PICK e \in Offset : InTwoRuns(e)
      BY <1>14 DEF IInv
    <2>2. /\ _alloc_begin <= e /\ e \in Nat /\ o + T <= _alloc_begin
          /\ Used = (_alloc_begin .. e - 1) \cup (0 .. o - 1)
          /\ BufferSize - e < Word \/ header[e] = WrapMarker
      BY <2>1, <1>3, <1>4, <1>14, <1>o, Parameters DEF InTwoRuns
    <2>3. Used' = (_alloc_begin' .. e - 1) \cup (0 .. _alloc_end' - 1)
      BY <2>2, <1>2, <1>10, <1>11 DEF Bytes
    <2>4. BufferSize - e < Word \/ header'[e] = WrapMarker
      <3>1. Bytes(e, Word) \cap (Bytes(o, Word) \cup Bytes(result, size)) = {}
        BY <2>2, <1>2, <1>r DEF Bytes
      <3>. QED  BY <3>1, <2>1, <2>2, <1>h
    <2>5. ASSUME NEW i \in 1 .. n + 1
          PROVE  /\ \/ blocks'[i].at = Behind(i - 1)'
                    \/ blocks'[i].at = 0 /\ Behind(i - 1)' = e
                 /\ \/ blocks'[i].start = blocks'[i].at + Word
                    \/ blocks'[i].at = 0 /\ blocks'[i].start = e + Word
      <3>1. CASE i = n + 1
        BY <3>1, <1>1, <1>10, <1>12, <1>r
      <3>2. CASE i \in 1 .. n
        <4>1. /\ \/ blocks[i].at = Behind(i - 1)
                 \/ blocks[i].at = 0 /\ Behind(i - 1) = e
              /\ \/ blocks[i].start = blocks[i].at + Word
                 \/ blocks[i].at = 0 /\ blocks[i].start = e + Word
          BY <3>2, <2>1, <1>n DEF InTwoRuns
        <4>2. i - 1 \in 0 .. n
          BY <3>2, <1>1
        <4>. QED  BY <3>2, <4>1, <4>2, <1>10
      <3>. QED  BY <3>1, <3>2, <1>1
    <2>6. InTwoRuns(e)'
      BY <2>2, <2>3, <2>4, <2>5, <1>2, <1>10, <1>11 DEF InTwoRuns
    <2>7. Wrapped'
      BY <2>2, <1>2, <1>10, <1>11 DEF Wrapped, HasWrapped, Full
    <2>. QED  BY <2>1, <2>6, <2>7, <1>10 DEF IInv
  <1>. QED  BY <1>13, <1>14

-----------------------------------------------------------------------------
\* Marking the end of the used part leaves the headers of the blocks in it.
LEMMA Marking ==
  ASSUME IInv, \A x \in Used : x < _alloc_end
  PROVE  /\ MarkedEnd \in [Offset -> Content]
         /\ BufferSize - _alloc_end < Word \/ MarkedEnd[_alloc_end] = WrapMarker
         /\ \A i \in 1 .. Len(blocks) : MarkedEnd[blocks[i].at] = header[blocks[i].at]
  <1>1. /\ _alloc_end \in Offset /\ _alloc_end \in Nat /\ header \in [Offset -> Content]
        /\ WrapMarker \in Content /\ TypeOK
    BY InUse DEF IInv, TypeOK, Content
  <1>2. /\ WithHeader(header, _alloc_end, WrapMarker) \in [Offset -> Content]
        /\ WithHeader(header, _alloc_end, WrapMarker)[_alloc_end] = WrapMarker
    BY <1>1, HeaderWritten
  <1>3. ASSUME NEW i \in 1 .. Len(blocks)
        PROVE  WithHeader(header, _alloc_end, WrapMarker)[blocks[i].at]
                 = header[blocks[i].at]
    <2>1. /\ blocks[i].at \in Nat /\ blocks[i].at \in Offset /\ Behind(i) \in Nat
          /\ Behind(i) = blocks[i].at + Word + blocks[i].length
          /\ blocks[i].length \in Nat /\ Behind(i) - 1 < _alloc_end
      BY <1>1, Blocks, InUse
    <2>2. Bytes(blocks[i].at, Word) \cap Bytes(_alloc_end, Word) = {}
      <3>1. Word \in Nat
        BY Parameters
      <3>2. blocks[i].at + Word <= _alloc_end
        BY <2>1, <3>1, <1>1
      <3>. QED  BY <2>1, <3>1, <3>2, <1>1 DEF Bytes
    <2>. QED  BY <2>1, <2>2, <1>1, HeaderLeaves
  <1>4. CASE BufferSize - _alloc_end >= Word
    BY <1>2, <1>3, <1>4 DEF MarkedEnd
  <1>5. CASE ~(BufferSize - _alloc_end >= Word)
    <2>1. BufferSize - _alloc_end < Word
      BY <1>1, <1>5, Parameters
    <2>. QED  BY <2>1, <1>1, <1>5 DEF MarkedEnd
  <1>. QED  BY <1>4, <1>5

\* push_back from the beginning: what was one run becomes the first of two.
LEMMA WrappingStep ==
  ASSUME IInv, NEW size \in Sizes, push_back_Wrapping(size)
  PROVE  IInv'
  <1>n. PICK n : n = Len(blocks)
    OBVIOUS
  <1>e. PICK e : e = _alloc_end
    OBVIOUS
  <1>r. PICK result : result = WrappedResult(size)
    OBVIOUS
  <1>t. PICK T : T = Total(size)
    OBVIOUS
  <1>w. PICK words : words = MarkedEnd
    OBVIOUS
  <1>1. /\ ~Full /\ ~HasWrapped /\ T <= _alloc_begin
        /\ Allocate(words, 0, result, size)
        /\ TypeOK /\ Intact /\ n \in Nat
    BY <1>n, <1>r, <1>t, <1>w, Blocks
    DEF push_back_Wrapping, IInv, FitsFromBeginning
  <1>2. /\ T = Word + size /\ T \in Nat /\ size \in Nat /\ size > 0 /\ Word \in Nat
        /\ Word > 0 /\ BufferSize \in Nat /\ e \in Nat /\ e \in Offset
        /\ _alloc_begin \in Nat /\ _alloc_begin <= BufferSize /\ e <= BufferSize
        /\ 0 \in Offset
    BY <1>t, <1>e, Parameters, InUse
  <1>3. ~Wrapped /\ _alloc_begin <= e
    BY <1>1, <1>2, <1>e DEF Wrapped, HasWrapped
  <1>4. Used = _alloc_begin .. e - 1
    BY <1>3, <1>e DEF IInv, InOneRun
  <1>5. /\ words \in [Offset -> Content]
        /\ BufferSize - e < Word \/ words[e] = WrapMarker
        /\ \A i \in 1 .. Len(blocks) : words[blocks[i].at] = Word + blocks[i].length
    <2>1. \A x \in Used : x < _alloc_end
      BY <1>2, <1>4, <1>e
    <2>. QED  BY <2>1, <1>1, <1>e, <1>w, Marking DEF Intact
  <1>6. \/ T < _alloc_begin /\ result = Word
        \/ result = e + Word
    BY <1>e, <1>r, <1>t DEF WrappedResult
  <1>7. /\ Bytes(0, T) \cap Used = {}
        /\ Bytes(result, size) \cap (Used \cup Bytes(0, Word)) = {}
        /\ result \in Nat
    BY <1>1, <1>2, <1>4, <1>6 DEF Bytes
  <1>8. Bytes(e, Word) \cap (Bytes(0, Word) \cup Bytes(result, size)) = {}
    BY <1>1, <1>2, <1>3, <1>6 DEF Bytes
  <1>9. /\ TypeOK' /\ AllocatedIsLive' /\ Intact' /\ blocks' # <<>> /\ _allocated' > 0
        /\ Len(blocks') = n + 1
        /\ blocks'[n + 1] = [at |-> 0, start |-> result, length |-> size]
        /\ \A i \in 1 .. n : blocks'[i] = blocks[i]
        /\ \A i \in 0 .. n : Behind(i)' = Behind(i)
        /\ Used' = Used \cup Bytes(0, T)
    <2>1. /\ 0 + Total(size) <= BufferSize
          /\ Bytes(0, Total(size)) \cap Used = {}
      BY <1>1, <1>2, <1>7, <1>t
    <2>2. /\ TypeOK' /\ AllocatedIsLive' /\ Intact' /\ blocks' # <<>> /\ _allocated' > 0
          /\ Len(blocks') = Len(blocks) + 1
          /\ blocks'[Len(blocks) + 1] = [at |-> 0, start |-> result, length |-> size]
          /\ \A i \in 1 .. Len(blocks) : blocks'[i] = blocks[i]
          /\ \A i \in 0 .. Len(blocks) : Behind(i)' = Behind(i)
          /\ Used' = Used \cup Bytes(0, Total(size))
      BY <2>1, <1>1, <1>2, <1>5, <1>7, Pushing
    <2>. QED  BY <2>2, <1>n, <1>t
  <1>10. _alloc_begin' = _alloc_begin /\ _alloc_end' = T
    BY <1>1, <1>2, <1>t DEF Allocate
  <1>11. Behind(n) = e
    BY <1>1, <1>e, <1>n DEF Intact
  <1>12. BufferSize - e < Word \/ header'[e] = WrapMarker
    BY <1>1, <1>2, <1>5, <1>7, <1>8, Untouched
  <1>13. Used' = (_alloc_begin' .. e - 1) \cup (0 .. _alloc_end' - 1)
    BY <1>2, <1>4, <1>9, <1>10 DEF Bytes
  <1>14. ASSUME NEW i \in 1 .. n + 1
         PROVE  /\ \/ blocks'[i].at = Behind(i - 1)'
                   \/ blocks'[i].at = 0 /\ Behind(i - 1)' = e
                /\ \/ blocks'[i].start = blocks'[i].at + Word
                   \/ blocks'[i].at = 0 /\ blocks'[i].start = e + Word
    <2>1. CASE i = n + 1
      <3>1. Behind(i - 1)' = e
        <4>1. i - 1 = n /\ n \in 0 .. n
          BY <2>1, <1>1
        <4>. QED  BY <4>1, <1>9, <1>11
      <3>2. blocks'[i].at = 0 /\ blocks'[i].start = result
        BY <2>1, <1>9
      <3>. QED  BY <3>1, <3>2, <1>2, <1>6
    <2>2. CASE i \in 1 .. n
      <3>1. blocks[i].at = Behind(i - 1) /\ blocks[i].start = blocks[i].at + Word
        BY <2>2, <1>3, <1>n DEF IInv, InOneRun
      <3>2. i - 1 \in 0 .. n
        BY <2>2, <1>1
      <3>. QED  BY <2>2, <3>1, <3>2, <1>9
    <2>. QED  BY <2>1, <2>2, <1>1
  <1>15. InTwoRuns(e)'
    BY <1>1, <1>2, <1>3, <1>9, <1>10, <1>12, <1>13, <1>14 DEF InTwoRuns
  <1>16. Wrapped'
    BY <1>1, <1>2, <1>9, <1>10 DEF Wrapped, HasWrapped, Full
  <1>. QED  BY <1>2, <1>9, <1>15, <1>16 DEF IInv

\* push_back without room: at most the end is marked, of a ring in one run.
LEMMA NoRoomStep ==
  ASSUME IInv, NEW size \in Sizes, push_back_NoRoom(size)
  PROVE  IInv'
  <1>1. /\ _alloc_begin' = _alloc_begin /\ _alloc_end' = _alloc_end
        /\ _allocated' = _allocated /\ blocks' = blocks
        /\ header' = IF Full \/ HasWrapped THEN header ELSE MarkedEnd
    BY DEF push_back_NoRoom
  <1>2. /\ Used' = Used /\ (Wrapped' <=> Wrapped)
        /\ \A i : Behind(i)' = Behind(i)
        /\ \A i : Extent(blocks[i])' = Extent(blocks[i])
    BY <1>1 DEF Used, Wrapped, HasWrapped, Full, Behind, Extent, Bytes
  <1>3. CASE Wrapped
    <2>1. header' = header
      BY <1>1, <1>3 DEF Wrapped
    <2>2. PICK e \in Offset : InTwoRuns(e)
      BY <1>3 DEF IInv
    <2>3. InTwoRuns(e)'
      BY <1>1, <1>2, <2>1, <2>2 DEF InTwoRuns
    <2>. QED
      BY <1>1, <1>2, <1>3, <2>1, <2>2, <2>3
      DEF IInv, TypeOK, AllocatedIsLive, Intact
  <1>4. CASE ~Wrapped
    <2>1. header' = MarkedEnd
      BY <1>1, <1>4 DEF Wrapped
    <2>2. \A x \in Used : x < _alloc_end
      BY <1>4, InUse DEF IInv, InOneRun
    <2>3. /\ MarkedEnd \in [Offset -> Content]
          /\ \A i \in 1 .. Len(blocks) : MarkedEnd[blocks[i].at] = header[blocks[i].at]
      BY <2>2, Marking
    <2>4. InOneRun'
      BY <1>1, <1>2, <1>4 DEF IInv, InOneRun
    <2>5. TypeOK' /\ Intact'
      BY <1>1, <1>2, <2>1, <2>3 DEF IInv, TypeOK, Intact, Content
    <2>. QED
      BY <1>1, <1>2, <1>4, <2>4, <2>5 DEF IInv, AllocatedIsLive
  <1>. QED  BY <1>3, <1>4

-----------------------------------------------------------------------------
\* Behind each block, and at _alloc_begin, pop_front finds the next one.
LEMMA Chain ==
  ASSUME IInv, NEW i \in 1 .. Len(blocks)
  PROVE  /\ HeaderAt(Behind(i - 1)) = blocks[i].at
         /\ header[blocks[i].at] = Word + blocks[i].length
  <1>1. /\ header[blocks[i].at] = Word + blocks[i].length
        /\ Behind(i) <= BufferSize
    BY DEF IInv, Intact
  <1>2. /\ blocks[i].at \in Nat /\ blocks[i].length \in Nat
        /\ Behind(i) = blocks[i].at + Word + blocks[i].length
    BY Blocks DEF IInv
  <1>3. CASE blocks[i].at = Behind(i - 1)
    <2>1. ~(BufferSize - blocks[i].at < Word)
      BY <1>1, <1>2, Parameters
    <2>2. header[blocks[i].at] # WrapMarker
      BY <1>1, <1>2, Parameters
    <2>. QED  BY <1>1, <1>3, <2>1, <2>2 DEF HeaderAt
  <1>4. CASE blocks[i].at # Behind(i - 1)
    <2>1. Wrapped
      BY <1>4 DEF IInv, InOneRun
    <2>2. PICK e \in Offset : InTwoRuns(e)
      BY <2>1 DEF IInv
    <2>3. /\ blocks[i].at = 0 /\ Behind(i - 1) = e
          /\ BufferSize - e < Word \/ header[e] = WrapMarker
      BY <1>4, <2>2 DEF InTwoRuns
    <2>. QED  BY <1>1, <2>3 DEF HeaderAt
  <1>. QED  BY <1>3, <1>4

\* What a pop_front does to the blocks.
LEMMA Popping ==
  ASSUME IInv, pop_front
  PROVE  /\ Len(blocks) \in Nat /\ Len(blocks) >= 1
         /\ _alloc_begin' = IF Len(blocks) = 1 THEN 0 ELSE Behind(1)
         /\ _alloc_end' = IF Len(blocks) = 1 THEN 0 ELSE _alloc_end
         /\ _allocated' = _allocated - (Word + blocks[1].length)
         /\ Behind(1) = _alloc_end <=> Len(blocks) = 1
         /\ header' = header
         /\ blocks' \in Seq([at : Offset, start : Nat, length : Sizes])
         /\ Len(blocks') = Len(blocks) - 1
         /\ \A i \in 1 .. Len(blocks) - 1 : blocks'[i] = blocks[i + 1]
  <1>1. /\ _allocated > 0 /\ TypeOK /\ Intact /\ Len(blocks) \in Nat
        /\ blocks # <<>> /\ Len(blocks) >= 1 /\ 1 \in 1 .. Len(blocks)
    BY InUse, Blocks DEF pop_front, IInv
  <1>2. /\ HeaderAt(_alloc_begin) = blocks[1].at
        /\ header[blocks[1].at] = Word + blocks[1].length
    <2>1. Behind(1 - 1) = _alloc_begin
      BY DEF Behind
    <2>. QED  BY <1>1, <2>1, Chain
  <1>3. /\ Behind(1) = blocks[1].at + (Word + blocks[1].length)
        /\ Behind(1) \in Nat
    BY <1>1, Blocks, Parameters
  <1>4. Behind(1) = _alloc_end <=> Len(blocks) = 1
    <2>1. Behind(Len(blocks)) = _alloc_end /\ Len(blocks) \in 1 .. Len(blocks)
      BY <1>1 DEF Intact
    <2>2. ASSUME Len(blocks) # 1, Behind(1) = Behind(Len(blocks))
          PROVE  FALSE
      <3>1. ASSUME NEW i \in 1 .. Len(blocks)
            PROVE  Behind(i) - 1 \in Extent(blocks[i])
        <4>1. /\ blocks[i].at \in Nat /\ Behind(i) \in Nat /\ blocks[i].at < Behind(i)
              /\ Extent(blocks[i]) = blocks[i].at .. Behind(i) - 1
          BY <1>1, Blocks, InUse
        <4>. QED  BY <4>1
      <3>2. Extent(blocks[1]) \cap Extent(blocks[Len(blocks)]) = {}
        BY <1>1, <2>1, <2>2 DEF Intact
      <3>. QED  BY <1>1, <2>1, <2>2, <3>1, <3>2
    <2>. QED  BY <2>1, <2>2
  <1>5. /\ _alloc_begin' = IF Behind(1) = _alloc_end THEN 0 ELSE Behind(1)
        /\ _alloc_end' = IF Behind(1) = _alloc_end THEN 0 ELSE _alloc_end
        /\ _allocated' = _allocated - (Word + blocks[1].length)
        /\ blocks' = Tail(blocks) /\ header' = header
    BY <1>2, <1>3 DEF pop_front, Emptied
  <1>. DEFINE Block == [at : Offset, start : Nat, length : Sizes]
  <1>6. blocks \in Seq(Block)
    BY <1>1 DEF TypeOK
  <1>. HIDE DEF Block
  <1>7. /\ blocks' \in Seq(Block) /\ Len(blocks') = Len(blocks) - 1
        /\ \A i \in 1 .. Len(blocks) - 1 : blocks'[i] = blocks[i + 1]
    BY <1>1, <1>5, <1>6
  <1>. QED  BY <1>1, <1>4, <1>5, <1>7 DEF Block

\* The parts of the invariant that do not say where the runs are.
LEMMA Popped ==
  ASSUME IInv, pop_front
  PROVE  /\ TypeOK' /\ AllocatedIsLive' /\ Intact'
         /\ blocks' = <<>> => _alloc_begin' = 0
         /\ Used' = Used \ Extent(blocks[1])
         /\ Len(blocks) # 1 =>
              \A i \in 0 .. Len(blocks) - 1 : Behind(i)' = Behind(i + 1)
  <1>n. PICK n : n = Len(blocks)
    OBVIOUS
  <1>1. /\ n \in Nat /\ n >= 1 /\ Len(blocks') = n - 1
        /\ \A i \in 1 .. n - 1 : blocks'[i] = blocks[i + 1]
        /\ _alloc_begin' = IF n = 1 THEN 0 ELSE Behind(1)
        /\ _alloc_end' = IF n = 1 THEN 0 ELSE _alloc_end
        /\ _allocated' = _allocated - (Word + blocks[1].length)
        /\ header' = header
        /\ blocks' \in Seq([at : Offset, start : Nat, length : Sizes])
    BY <1>n, Popping
  <1>2. /\ TypeOK /\ AllocatedIsLive /\ Intact
        /\ 1 \in 1 .. n
    BY <1>1 DEF IInv
  <1>3. /\ Extent(blocks[1]) = blocks[1].at .. Behind(1) - 1
        /\ Extent(blocks[1]) \subseteq Used
        /\ blocks[1].at \in Nat /\ blocks[1].length \in Nat /\ blocks[1].length > 0
        /\ Behind(1) = blocks[1].at + Word + blocks[1].length
        /\ Behind(1) \in Nat /\ Behind(1) <= BufferSize
    BY <1>2, <1>n, Blocks, InUse DEF Intact
  <1>4. ASSUME NEW i \in 0 .. n - 1, n # 1
        PROVE  Behind(i)' = Behind(i + 1)
    <2>1. CASE i = 0
      BY <2>1, <1>1, <1>4 DEF Behind
    <2>2. CASE i # 0
      <3>1. i \in 1 .. n - 1 /\ i + 1 # 0 /\ blocks'[i] = blocks[i + 1]
        BY <2>2, <1>1
      <3>. QED  BY <2>2, <3>1 DEF Behind
    <2>. QED  BY <2>1, <2>2
  <1>5. Used' = Used \ Extent(blocks[1])
    <2>1. Used' = UNION {Extent(blocks'[i]) : i \in 1 .. n - 1}
      BY <1>1 DEF Used, Extent, Bytes
    <2>2. \A i \in 1 .. n : i # 1 => Extent(blocks[1]) \cap Extent(blocks[i]) = {}
      BY <1>2, <1>n DEF Intact
    <2>3. ASSUME NEW x \in Used'
          PROVE  x \in Used \ Extent(blocks[1])
      <3>1. PICK i \in 1 .. n - 1 : x \in Extent(blocks[i + 1])
        BY <2>1, <2>3, <1>1
      <3>2. i + 1 \in 1 .. n /\ i + 1 # 1
        BY <1>1
      <3>. QED  BY <3>1, <3>2, <2>2, <1>n DEF Used
    <2>4. ASSUME NEW x \in Used, x \notin Extent(blocks[1])
          PROVE  x \in Used'
      <3>1. PICK i \in 1 .. n : x \in Extent(blocks[i])
        BY <1>n DEF Used
      <3>2. i - 1 \in 1 .. n - 1 /\ blocks'[i - 1] = blocks[i]
        <4>1. i # 1
          BY <2>4, <3>1
        <4>2. i - 1 \in 1 .. n - 1 /\ i - 1 + 1 = i
          BY <4>1, <1>1
        <4>. QED  BY <4>2, <1>1
      <3>. QED  BY <2>1, <3>1, <3>2
    <2>. QED  BY <2>3, <2>4
  <1>6. TypeOK' /\ AllocatedIsLive'
    <2>1. IsFiniteSet(Used) /\ IsFiniteSet(Extent(blocks[1]))
      BY <1>2, <1>3, BytesInUse, FS_Subset
    <2>2. Cardinality(Extent(blocks[1])) = Word + blocks[1].length
      <3>1. Word \in Nat /\ Word + blocks[1].length \in Nat
        BY <1>3, Parameters
      <3>. QED  BY <3>1, <1>3, RunLength DEF Extent
    <2>3. /\ Cardinality(Used) \in Nat
          /\ Cardinality(Used \ Extent(blocks[1])) \in Nat
          /\ Cardinality(Used \ Extent(blocks[1]))
               = Cardinality(Used) - Cardinality(Used \cap Extent(blocks[1]))
      BY <2>1, FS_Difference, FS_CardinalityType
    <2>4. Used \cap Extent(blocks[1]) = Extent(blocks[1])
      BY <1>3
    <2>5. _allocated' = Cardinality(Used') /\ _allocated' \in Nat
      BY <2>2, <2>3, <2>4, <1>1, <1>2, <1>5 DEF AllocatedIsLive
    <2>6. _alloc_begin' \in Offset /\ _alloc_end' \in Offset
      BY <1>1, <1>2, <1>3, Parameters DEF TypeOK
    <2>. QED  BY <2>5, <2>6, <1>1, <1>2 DEF TypeOK, AllocatedIsLive
  <1>7. Intact'
    <2>1. Behind(Len(blocks))' = _alloc_end'
      <3>1. CASE n = 1
        BY <3>1, <1>1 DEF Behind
      <3>2. CASE n # 1
        <4>1. Behind(Len(blocks))' = Behind(n - 1)'
          BY <1>1 DEF Behind
        <4>2. n - 1 \in 0 .. n - 1 /\ n - 1 + 1 = n
          BY <1>1
        <4>3. Behind(n - 1)' = Behind(n)
          BY <3>2, <4>2, <1>4
        <4>. QED  BY <3>2, <4>1, <4>3, <1>1, <1>2, <1>n DEF Intact
      <3>. QED  BY <3>1, <3>2
    <2>2. ASSUME NEW i \in 1 .. n - 1
          PROVE  /\ header'[blocks'[i].at] = Word + blocks'[i].length
                 /\ Behind(i)' <= BufferSize
      <3>1. /\ i + 1 \in 1 .. n /\ i \in 0 .. n - 1 /\ n # 1
            /\ blocks'[i] = blocks[i + 1]
        BY <1>1
      <3>2. /\ header[blocks[i + 1].at] = Word + blocks[i + 1].length
            /\ Behind(i + 1) <= BufferSize
        BY <3>1, <1>2, <1>n DEF Intact
      <3>. QED  BY <3>1, <3>2, <1>1, <1>4
    <2>3. ASSUME NEW i \in 1 .. n - 1, NEW j \in 1 .. n - 1, i # j
          PROVE  Extent(blocks'[i]) \cap Extent(blocks'[j]) = {}
      <3>1. /\ i + 1 \in 1 .. n /\ j + 1 \in 1 .. n /\ i + 1 # j + 1
            /\ blocks'[i] = blocks[i + 1] /\ blocks'[j] = blocks[j + 1]
        BY <2>3, <1>1
      <3>. QED  BY <3>1, <1>2, <1>n DEF Intact
    <2>4. \A i \in 1 .. n - 1, j \in 1 .. n - 1 :
            i # j => Extent(blocks[i])' \cap Extent(blocks[j])' = {}
      BY <2>3 DEF Extent, Bytes
    <2>. QED  BY <1>1, <2>1, <2>2, <2>4 DEF Intact
  <1>8. blocks' = <<>> => _alloc_begin' = 0
    BY <1>1
  <1>. QED  BY <1>4, <1>5, <1>6, <1>7, <1>8, <1>n

\* pop_front: the oldest block leaves a run, or the first of two runs ends.
LEMMA PopStep ==
  ASSUME IInv, pop_front
  PROVE  IInv'
  <1>n. PICK n : n = Len(blocks)
    OBVIOUS
  <1>1. /\ n \in Nat /\ n >= 1 /\ Len(blocks') = n - 1
        /\ \A i \in 1 .. n - 1 : blocks'[i] = blocks[i + 1]
        /\ _alloc_begin' = IF n = 1 THEN 0 ELSE Behind(1)
        /\ _alloc_end' = IF n = 1 THEN 0 ELSE _alloc_end
        /\ Behind(1) = _alloc_end <=> n = 1
        /\ header' = header
        /\ 1 \in 1 .. n
    BY <1>n, Popping
  <1>2. /\ TypeOK' /\ AllocatedIsLive' /\ Intact' /\ (blocks' = <<>> => _alloc_begin' = 0)
        /\ Used' = Used \ Extent(blocks[1])
        /\ n # 1 => \A i \in 0 .. n - 1 : Behind(i)' = Behind(i + 1)
    BY <1>n, Popped
  <1>3. /\ Extent(blocks[1]) = blocks[1].at .. Behind(1) - 1
        /\ blocks[1].at \in Used /\ Behind(1) - 1 \in Used
        /\ blocks[1].at < Behind(1)
        /\ blocks[1].at \in Nat /\ Behind(1) \in Nat
        /\ _alloc_begin \in Nat /\ _alloc_end \in Nat
        /\ Behind(0) = _alloc_begin
    BY <1>1, <1>n, Blocks, InUse DEF IInv, Behind
  <1>4. CASE n = 1
    <2>1. Used' = {} /\ _alloc_begin' = 0 /\ _alloc_end' = 0 /\ Len(blocks') = 0
      BY <1>1, <1>4 DEF Used
    <2>2. _allocated' = 0
      BY <1>2, <2>1, FS_EmptySet DEF AllocatedIsLive
    <2>3. InOneRun' /\ ~Wrapped'
      BY <2>1, <2>2 DEF InOneRun, Wrapped, HasWrapped, Full
    <2>. QED  BY <1>2, <2>3 DEF IInv
  <1>5. CASE n # 1 /\ ~Wrapped
    <2>1. /\ Used = _alloc_begin .. _alloc_end - 1
          /\ \A i \in 1 .. n : blocks[i].at = Behind(i - 1) /\ blocks[i].start = blocks[i].at + Word
      BY <1>5, <1>n DEF IInv, InOneRun
    <2>2. blocks[1].at = _alloc_begin
      <3>1. blocks[1].at = Behind(1 - 1)
        BY <1>1, <2>1
      <3>. QED  BY <3>1, <1>3
    <2>3. /\ _alloc_begin' = Behind(1) /\ _alloc_end' = _alloc_end
          /\ Behind(1) < _alloc_end
      BY <1>1, <1>3, <1>5, <2>1
    <2>4. Used' = _alloc_begin' .. _alloc_end' - 1
      BY <1>2, <1>3, <2>1, <2>2, <2>3
    <2>5. ASSUME NEW i \in 1 .. n - 1
          PROVE  blocks'[i].at = Behind(i - 1)' /\ blocks'[i].start = blocks'[i].at + Word
      <3>1. /\ i + 1 \in 1 .. n /\ i - 1 \in 0 .. n - 1
            /\ (i + 1) - 1 = i /\ (i - 1) + 1 = i
            /\ blocks'[i] = blocks[i + 1]
        BY <1>1
      <3>2. Behind(i - 1)' = Behind(i)
        BY <1>2, <1>5, <3>1
      <3>3. blocks[i + 1].at = Behind(i) /\ blocks[i + 1].start = blocks[i + 1].at + Word
        BY <2>1, <3>1
      <3>. QED  BY <3>1, <3>2, <3>3
    <2>6. InOneRun'
      BY <1>1, <2>4, <2>5 DEF InOneRun
    <2>7. ~Wrapped'
      BY <1>3, <2>3 DEF Wrapped, HasWrapped, Full
    <2>. QED  BY <1>2, <2>6, <2>7 DEF IInv
  <1>6. CASE n # 1 /\ Wrapped
    <2>1. PICK e \in Offset : InTwoRuns(e)
      BY <1>6 DEF IInv
    <2>2. /\ _alloc_end <= _alloc_begin /\ _alloc_begin <= e /\ e \in Nat
          /\ BufferSize - e < Word \/ header[e] = WrapMarker
          /\ Used = (_alloc_begin .. e - 1) \cup (0 .. _alloc_end - 1)
          /\ \A i \in 1 .. n :
               /\ blocks[i].at = Behind(i - 1) \/ (blocks[i].at = 0 /\ Behind(i - 1) = e)
               /\ \/ blocks[i].start = blocks[i].at + Word
                  \/ blocks[i].at = 0 /\ blocks[i].start = e + Word
      BY <2>1, <1>n, Parameters DEF InTwoRuns
    <2>3. \/ blocks[1].at = _alloc_begin
          \/ blocks[1].at = 0 /\ _alloc_begin = e
      <3>1. \/ blocks[1].at = Behind(1 - 1)
            \/ blocks[1].at = 0 /\ Behind(1 - 1) = e
        BY <1>1, <2>2
      <3>. QED  BY <3>1, <1>3
    <2>4. _alloc_begin' = Behind(1) /\ _alloc_end' = _alloc_end /\ Behind(1) # _alloc_end
      BY <1>1, <1>6
    <2>5. ASSUME NEW i \in 1 .. n - 1
          PROVE  /\ i + 1 \in 1 .. n
                 /\ blocks'[i] = blocks[i + 1]
                 /\ Behind(i - 1)' = Behind(i)
                 /\ \/ blocks[i + 1].at = Behind(i)
                    \/ blocks[i + 1].at = 0 /\ Behind(i) = e
                 /\ \/ blocks[i + 1].start = blocks[i + 1].at + Word
                    \/ blocks[i + 1].at = 0 /\ blocks[i + 1].start = e + Word
      <3>1. /\ i + 1 \in 1 .. n /\ i - 1 \in 0 .. n - 1
            /\ (i + 1) - 1 = i /\ (i - 1) + 1 = i
            /\ blocks'[i] = blocks[i + 1]
        BY <1>1
      <3>2. Behind(i - 1)' = Behind(i)
        BY <1>2, <1>6, <3>1
      <3>. QED  BY <3>1, <3>2, <2>2
    \* A block of the first run is freed.
    <2>6. CASE blocks[1].at = _alloc_begin
      <3>1. _alloc_begin < e /\ Behind(1) <= e
        <4>1. _alloc_begin \in Used
          BY <1>3, <2>6
        <4>2. _alloc_begin < e
          BY <4>1, <1>3, <2>2
        <4>3. Behind(1) - 1 >= _alloc_begin
          BY <1>3, <2>6
        <4>. QED  BY <4>2, <4>3, <1>3, <2>2
      <3>2. Used' = (_alloc_begin' .. e - 1) \cup (0 .. _alloc_end' - 1)
        BY <3>1, <1>2, <1>3, <2>2, <2>4, <2>6
      <3>3. _alloc_end' < _alloc_begin'
        BY <3>1, <1>3, <2>2, <2>4, <2>6
      <3>4. ASSUME NEW i \in 1 .. n - 1
            PROVE  /\ \/ blocks'[i].at = Behind(i - 1)'
                      \/ blocks'[i].at = 0 /\ Behind(i - 1)' = e
                   /\ \/ blocks'[i].start = blocks'[i].at + Word
                      \/ blocks'[i].at = 0 /\ blocks'[i].start = e + Word
        BY <2>5
      <3>5. _alloc_end' <= _alloc_begin' /\ _alloc_begin' <= e
        BY <3>1, <3>3, <1>3, <2>2, <2>4
      <3>6. BufferSize - e < Word \/ header'[e] = WrapMarker
        BY <1>1, <2>2
      <3>7. InTwoRuns(e)'
        BY <1>1, <3>2, <3>4, <3>5, <3>6 DEF InTwoRuns
      <3>8. Wrapped'
        BY <3>3 DEF Wrapped, HasWrapped
      <3>. QED  BY <1>2, <2>1, <3>7, <3>8 DEF IInv
    \* The first run is empty: the first block of the second one is freed.
    <2>7. CASE blocks[1].at = 0 /\ _alloc_begin = e
      <3>1. Used = 0 .. _alloc_end - 1
        BY <1>3, <2>2, <2>7
      <3>2. Behind(1) < _alloc_end
        BY <3>1, <1>3, <2>4
      <3>3. Used' = _alloc_begin' .. _alloc_end' - 1
        BY <3>1, <3>2, <1>2, <1>3, <2>4, <2>7
      <3>4. ASSUME NEW i \in 1 .. n - 1
            PROVE  /\ blocks'[i].at = Behind(i - 1)'
                   /\ blocks'[i].start = blocks'[i].at + Word
        <4>1. blocks[i + 1].at # 0
          <5>1. i + 1 \in 1 .. Len(blocks) /\ i + 1 # 1 /\ 1 \in 1 .. Len(blocks)
            BY <1>1, <1>n
          <5>2. Extent(blocks[1]) \cap Extent(blocks[i + 1]) = {}
            BY <5>1 DEF IInv, Intact
          <5>3. /\ blocks[i + 1].at \in Nat /\ Behind(i + 1) \in Nat
                /\ blocks[i + 1].at < Behind(i + 1)
                /\ Extent(blocks[i + 1]) = blocks[i + 1].at .. Behind(i + 1) - 1
            BY <5>1, Blocks, InUse DEF IInv
          <5>4. blocks[i + 1].at \in Extent(blocks[i + 1])
            BY <5>3
          <5>5. 0 \in Extent(blocks[1])
            BY <1>3, <2>7
          <5>. QED  BY <5>2, <5>4, <5>5
        <4>. QED  BY <4>1, <2>5
      <3>5. InOneRun'
        BY <3>3, <3>4, <1>1 DEF InOneRun
      <3>6. ~Wrapped'
        BY <3>2, <1>3, <2>4 DEF Wrapped, HasWrapped, Full
      <3>. QED  BY <1>2, <3>5, <3>6 DEF IInv
    <2>. QED  BY <2>3, <2>6, <2>7
  <1>. QED  BY <1>4, <1>5, <1>6

-----------------------------------------------------------------------------
\* An empty ring, whatever its headers are.
Cleared ==
  /\ _alloc_begin = 0 /\ _alloc_end = 0 /\ _allocated = 0 /\ blocks = <<>>
  /\ header \in [Offset -> Content]

LEMMA ClearedIInv == Cleared => IInv
  <1>. SUFFICES ASSUME Cleared PROVE IInv
    OBVIOUS
  <1>. USE DEF Cleared
  <1>1. TypeOK
    <2>. DEFINE Block == [at : Offset, start : Nat, length : Sizes]
    <2>1. blocks \in Seq(Block)
      BY DEF Block
    <2>. QED  BY <2>1, Parameters DEF TypeOK, Content
  <1>2. Used = {} /\ Len(blocks) = 0
    BY DEF Used
  <1>3. AllocatedIsLive
    BY <1>2, FS_EmptySet DEF AllocatedIsLive
  <1>4. Intact /\ InOneRun /\ ~Wrapped
    BY <1>2 DEF Intact, Behind, InOneRun, Wrapped, HasWrapped, Full
  <1>. QED  BY <1>1, <1>3, <1>4 DEF IInv

LEMMA InitIInv == Init => IInv
  <1>1. [o \in Offset |-> Unwritten] \in [Offset -> Content]
    BY DEF Content
  <1>. QED  BY <1>1, ClearedIInv DEF Init, Cleared

LEMMA NextIInv == IInv /\ [Next]_vars => IInv'
  <1>. SUFFICES ASSUME IInv, [Next]_vars
                PROVE  IInv'
    OBVIOUS
  <1>1. ASSUME NEW size \in Sizes, push_back(size)
        PROVE  IInv'
    BY <1>1, ForwardStep, WrappingStep, NoRoomStep DEF push_back
  <1>2. CASE pop_front
    BY <1>2, PopStep
  <1>3. Cleared' => IInv'
    BY ClearedIInv, PTL
  <1>4. CASE reset
    BY <1>3, <1>4, InUse DEF reset, Cleared
  <1>5. CASE recreate
    <2>1. [o \in Offset |-> Unwritten] \in [Offset -> Content]
      BY DEF Content
    <2>. QED  BY <1>3, <1>5, <2>1 DEF recreate, Cleared
  <1>6. CASE UNCHANGED vars
    <2>1. /\ _alloc_begin' = _alloc_begin /\ _alloc_end' = _alloc_end
          /\ _allocated' = _allocated /\ header' = header /\ blocks' = blocks
      BY <1>6 DEF vars
    <2>2. /\ Used' = Used /\ (Wrapped' <=> Wrapped)
          /\ \A i : Behind(i)' = Behind(i)
          /\ \A i : Extent(blocks[i])' = Extent(blocks[i])
      BY <2>1 DEF Used, Wrapped, HasWrapped, Full, Behind, Extent, Bytes
    <2>3. (InOneRun' <=> InOneRun) /\ \A e : InTwoRuns(e)' <=> InTwoRuns(e)
      BY <2>1, <2>2 DEF InOneRun, InTwoRuns
    <2>4. (TypeOK' <=> TypeOK) /\ (AllocatedIsLive' <=> AllocatedIsLive)
      BY <2>1, <2>2 DEF TypeOK, AllocatedIsLive
    <2>5. Intact' <=> Intact
      BY <2>1, <2>2 DEF Intact
    <2>. QED  BY <2>1, <2>2, <2>3, <2>4, <2>5 DEF IInv
  <1>. QED  BY <1>1, <1>2, <1>4, <1>5, <1>6 DEF Next

-----------------------------------------------------------------------------
\* In every state, whatever sizes were pushed, popped and reset.
THEOREM Invariance == Spec => []IInv
  BY InitIInv, NextIInv, PTL DEF Spec

THEOREM TypeCorrect == Spec => []TypeOK
  <1>1. IInv => TypeOK
    BY DEF IInv
  <1>. QED  BY <1>1, Invariance, PTL

\* _allocated is the number of bytes in live blocks and their headers.
THEOREM AllocatedIsRight == Spec => []AllocatedIsLive
  <1>1. IInv => AllocatedIsLive
    BY DEF IInv
  <1>. QED  BY <1>1, Invariance, PTL

\* Successive calls of pop_front find every live block, oldest first.
THEOREM PopsFindBlocks == Spec => []PopsFindEveryBlock
  <1>1. IInv => PopsFindEveryBlock
    BY Chain DEF IInv, Intact, PopsFindEveryBlock
  <1>. QED  BY <1>1, Invariance, PTL

LEMMA BehindHeader ==
  ASSUME NEW o \in Nat, NEW k \in Nat
  PROVE  Bytes(o + Word, k) \subseteq Bytes(o, Word + k) \ Bytes(o, Word)
  <1>1. Word \in Nat
    BY Parameters
  <1>. QED  BY <1>1 DEF Bytes

\* A block is inside its extent, or its bytes are behind all that are in use.
LEMMA Placed ==
  ASSUME IInv, NEW i \in 1 .. Len(blocks)
  PROVE  \/ Bytes(blocks[i].start, blocks[i].length)
              \subseteq Extent(blocks[i]) \ Bytes(blocks[i].at, Word)
         \/ /\ blocks[i].at = 0
            /\ Bytes(blocks[i].start, blocks[i].length) \cap Used = {}
  <1>. DEFINE block == Bytes(blocks[i].start, blocks[i].length)
  <1>1. /\ blocks[i].at \in Nat /\ blocks[i].start \in Nat /\ blocks[i].length \in Nat
        /\ Behind(i) = blocks[i].at + Word + blocks[i].length
        /\ Extent(blocks[i]) = blocks[i].at .. Behind(i) - 1
    BY Blocks DEF IInv
  <1>2. CASE blocks[i].start = blocks[i].at + Word
    BY <1>1, <1>2, BehindHeader DEF Extent
  <1>3. CASE blocks[i].start # blocks[i].at + Word
    <2>1. Wrapped
      BY <1>3 DEF IInv, InOneRun
    <2>2. PICK e \in Offset : InTwoRuns(e)
      BY <2>1 DEF IInv
    <2>3. /\ blocks[i].at = 0 /\ blocks[i].start = e + Word
          /\ _alloc_end <= _alloc_begin /\ _alloc_begin <= e
          /\ Used = (_alloc_begin .. e - 1) \cup (0 .. _alloc_end - 1)
      BY <1>3, <2>2 DEF InTwoRuns
    <2>4. _alloc_begin \in Nat /\ _alloc_end \in Nat /\ e \in Nat
      BY InUse, Parameters
    <2>5. block \cap Used = {}
      BY <1>1, <2>3, <2>4, Parameters DEF Bytes
    <2>. QED  BY <2>3, <2>5
  <1>. QED  BY <1>2, <1>3

\* No block overlaps another one or a header.
THEOREM BlocksKeepApart == Spec => []BlocksAreDisjoint
  <1>1. ASSUME IInv, NEW i \in 1 .. Len(blocks), NEW j \in 1 .. Len(blocks)
        PROVE  /\ i # j => Bytes(blocks[i].start, blocks[i].length)
                             \cap Bytes(blocks[j].start, blocks[j].length) = {}
               /\ Bytes(blocks[i].start, blocks[i].length) \cap Bytes(blocks[j].at, Word) = {}
    <2>. DEFINE block(k) == Bytes(blocks[k].start, blocks[k].length)
                first(k) == Bytes(blocks[k].at, Word)
    <2>1. ASSUME NEW k \in 1 .. Len(blocks)
          PROVE  /\ first(k) \subseteq Extent(blocks[k])
                 /\ Extent(blocks[k]) \subseteq Used
                 /\ blocks[k].at \in Extent(blocks[k])
      <3>1. /\ blocks[k].at \in Nat /\ blocks[k].length \in Nat
            /\ Behind(k) = blocks[k].at + Word + blocks[k].length
            /\ Extent(blocks[k]) = blocks[k].at .. Behind(k) - 1
            /\ Extent(blocks[k]) \subseteq Used
        BY <1>1, Blocks, InUse DEF IInv
      <3>2. /\ blocks[k].at \in Int /\ Word \in Int
            /\ Word + blocks[k].length \in Int /\ Word <= Word + blocks[k].length
        BY <3>1, Parameters
      <3>3. first(k) \subseteq Extent(blocks[k])
        BY <3>2, FirstBytes DEF Extent
      <3>4. blocks[k].at \in Extent(blocks[k])
        BY <3>1, Parameters
      <3>. QED  BY <3>1, <3>3, <3>4
    <2>2. i # j => Extent(blocks[i]) \cap Extent(blocks[j]) = {}
      BY <1>1 DEF IInv, Intact
    <2>3. ASSUME NEW k \in 1 .. Len(blocks)
          PROVE  \/ block(k) \subseteq Extent(blocks[k]) \ first(k)
                 \/ blocks[k].at = 0 /\ block(k) \cap Used = {}
      BY <1>1, Placed
    <2>. HIDE DEF block, first
    <2>4. i # j => block(i) \cap block(j) = {}
      <3>1. ASSUME i # j, blocks[i].at = 0, blocks[j].at = 0
            PROVE  FALSE
        BY <3>1, <2>1, <2>2
      <3>. QED  BY <3>1, <2>1, <2>2, <2>3
    <2>5. block(i) \cap first(j) = {}
      BY <2>1, <2>2, <2>3
    <2>. QED  BY <2>4, <2>5 DEF block, first
  <1>2. IInv => BlocksAreDisjoint
    BY <1>1 DEF BlocksAreDisjoint
  <1>. QED  BY <1>2, Invariance, PTL

\* An unwrapped ring refuses a request only if no free run of bytes is as long.
THEOREM RefusesOnlyWithoutRoom == Spec => []RefusedOnlyWithoutRoom
  <1>1. ASSUME IInv, NEW size \in Sizes,
               ~Full, ~HasWrapped, ~FitsForward(size), ~FitsFromBeginning(size),
               NEW o \in 0 .. BufferSize - (Word + size)
        PROVE  Bytes(o, Word + size) \cap Used # {}
    <2>1. /\ _alloc_begin \in Nat /\ _alloc_end \in Nat /\ _alloc_begin <= _alloc_end
          /\ Word \in Nat /\ Word > 0 /\ size \in Nat /\ BufferSize \in Nat
          /\ o \in Nat /\ o + (Word + size) <= BufferSize
      BY <1>1, InUse, Parameters DEF HasWrapped
    <2>2. Used = _alloc_begin .. _alloc_end - 1
      BY <1>1 DEF IInv, InOneRun, Wrapped
    <2>3. _alloc_end + (Word + size) > BufferSize
      BY <1>1, <2>1 DEF FitsForward, Total
    <2>4. Word + size > _alloc_begin
      BY <1>1, <2>1 DEF FitsFromBeginning, Total
    <2>5. _alloc_begin < _alloc_end
      <3>1. CASE blocks = <<>>
        <4>1. _alloc_end = 0
          BY <1>1, <3>1, InUse
        <4>. QED  BY <4>1, <2>1, <2>3
      <3>2. CASE blocks # <<>>
        <4>1. 1 \in 1 .. Len(blocks) /\ blocks[1].at \in Used
          BY <1>1, <3>2, InUse
        <4>. QED  BY <4>1, <2>1, <2>2
      <3>. QED  BY <3>1, <3>2
    <2>6. PICK x \in Int : x = IF o < _alloc_begin THEN _alloc_begin ELSE o
      BY <2>1
    <2>7. x \in Bytes(o, Word + size) /\ x \in Used
      BY <2>1, <2>2, <2>3, <2>4, <2>5, <2>6 DEF Bytes
    <2>. QED  BY <2>7
  <1>2. IInv => RefusedOnlyWithoutRoom
    BY <1>1 DEF RefusedOnlyWithoutRoom
  <1>. QED  BY <1>2, Invariance, PTL

\* pop_front can rely on the header it reads.
THEOREM AllocationsValid == Spec => []ValidAllocation
  <1>1. ASSUME IInv, _alloc_begin # _alloc_end
        PROVE  /\ _alloc_begin \in Offset
               /\ header[HeaderAt(_alloc_begin)] \in Nat
               /\ header[HeaderAt(_alloc_begin)] >= Word
    <2>1. 1 \in 1 .. Len(blocks)
      BY <1>1, InUse
    <2>2. Behind(1 - 1) = _alloc_begin
      BY DEF Behind
    <2>3. header[HeaderAt(_alloc_begin)] = Word + blocks[1].length
      BY <1>1, <2>1, <2>2, Chain
    <2>4. blocks[1].length \in Nat /\ _alloc_begin \in Offset
      BY <1>1, <2>1, Blocks DEF IInv, TypeOK
    <2>. QED  BY <2>3, <2>4, Parameters
  <1>2. IInv => ValidAllocation
    BY <1>1 DEF ValidAllocation
  <1>. QED  BY <1>2, Invariance, PTL

-----------------------------------------------------------------------------
\* bit_stream
VARIABLES bits, writer, reader, reading, written, results

Bits == INSTANCE BitStream

\* Where the writer was after k fields.
End(k) == IF k = Len(written) THEN writer ELSE written[k + 1].from

Clean == \A i \in bits : i < Bits!Bit(writer)

FieldKept(k) ==
  LET f == written[k]
      p == Bits!Start(f)
  IN  /\ p \in Bits!Position
      /\ Bits!Bit(p) + f.length <= Bits!Bit(writer)
      /\ Bits!Taken(p, f.length) = f.value
      /\ Bits!Advance(p, f.length) = End(k)

StreamInv ==
  /\ Bits!TypeOK
  /\ Bits!ReadsBack
  /\ Clean
  /\ \A k \in 1 .. Len(written) : FieldKept(k)
  /\ reader = End(Len(results))

-----------------------------------------------------------------------------
\* Moving on by some bits does that.
LEMMA AdvanceBits ==
  ASSUME NEW p \in Bits!Position, NEW length \in Nat
  PROVE  /\ Bits!Advance(p, length) \in Bits!Position
         /\ Bits!Bit(Bits!Advance(p, length)) = Bits!Bit(p) + length
  <1>. DEFINE n == p.offset + length
  <1>1. p.seek \in Nat /\ p.offset \in 0 .. 7 /\ n \in Nat
    BY DEF Bits!Position
  <1>. HIDE DEF n
  <1>2. n \div 8 \in Nat /\ n % 8 \in 0 .. 7 /\ n = 8 * (n \div 8) + (n % 8)
    BY <1>1
  <1>3. Bits!Advance(p, length) = [seek |-> p.seek + n \div 8, offset |-> n % 8]
    BY DEF Bits!Advance, n
  <1>4. Bits!Advance(p, length) \in Bits!Position
    BY <1>1, <1>2, <1>3 DEF Bits!Position
  <1>5. Bits!Bit(Bits!Advance(p, length)) = 8 * (p.seek + (n \div 8)) + (n % 8)
    BY <1>3 DEF Bits!Bit
  <1>6. Bits!Bit(Bits!Advance(p, length)) = 8 * p.seek + n
    BY <1>1, <1>2, <1>5
  <1>. QED  BY <1>1, <1>4, <1>6 DEF Bits!Bit, n

\* Looking for room only moves forward.
LEMMA RoomAhead ==
  ASSUME NEW p \in Bits!Position, NEW length \in 1 .. 32
  PROVE  Bits!Room(p, length) \in Bits!Position /\ Bits!Bit(Bits!Room(p, length)) >= Bits!Bit(p)
  BY DEF Bits!Position, Bits!Room, Bits!Bit

\* The place of a bit.
LEMMA BitNat ==
  ASSUME NEW p \in Bits!Position
  PROVE  Bits!Bit(p) \in Nat
  BY DEF Bits!Position, Bits!Bit

-----------------------------------------------------------------------------
\* A write keeps the invariant if it starts at the writer or beyond, puts the
\* value there and changes nothing before.
LEMMA WriteKeeps ==
  ASSUME StreamInv,
         NEW f \in Bits!Field,
         f.from = writer,
         f.value \subseteq 0 .. f.length - 1,
         Bits!Start(f) \in Bits!Position,
         Bits!Bit(Bits!Start(f)) >= Bits!Bit(writer),
         bits' \subseteq Nat,
         \A i \in Nat : i < Bits!Bit(writer) => (i \in bits' <=> i \in bits),
         \A i \in Nat : i >= Bits!Bit(writer) =>
           (i \in bits' <=> \E j \in f.value : i = Bits!Bit(Bits!Start(f)) + j),
         writer' = Bits!Advance(Bits!Start(f), f.length),
         written' = Append(written, f),
         UNCHANGED <<reader, reading, results>>
  PROVE  StreamInv'
  <1>. DEFINE p == Bits!Start(f)
              n == Len(written)
  <1>1. /\ written \in Seq(Bits!Field) /\ n \in Nat
        /\ written' \in Seq(Bits!Field) /\ Len(written') = n + 1
        /\ \A k \in 1 .. n : written'[k] = written[k]
        /\ written'[n + 1] = f
    BY DEF StreamInv, Bits!TypeOK
  <1>2. f.length \in Nat \ {0} /\ writer \in Bits!Position
    BY DEF Bits!Field, StreamInv, Bits!TypeOK
  <1>3. /\ writer' \in Bits!Position
        /\ Bits!Bit(writer') = Bits!Bit(p) + f.length
    BY <1>2, AdvanceBits
  <1>4. /\ Bits!Bit(writer) \in Nat /\ Bits!Bit(p) \in Nat /\ Bits!Bit(writer') \in Nat
        /\ Bits!Bit(writer)' = Bits!Bit(writer')
    BY <1>2, <1>3, BitNat DEF Bits!Bit
  <1>5. Bits!TypeOK'
    BY <1>1, <1>3 DEF StreamInv, Bits!TypeOK
  <1>6. /\ Len(results) \in Nat /\ Len(results) <= n
        /\ results \in Seq(SUBSET Nat)
    BY DEF StreamInv, Bits!TypeOK, Bits!ReadsBack
  <1>7. Bits!ReadsBack'
    BY <1>1, <1>6 DEF StreamInv, Bits!ReadsBack
  <1>8. Clean'
    <2>. SUFFICES ASSUME NEW i \in bits'
                  PROVE  i < Bits!Bit(writer')
      BY DEF Clean, Bits!Bit
    <2>1. i \in Nat
      OBVIOUS
    <2>2. CASE i < Bits!Bit(writer)
      BY <2>1, <2>2, <1>2, <1>3, <1>4
    <2>3. CASE i >= Bits!Bit(writer)
      <3>1. PICK j \in f.value : i = Bits!Bit(p) + j
        BY <2>1, <2>3
      <3>2. j \in 0 .. f.length - 1
        OBVIOUS
      <3>. QED  BY <3>1, <3>2, <1>2, <1>3, <1>4
    <2>. QED  BY <2>1, <2>2, <2>3, <1>4
  <1>9. \A k \in 0 .. n : End(k)' = End(k)
    <2>. SUFFICES ASSUME NEW k \in 0 .. n
                  PROVE  End(k)' = End(k)
      OBVIOUS
    <2>1. CASE k = n
      BY <2>1, <1>1 DEF End
    <2>2. CASE k # n
      BY <2>2, <1>1 DEF End
    <2>. QED  BY <2>1, <2>2
  <1>10. reader' = End(Len(results))'
    BY <1>1, <1>6, <1>9 DEF StreamInv, End
  <1>11. ASSUME NEW k \in 1 .. n + 1
         PROVE  FieldKept(k)'
    <2>1. CASE k = n + 1
      <3>1. written'[k] = f /\ End(k)' = writer'
        BY <2>1, <1>1 DEF End
      <3>2. \A j \in 0 .. f.length - 1 : Bits!Bit(p) + j \in bits' <=> j \in f.value
        BY <1>2, <1>4
      <3>3. Bits!Taken(p, f.length)' = f.value
        <4>1. Bits!Taken(p, f.length)' = {j \in 0 .. f.length - 1 : Bits!Bit(p) + j \in bits'}
          BY <3>1 DEF Bits!Taken, Bits!Bit
        <4>. QED  BY <4>1, <3>2
      <3>. QED
        BY <3>1, <3>3, <1>2, <1>3, <1>4
        DEF FieldKept, Bits!Bit, Bits!Start, Bits!Taken, Bits!Advance
    <2>2. CASE k \in 1 .. n
      <3>. DEFINE g == written[k]
                  q == Bits!Start(g)
      <3>1. written'[k] = g /\ g \in Bits!Field /\ g.length \in Nat \ {0} /\ End(k)' = End(k)
        <4>1. k \in 0 .. n /\ g \in Bits!Field
          BY <2>2, <1>1
        <4>2. g.length \in Nat \ {0}
          BY <4>1 DEF Bits!Field
        <4>. QED  BY <2>2, <4>1, <4>2, <1>1, <1>9
      <3>2. /\ q \in Bits!Position
            /\ Bits!Bit(q) + g.length <= Bits!Bit(writer)
            /\ Bits!Taken(q, g.length) = g.value
            /\ Bits!Advance(q, g.length) = End(k)
        BY <2>2 DEF StreamInv, FieldKept
      <3>3. Bits!Bit(q) \in Nat
        BY <3>2, BitNat
      <3>4. \A j \in 0 .. g.length - 1 : Bits!Bit(q) + j \in bits' <=> Bits!Bit(q) + j \in bits
        BY <3>1, <3>2, <3>3, <1>4
      <3>5. {j \in 0 .. g.length - 1 : Bits!Bit(q) + j \in bits'} = g.value
        BY <3>2, <3>4 DEF Bits!Taken
      <3>6. Bits!Bit(q) + g.length <= Bits!Bit(writer')
        BY <3>1, <3>2, <3>3, <1>2, <1>3, <1>4
      <3>. HIDE DEF g, q
      <3>7. FieldKept(k)' = LET f1 == written'[k]
                                p1 == Bits!Start(f1)
                            IN  /\ p1 \in Bits!Position
                                /\ Bits!Bit(p1) + f1.length <= Bits!Bit(writer')
                                /\ f1.value = {j \in 0 .. f1.length - 1 :
                                                  Bits!Bit(p1) + j \in bits'}
                                /\ Bits!Advance(p1, f1.length) = End(k)'
        BY DEF FieldKept, Bits!Start, Bits!Bit, Bits!Taken, Bits!Advance, Bits!Room, Bits!Aligned
      <3>. QED  BY <3>1, <3>2, <3>5, <3>6, <3>7 DEF q
    <2>. QED  BY <2>1, <2>2, <1>1
  <1>. QED  BY <1>1, <1>5, <1>7, <1>8, <1>10, <1>11 DEF StreamInv

\* A read keeps it: the reader is where the writer was before that field, and
\* the buffer still holds the field.
LEMMA ReadKeeps ==
  ASSUME StreamInv,
         Len(results) < Len(written),
         NEW p, p = Bits!Start(Bits!Expected),
         results' = Append(results, Bits!Taken(p, Bits!Expected.length)),
         reader' = Bits!Advance(p, Bits!Expected.length),
         UNCHANGED <<bits, writer, reading, written>>
  PROVE  StreamInv'
  <1>. DEFINE r == Len(results)
              f == written[r + 1]
  <1>1. /\ written \in Seq(Bits!Field) /\ results \in Seq(SUBSET Nat)
        /\ r \in Nat /\ r + 1 \in 1 .. Len(written) /\ Len(written) \in Nat
    BY DEF StreamInv, Bits!TypeOK
  <1>2. /\ f \in Bits!Field
        /\ p \in Bits!Position
        /\ Bits!Taken(p, f.length) = f.value
        /\ Bits!Advance(p, f.length) = End(r + 1)
    BY <1>1 DEF StreamInv, FieldKept, Bits!Expected
  <1>3. f.length \in Nat /\ f.value \subseteq Nat
    BY <1>2 DEF Bits!Field
  <1>4. /\ results' = Append(results, f.value)
        /\ reader' = End(r + 1)
    BY <1>2 DEF Bits!Expected
  <1>5. reader' \in Bits!Position
    BY <1>2, <1>3, <1>4, AdvanceBits
  <1>6. Len(results') = r + 1 /\ results' \in Seq(SUBSET Nat)
        /\ results'[r + 1] = f.value
        /\ \A k \in 1 .. r : results'[k] = results[k]
    BY <1>1, <1>3, <1>4
  <1>7. Bits!TypeOK'
    BY <1>5, <1>6 DEF StreamInv, Bits!TypeOK
  <1>8. Bits!ReadsBack'
    BY <1>1, <1>6 DEF StreamInv, Bits!ReadsBack
  <1>9. Clean' /\ \A k \in 1 .. Len(written') : FieldKept(k)'
    <2>1. Clean' <=> Clean
      BY DEF Clean, Bits!Bit
    <2>2. ASSUME NEW k
          PROVE  FieldKept(k)' <=> FieldKept(k)
      BY DEF FieldKept, Bits!Bit, Bits!Start, Bits!Taken, Bits!Advance, End, Bits!Room,
             Bits!Aligned
    <2>. QED  BY <2>1, <2>2 DEF StreamInv
  <1>10. reader' = End(Len(results))'
    BY <1>1, <1>4, <1>6 DEF End
  <1>. QED  BY <1>7, <1>8, <1>9, <1>10 DEF StreamInv

-----------------------------------------------------------------------------
LEMMA StreamInit == Bits!Init => StreamInv
  <1>. SUFFICES ASSUME Bits!Init PROVE StreamInv
    OBVIOUS
  <1>1. Len(written) = 0 /\ Len(results) = 0
    BY DEF Bits!Init
  <1>2. Bits!Origin \in Bits!Position
    BY DEF Bits!Origin, Bits!Position
  <1>3. <<>> \in Seq(Bits!Field) /\ <<>> \in Seq(SUBSET Nat)
    OBVIOUS
  <1>4. Bits!TypeOK
    BY <1>2, <1>3 DEF Bits!Init, Bits!TypeOK
  <1>5. Bits!ReadsBack /\ Clean /\ reader = End(Len(results))
    BY <1>1 DEF Bits!Init, Bits!ReadsBack, Clean, End
  <1>. QED  BY <1>1, <1>4, <1>5 DEF StreamInv

LEMMA StreamNext == StreamInv /\ [Bits!Next]_Bits!vars => StreamInv'
  <1>. SUFFICES ASSUME StreamInv, [Bits!Next]_Bits!vars
                PROVE  StreamInv'
    OBVIOUS
  <1>1. writer \in Bits!Position /\ Bits!Bit(writer) \in Nat /\ bits \subseteq Nat
        /\ \A i \in bits : i < Bits!Bit(writer)
    BY BitNat DEF StreamInv, Bits!TypeOK, Clean
  <1>2. ASSUME NEW length \in 1 .. 32, NEW value \in SUBSET (0 .. length - 1),
               Bits!write_uint(length, value)
        PROVE  StreamInv'
    <2>. DEFINE f == [fast |-> FALSE, length |-> length, value |-> value, from |-> writer]
                p == Bits!Room(writer, length)
    <2>1. f \in Bits!Field /\ Bits!Start(f) = p
      BY <1>1 DEF Bits!Field, Bits!Start
    <2>2. p \in Bits!Position /\ Bits!Bit(p) >= Bits!Bit(writer) /\ Bits!Bit(p) \in Nat
      BY <1>1, RoomAhead, BitNat
    <2>3. bits' = bits \cup {Bits!Bit(p) + j : j \in value}
      BY <1>2 DEF Bits!write_uint, Bits!Placed
    <2>. HIDE DEF p
    <2>4. bits' \subseteq Nat
      <3>1. \A j \in value : Bits!Bit(p) + j \in Nat
        BY <2>2
      <3>. QED  BY <1>1, <2>3, <3>1
    <2>5. \A i \in Nat : i < Bits!Bit(writer) => (i \in bits' <=> i \in bits)
      BY <1>1, <2>2, <2>3
    <2>6. \A i \in Nat : i >= Bits!Bit(writer) =>
            (i \in bits' <=> \E j \in value : i = Bits!Bit(p) + j)
      BY <1>1, <2>2, <2>3
    <2>7. /\ writer' = Bits!Advance(p, length)
          /\ written' = Append(written, f)
          /\ UNCHANGED <<reader, reading, results>>
      BY <1>2 DEF Bits!write_uint, p
    <2>8. f.length = length /\ f.value = value /\ f.from = writer
      OBVIOUS
    <2>. HIDE DEF f
    <2>. QED  BY <2>1, <2>2, <2>4, <2>5, <2>6, <2>7, <2>8, WriteKeeps
  <1>3. ASSUME NEW size \in Nat \ {0}, NEW value \in SUBSET (0 .. 8 * size - 1),
               Bits!fast_write(size, value)
        PROVE  StreamInv'
    <2>. DEFINE length == 8 * size
                f == [fast |-> TRUE, length |-> length, value |-> value, from |-> writer]
                p == Bits!Aligned(writer)
    <2>1. length \in Nat \ {0} /\ value \subseteq 0 .. length - 1
      OBVIOUS
    <2>2. f \in Bits!Field /\ Bits!Start(f) = p
      BY <1>1, <2>1 DEF Bits!Field, Bits!Start
    <2>3. p \in Bits!Position /\ Bits!Bit(p) = Bits!Bit(writer)
      BY <1>1, <1>3 DEF Bits!fast_write, Bits!Aligned, Bits!Bit, Bits!Position
    <2>4. bits' = (bits \ (Bits!Bit(p) .. Bits!Bit(p) + length - 1))
                    \cup {Bits!Bit(p) + j : j \in value}
      BY <1>3 DEF Bits!fast_write, Bits!Placed, Bits!At
    <2>5. /\ writer' = Bits!Advance(p, length)
          /\ written' = Append(written, f)
          /\ UNCHANGED <<reader, reading, results>>
      BY <1>3 DEF Bits!fast_write
    <2>6. f.length = length /\ f.value = value /\ f.from = writer
      OBVIOUS
    <2>. HIDE DEF f, p, length
    <2>7. bits' \subseteq Nat
      <3>1. \A j \in value : Bits!Bit(p) + j \in Nat
        BY <1>1, <2>1, <2>3
      <3>. QED  BY <1>1, <2>4, <3>1
    <2>8. ASSUME NEW i \in Nat, i < Bits!Bit(writer)
          PROVE  i \in bits' <=> i \in bits
      <3>1. i < Bits!Bit(p) /\ Bits!Bit(p) \in Nat
        BY <1>1, <2>3, <2>8
      <3>2. i \notin Bits!Bit(p) .. Bits!Bit(p) + length - 1
        BY <2>1, <3>1
      <3>3. \A j \in value : i # Bits!Bit(p) + j
        BY <2>1, <3>1
      <3>. QED  BY <2>4, <3>2, <3>3
    <2>9. ASSUME NEW i \in Nat, i >= Bits!Bit(writer)
          PROVE  i \in bits' <=> \E j \in value : i = Bits!Bit(p) + j
      <3>1. i \notin bits
        BY <1>1, <2>9
      <3>. QED  BY <2>4, <3>1
    <2>10. Bits!Bit(p) >= Bits!Bit(writer)
      BY <1>1, <2>3
    <2>. QED  BY <2>1, <2>2, <2>3, <2>5, <2>6, <2>7, <2>8, <2>9, <2>10, WriteKeeps
  <1>4. CASE Bits!attach
    BY <1>4 DEF Bits!attach, StreamInv, Bits!TypeOK, Bits!ReadsBack, Clean, FieldKept, End, Bits!Bit, Bits!Start,
                Bits!Taken, Bits!Advance, Bits!Room, Bits!Aligned
  <1>5. Len(results) < Len(written) => reader = Bits!Expected.from
    BY DEF StreamInv, End, Bits!Expected
  <1>6. CASE Bits!read_uint
    <2>1. /\ Len(results) < Len(written)
          /\ Bits!Start(Bits!Expected) = Bits!Room(reader, Bits!Expected.length)
      BY <1>5, <1>6 DEF Bits!read_uint, Bits!Start
    <2>. QED  BY <1>6, <2>1, ReadKeeps DEF Bits!read_uint
  <1>7. CASE Bits!fast_read
    <2>1. Len(results) < Len(written) /\ Bits!Start(Bits!Expected) = Bits!Aligned(reader)
      BY <1>5, <1>7 DEF Bits!fast_read, Bits!Start
    <2>. QED  BY <1>7, <2>1, ReadKeeps DEF Bits!fast_read
  <1>8. CASE UNCHANGED Bits!vars
    BY <1>8 DEF Bits!vars, StreamInv, Bits!TypeOK, Bits!ReadsBack, Clean, FieldKept, End, Bits!Bit, Bits!Start,
                Bits!Taken, Bits!Advance, Bits!Room, Bits!Aligned
  <1>. QED  BY <1>2, <1>3, <1>4, <1>6, <1>7, <1>8 DEF Bits!Next

\* A stream reads back what another one wrote, whatever the lengths and the
\* order of the fields and however often they straddle bytes.
THEOREM FieldsReadBack == Bits!Spec => []Bits!ReadsBack
  <1>1. StreamInv => Bits!ReadsBack
    BY DEF StreamInv
  <1>. QED  BY <1>1, StreamInit, StreamNext, PTL DEF Bits!Spec

\* The streams' positions stay positions: the offset in a byte is in 0 .. 7.
THEOREM PositionsValid == Bits!Spec => []Bits!TypeOK
  <1>1. StreamInv => Bits!TypeOK
    BY DEF StreamInv
  <1>. QED  BY <1>1, StreamInit, StreamNext, PTL DEF Bits!Spec
=============================================================================
