---------------------------- MODULE SeqNumProofs ----------------------------
(***************************************************************************)
(* Facts about the arithmetic of sequence numbers, for every number space  *)
(* and window SeqNumAssumption allows.  The proofs about the messengers    *)
(* count messages from 0 without wrapping and use these facts to go from   *)
(* the counts to the numbers on the wire.                                  *)
(***************************************************************************)
EXTENDS SeqNum, Sequences, SequenceTheorems, TLAPS

\* The parameters are positive and the number space is a multiple of the window.
LEMMA Parameters ==
  /\ Modulus \in Nat \ {0}
  /\ WindowSize \in Nat \ {0}
  /\ WindowSize < Modulus
  /\ Modulus = WindowSize * (Modulus \div WindowSize)
  /\ (Modulus \div WindowSize) \in Int
  BY SeqNumAssumption DEF Modulus

\* Division with remainder.
LEMMA Division ==
  ASSUME NEW n \in Nat \ {0}, NEW a \in Int
  PROVE  /\ a \div n \in Int
         /\ a % n \in 0 .. n - 1
         /\ a = n * (a \div n) + (a % n)
  OBVIOUS

\* Quotient and remainder are the only ones.
LEMMA Remainder ==
  ASSUME NEW n \in Nat \ {0}, NEW a \in Int, NEW q \in Int, NEW r \in 0 .. n - 1,
         a = n * q + r
  PROVE  a % n = r
  OBVIOUS

\* Adding before or after taking the remainder is the same.
LEMMA ModPlus ==
  ASSUME NEW n \in Nat \ {0}, NEW a \in Int, NEW b \in Int
  PROVE  ((a % n) + b) % n = (a + b) % n
  <1>. DEFINE q == a \div n
              p == ((a % n) + b) \div n
              r == ((a % n) + b) % n
  <1>1. /\ q \in Int /\ a % n \in Int
        /\ a = n * q + (a % n)
    BY Division
  <1>2. /\ p \in Int /\ r \in 0 .. n - 1
        /\ (a % n) + b = n * p + r
    BY <1>1, Division
  <1>. HIDE DEF q, p, r
  <1>3. a + b = n * (q + p) + r /\ a + b \in Int /\ q + p \in Int
    BY <1>1, <1>2
  <1>4. (a + b) % n = r
    BY <1>2, <1>3, Remainder
  <1>. QED  BY <1>4 DEF r

\* A remainder is its own remainder, and one below zero wraps once.
LEMMA SmallMod ==
  ASSUME NEW n \in Nat \ {0}, NEW a \in Int
  PROVE  /\ a \in 0 .. n - 1 => a % n = a
         /\ a < 0 /\ -n <= a => a % n = a + n
  <1>1. CASE a \in 0 .. n - 1
    <2>1. a = n * 0 + a
      OBVIOUS
    <2>. QED  BY <1>1, <2>1, Remainder
  <1>2. CASE a < 0 /\ -n <= a
    <2>1. a = n * (-1) + (a + n) /\ a + n \in 0 .. n - 1
      BY <1>2
    <2>2. a % n = a + n
      BY <2>1, Remainder
    <2>. QED  BY <1>2, <2>2
  <1>. QED  BY <1>1, <1>2

-----------------------------------------------------------------------------
\* Numbers stay in range.
LEMMA AdvanceType ==
  ASSUME NEW a \in Int, NEW n \in Int
  PROVE  /\ Advance(a, n) \in SeqNumber
         /\ a % Modulus \in SeqNumber
  <1>1. /\ Modulus \in Nat \ {0} /\ a + n \in Int
        /\ SeqNumber = 0 .. Modulus - 1
    BY Parameters, SeqNumAssumption DEF SeqNumber, Modulus
  <1>. QED  BY <1>1, Division DEF Advance

\* The number of a later message, from the number of an earlier one.
LEMMA AdvanceCount ==
  ASSUME NEW a \in Int, NEW n \in Int
  PROVE  Advance(a % Modulus, n) = (a + n) % Modulus
  BY Parameters, ModPlus DEF Advance

\* modulus_distance is the distance of two messages less than Modulus apart.
LEMMA DistanceCount ==
  ASSUME NEW a \in Int, NEW b \in Int
  PROVE  modulus_distance(a % Modulus, b % Modulus) = (a - b) % Modulus
  <1>. DEFINE x == a % Modulus
              y == b % Modulus
              d == modulus_distance(x, y)
  <1>1. /\ x \in 0 .. Modulus - 1 /\ y \in 0 .. Modulus - 1
        /\ a = Modulus * (a \div Modulus) + x
        /\ b = Modulus * (b \div Modulus) + y
        /\ (a \div Modulus) \in Int /\ (b \div Modulus) \in Int
        /\ Modulus \in Nat \ {0}
    BY Parameters, Division
  <1>. DEFINE q == a \div Modulus
              p == b \div Modulus
  <1>. HIDE DEF x, y, q, p
  <1>2. MaxSeq = Modulus - 1
    BY SeqNumAssumption DEF Modulus
  <1>3. CASE x < y
    <2>1. d = x - y + Modulus /\ d \in 0 .. Modulus - 1
      BY <1>1, <1>2, <1>3 DEF modulus_distance
    <2>2. /\ a - b = Modulus * (q - p - 1) + d
          /\ a - b \in Int /\ q - p - 1 \in Int
      BY <1>1, <2>1 DEF q, p
    <2>3. (a - b) % Modulus = d
      BY <1>1, <2>1, <2>2, Remainder
    <2>. QED  BY <2>3 DEF x, y
  <1>4. CASE ~(x < y)
    <2>1. d = x - y /\ d \in 0 .. Modulus - 1
      BY <1>1, <1>4 DEF modulus_distance
    <2>2. /\ a - b = Modulus * (q - p) + d
          /\ a - b \in Int /\ q - p \in Int
      BY <1>1, <2>1 DEF q, p
    <2>3. (a - b) % Modulus = d
      BY <1>1, <2>1, <2>2, Remainder
    <2>. QED  BY <2>3 DEF x, y
  <1>. QED  BY <1>3, <1>4

\* No two messages are counted modulo Modulus that are less than that apart.
LEMMA DistanceNear ==
  ASSUME NEW a \in Int, NEW b \in Int, a - b \in 0 .. Modulus - 1
  PROVE  modulus_distance(a % Modulus, b % Modulus) = a - b
  <1>1. modulus_distance(a % Modulus, b % Modulus) = (a - b) % Modulus
    BY DistanceCount
  <1>2. a - b \in Int /\ Modulus \in Nat \ {0}
    BY Parameters
  <1>3. (a - b) % Modulus = a - b
    BY <1>2, SmallMod
  <1>. QED  BY <1>1, <1>3

\* Messages less than Modulus apart have different numbers.
LEMMA SameNumber ==
  ASSUME NEW a \in Int, NEW b \in Int, a % Modulus = b % Modulus,
         a - b < Modulus, b - a < Modulus
  PROVE  a = b
  <1>0. /\ Modulus \in Nat \ {0}
        /\ b - b \in 0 .. Modulus - 1
    BY Parameters
  <1>1. modulus_distance(b % Modulus, b % Modulus) = b - b
    BY <1>0, DistanceNear
  <1>2. CASE a >= b
    <2>1. a - b \in 0 .. Modulus - 1
      BY <1>0, <1>2
    <2>2. modulus_distance(a % Modulus, b % Modulus) = a - b
      BY <2>1, DistanceNear
    <2>3. modulus_distance(a % Modulus, b % Modulus) = b - b
      BY <1>1
    <2>. QED  BY <2>2, <2>3
  <1>3. CASE a < b
    <2>1. b - a \in 0 .. Modulus - 1
      BY <1>0, <1>3
    <2>2. modulus_distance(b % Modulus, a % Modulus) = b - a
      BY <2>1, DistanceNear
    <2>3. modulus_distance(b % Modulus, a % Modulus) = b - b
      BY <1>1
    <2>. QED  BY <2>2, <2>3
  <1>. QED  BY <1>2, <1>3

-----------------------------------------------------------------------------
\* The wrap of the numbers goes round the window a whole number of times.
LEMMA AdvanceWindow ==
  ASSUME NEW s \in Int, NEW n \in Int
  PROVE  \E e \in Int : Advance(s, n) = s + n + WindowSize * e
  <1>. DEFINE c == Modulus \div WindowSize
              q == (s + n) \div Modulus
              t == Advance(s, n)
  <1>1. /\ q \in Int /\ s + n \in Int /\ t \in Int
        /\ s + n = Modulus * q + t
    BY Parameters, Division DEF Advance
  <1>2. c \in Int /\ Modulus = WindowSize * c /\ WindowSize \in Nat \ {0}
    BY Parameters
  <1>. HIDE DEF c, q, t
  <1>3. s + n = (WindowSize * c) * q + t
    BY <1>1, <1>2
  <1>4. (WindowSize * c) * q = WindowSize * (c * q) /\ c * q \in Int
    BY <1>1, <1>2
  <1>. DEFINE d == c * q
  <1>5. d \in Int /\ s + n = WindowSize * d + t
    BY <1>3, <1>4
  <1>. HIDE DEF d
  <1>6. WindowSize * (- d) = - (WindowSize * d) /\ - d \in Int
    BY <1>2, <1>5
  <1>7. WindowSize * d \in Int
    BY <1>2, <1>5
  <1>8. t = s + n + WindowSize * (- d)
    BY <1>1, <1>5, <1>6, <1>7
  <1>. QED  BY <1>6, <1>8 DEF t

LEMMA StepsToType ==
  ASSUME NEW i \in Int, NEW s \in Int
  PROVE  StepsTo(i, s) \in 0 .. WindowSize - 1
  BY Parameters, Division DEF StepsTo

\* A slot's position seen from n numbers further on, at most a window away.
LEMMA StepsShift ==
  ASSUME NEW i \in Int, NEW s \in Int, NEW n \in 0 .. WindowSize
  PROVE  StepsTo(i, Advance(s, n)) =
           IF StepsTo(i, s) >= n THEN StepsTo(i, s) - n
                                 ELSE StepsTo(i, s) - n + WindowSize
  <1>. DEFINE j == StepsTo(i, s)
              q == (i - s) \div WindowSize
              t == Advance(s, n)
  <1>1. WindowSize \in Nat \ {0} /\ n \in Int /\ i - s \in Int
    BY Parameters
  <1>2. /\ q \in Int /\ j \in 0 .. WindowSize - 1
        /\ i - s = WindowSize * q + j
    BY <1>1, Division DEF StepsTo
  <1>3. PICK e \in Int : t = s + n + WindowSize * e
    BY <1>1, AdvanceWindow
  <1>. HIDE DEF j, q, t
  <1>4. t \in Int /\ WindowSize * e \in Int /\ WindowSize * q \in Int
    BY <1>1, <1>2, <1>3
  <1>5. WindowSize * (q - e) = WindowSize * q - WindowSize * e
    BY <1>1, <1>2
  <1>6. i - t = WindowSize * (q - e) + (j - n) /\ q - e \in Int /\ i - t \in Int
    BY <1>1, <1>2, <1>3, <1>4, <1>5
  <1>7. CASE j >= n
    <2>1. j - n \in 0 .. WindowSize - 1
      BY <1>1, <1>2, <1>7
    <2>2. (i - t) % WindowSize = j - n
      BY <1>1, <1>6, <2>1, Remainder
    <2>. QED  BY <1>7, <2>2 DEF StepsTo, t, j
  <1>8. CASE ~(j >= n)
    <2>1. j - n + WindowSize \in 0 .. WindowSize - 1
      BY <1>1, <1>2, <1>8
    <2>2. WindowSize * (q - e - 1) = WindowSize * (q - e) - WindowSize
      BY <1>1, <1>2
    <2>3. i - t = WindowSize * (q - e - 1) + (j - n + WindowSize) /\ q - e - 1 \in Int
      BY <1>1, <1>2, <1>6, <2>2
    <2>4. (i - t) % WindowSize = j - n + WindowSize
      BY <1>1, <1>6, <2>1, <2>3, Remainder
    <2>. QED  BY <1>8, <2>4 DEF StepsTo, t, j
  <1>. QED  BY <1>7, <1>8

\* The slot of the number n steps on is n steps on.
LEMMA StepsToSlot ==
  ASSUME NEW s \in Int, NEW n \in 0 .. WindowSize - 1
  PROVE  /\ Slot(Advance(s, n)) \in SlotIndex
         /\ StepsTo(Slot(Advance(s, n)), s) = n
  <1>. DEFINE t == Advance(s, n)
              q == t \div WindowSize
              i == Slot(t)
  <1>1. WindowSize \in Nat \ {0} /\ n \in Int
    BY Parameters
  <1>2. PICK e \in Int : t = s + n + WindowSize * e
    BY <1>1, AdvanceWindow
  <1>3. t \in Int
    BY <1>1, <1>2
  <1>4. q \in Int /\ i \in 0 .. WindowSize - 1 /\ t = WindowSize * q + i
    BY <1>1, <1>3, Division DEF Slot
  <1>. HIDE DEF t, q, i
  <1>5. WindowSize * (e - q) = WindowSize * e - WindowSize * q /\ e - q \in Int
    BY <1>1, <1>4
  <1>6. WindowSize * e \in Int /\ WindowSize * q \in Int
    BY <1>1, <1>4
  <1>7. i - s = WindowSize * (e - q) + n /\ i - s \in Int
    BY <1>1, <1>2, <1>4, <1>5, <1>6
  <1>8. (i - s) % WindowSize = n
    BY <1>1, <1>5, <1>7, Remainder
  <1>. QED  BY <1>4, <1>8 DEF StepsTo, SlotIndex, t, i
-----------------------------------------------------------------------------
\* The next number stays in step with the count of what it counts.
LEMMA NextNumber ==
  ASSUME NEW a \in Int, NEW n \in Int, NEW s, s = a % Modulus
  PROVE  /\ Advance(s, n) = (a + n) % Modulus
         /\ Advance(s, n) \in SeqNumber
         /\ s \in Int
  <1>1. Advance(s, n) = (a + n) % Modulus
    BY AdvanceCount
  <1>2. a + n \in Int
    OBVIOUS
  <1>3. (a + n) % Modulus \in SeqNumber /\ s \in SeqNumber
    BY <1>2, AdvanceType
  <1>. QED  BY <1>1, <1>3, SeqNumAssumption DEF SeqNumber

\* Of f slots from number s on the first n are cleared: those that are left are
\* the f - n ones from the new first number on.
LEMMA ClearedSlots ==
  ASSUME NEW s \in Int, NEW f \in 0 .. WindowSize, NEW n \in 0 .. f, NEW i \in SlotIndex
  PROVE  /\ StepsTo(i, s) \in Nat /\ StepsTo(i, Advance(s, n)) \in Nat
         /\ StepsTo(i, Advance(s, n)) < f - n <=>
              ~ (StepsTo(i, s) < n) /\ StepsTo(i, s) < f
         /\ ~ (StepsTo(i, s) < n) => n + StepsTo(i, Advance(s, n)) = StepsTo(i, s)
  <1>. DEFINE k == StepsTo(i, s)
              l == StepsTo(i, Advance(s, n))
  <1>1. WindowSize \in Nat /\ i \in Int /\ n \in 0 .. WindowSize
    BY Parameters DEF SlotIndex
  <1>2. k \in 0 .. WindowSize - 1
    BY <1>1, StepsToType
  <1>3. l = IF k >= n THEN k - n ELSE k - n + WindowSize
    BY <1>1, StepsShift
  <1>. HIDE DEF k, l
  <1>4. /\ k \in Nat /\ l \in Nat
        /\ l < f - n <=> ~ (k < n) /\ k < f
        /\ ~ (k < n) => n + l = k
    BY <1>1, <1>2, <1>3
  <1>. QED  BY <1>4 DEF k, l

\* Behind f slots from number s on n more are filled: the next free slot is the
\* first of those, and so on.
LEMMA FilledSlots ==
  ASSUME NEW s \in Int, NEW f \in 0 .. WindowSize, NEW n \in 0 .. WindowSize - f,
         NEW i \in SlotIndex
  PROVE  /\ StepsTo(i, s) \in Nat /\ StepsTo(i, Advance(s, f)) \in Nat
         /\ StepsTo(i, Advance(s, f)) < n <=>
              ~ (StepsTo(i, s) < f) /\ StepsTo(i, s) < f + n
         /\ ~ (StepsTo(i, s) < f) => f + StepsTo(i, Advance(s, f)) = StepsTo(i, s)
  <1>. DEFINE k == StepsTo(i, s)
              l == StepsTo(i, Advance(s, f))
  <1>1. WindowSize \in Nat /\ i \in Int /\ f \in Int /\ n \in Nat
    BY Parameters DEF SlotIndex
  <1>2. k \in 0 .. WindowSize - 1
    BY <1>1, StepsToType
  <1>3. l = IF k >= f THEN k - f ELSE k - f + WindowSize
    BY <1>1, StepsShift
  <1>. HIDE DEF k, l
  <1>4. /\ k \in Nat /\ l \in Nat
        /\ l < n <=> ~ (k < f) /\ k < f + n
        /\ ~ (k < f) => f + l = k
    BY <1>1, <1>2, <1>3
  <1>. QED  BY <1>4 DEF k, l

-----------------------------------------------------------------------------
\* A prefix of a sequence removed.
LEMMA Suffix ==
  ASSUME NEW S, NEW s \in Seq(S), NEW n \in 0 .. Len(s)
  PROVE  /\ SubSeq(s, n + 1, Len(s)) \in Seq(S)
         /\ Len(SubSeq(s, n + 1, Len(s))) = Len(s) - n
         /\ \A i \in 1 .. Len(s) - n : SubSeq(s, n + 1, Len(s))[i] = s[n + i]
  OBVIOUS

\* A sequence that counts from a, with a prefix removed or its next element added.
LEMMA CountingSuffix ==
  ASSUME NEW s \in Seq(Nat), NEW n \in 0 .. Len(s), NEW a \in Int,
         \A i \in 1 .. Len(s) : s[i] = a + i - 1
  PROVE  /\ SubSeq(s, n + 1, Len(s)) \in Seq(Nat)
         /\ Len(SubSeq(s, n + 1, Len(s))) = Len(s) - n
         /\ \A i \in 1 .. Len(s) - n : SubSeq(s, n + 1, Len(s))[i] = (a + n) + i - 1
  <1>1. n \in Int /\ Len(s) \in Nat
    OBVIOUS
  <1>2. ASSUME NEW i \in 1 .. Len(s) - n
        PROVE  SubSeq(s, n + 1, Len(s))[i] = (a + n) + i - 1
    <2>1. n + i \in 1 .. Len(s) /\ i \in Int /\ a + (n + i) - 1 = (a + n) + i - 1
      BY <1>1
    <2>. QED  BY <2>1, Suffix
  <1>. QED  BY <1>2, Suffix

LEMMA CountingAppend ==
  ASSUME NEW s \in Seq(Nat), NEW a \in Int, NEW m \in Nat, m = a + Len(s),
         \A i \in 1 .. Len(s) : s[i] = a + i - 1
  PROVE  /\ Append(s, m) \in Seq(Nat) /\ Len(Append(s, m)) = Len(s) + 1
         /\ \A i \in 1 .. Len(s) + 1 : Append(s, m)[i] = a + i - 1
  <1>1. Len(s) \in Nat /\ Append(s, m) \in Seq(Nat) /\ Len(Append(s, m)) = Len(s) + 1
    OBVIOUS
  <1>2. ASSUME NEW i \in 1 .. Len(s) + 1 PROVE Append(s, m)[i] = a + i - 1
    <2>1. CASE i \in 1 .. Len(s)
      BY <2>1
    <2>2. CASE i = Len(s) + 1
      BY <1>1, <2>2
    <2>. QED  BY <1>1, <2>1, <2>2
  <1>. QED  BY <1>1, <1>2

\* A function on 1 .. n is a sequence of length n.
LEMMA FunctionIsSeq ==
  ASSUME NEW S, NEW n \in Nat, NEW s \in [1 .. n -> S]
  PROVE  s \in Seq(S) /\ Len(s) = n
  OBVIOUS

\* The f slots of a window from the number of message a on, and a queue that
\* goes on counting behind them, are together a list that counts from a.
WindowThenQueue(w, rlr, f, q) == [j \in 1 .. f |-> w[Slot(Advance(rlr, j - 1))]] \o q

AllCount(blocks, w, rlr, f, q, a) ==
  /\ a \in Nat /\ f \in 0 .. WindowSize /\ rlr = a % Modulus
  /\ q \in Seq(Nat) /\ blocks \in Seq(Nat) /\ Len(blocks) = f + Len(q)
  /\ \A i \in SlotIndex : StepsTo(i, rlr) < f => w[i] = a + StepsTo(i, rlr)
  /\ \A i \in 1 .. Len(q) : q[i] = (a + f) + i - 1
  /\ \A i \in 1 .. Len(blocks) : blocks[i] = a + i - 1

LEMMA CountingWindow ==
  ASSUME NEW blocks, NEW w, NEW rlr, NEW f, NEW q, NEW a,
         AllCount(blocks, w, rlr, f, q, a)
  PROVE  blocks = WindowThenQueue(w, rlr, f, q)
  <1>. DEFINE slots == [j \in 1 .. f |-> w[Slot(Advance(rlr, j - 1))]]
              t == slots \o q
  <1>0. /\ a \in Nat /\ f \in 0 .. WindowSize /\ rlr = a % Modulus
        /\ q \in Seq(Nat) /\ blocks \in Seq(Nat) /\ Len(blocks) = f + Len(q)
        /\ \A i \in SlotIndex : StepsTo(i, rlr) < f => w[i] = a + StepsTo(i, rlr)
        /\ \A i \in 1 .. Len(q) : q[i] = (a + f) + i - 1
        /\ \A i \in 1 .. Len(blocks) : blocks[i] = a + i - 1
    BY DEF AllCount
  <1>1. /\ f \in Int /\ f >= 0 /\ f <= WindowSize /\ WindowSize \in Nat
        /\ Len(q) \in Nat /\ Len(blocks) \in Nat /\ a \in Nat
    BY <1>0, Parameters
  <1>2. ASSUME NEW j \in 1 .. f PROVE w[Slot(Advance(rlr, j - 1))] = a + j - 1
    <2>1. j - 1 \in 0 .. WindowSize - 1 /\ j - 1 \in Int /\ j - 1 < f /\ j \in Int
      BY <1>1
    <2>2. rlr \in Int
      BY <1>0, NextNumber
    <2>3. /\ Slot(Advance(rlr, j - 1)) \in SlotIndex
          /\ StepsTo(Slot(Advance(rlr, j - 1)), rlr) = j - 1
      BY <2>1, <2>2, StepsToSlot
    <2>4. w[Slot(Advance(rlr, j - 1))] = a + (j - 1)
      BY <1>0, <2>1, <2>3
    <2>. QED  BY <2>1, <2>4
  <1>3. slots \in Seq(Nat) /\ Len(slots) = f
    <2>1. \A j \in 1 .. f : a + j - 1 \in Nat
      BY <1>1
    <2>2. \A j \in 1 .. f : slots[j] \in Nat
      BY <1>2, <2>1
    <2>3. slots \in [1 .. f -> Nat]
      BY <2>2
    <2>. HIDE DEF slots
    <2>. QED  BY <1>1, <2>3, FunctionIsSeq
  <1>4. \A j \in 1 .. f : slots[j] = a + j - 1
    BY <1>2
  <1>. HIDE DEF slots
  <1>5. t \in Seq(Nat) /\ Len(t) = Len(blocks)
    BY <1>0, <1>1, <1>3, ConcatProperties
  <1>6. ASSUME NEW i \in 1 .. Len(blocks) PROVE blocks[i] = t[i]
    <2>1. \A k \in 1 .. Len(slots) + Len(q) :
            t[k] = IF k <= Len(slots) THEN slots[k] ELSE q[k - Len(slots)]
      BY <1>0, <1>3, ConcatProperties
    <2>2. i \in Int /\ i \in 1 .. Len(slots) + Len(q)
      BY <1>0, <1>1, <1>3
    <2>3. CASE i <= f
      <3>1. t[i] = slots[i] /\ i \in 1 .. f
        BY <1>1, <1>3, <2>1, <2>2, <2>3
      <3>. QED  BY <1>0, <1>4, <3>1
    <2>4. CASE ~ (i <= f)
      <3>1. i - f \in 1 .. Len(q)
        BY <1>1, <1>3, <2>2, <2>4
      <3>2. q[i - f] = (a + f) + (i - f) - 1
        BY <1>0, <3>1
      <3>3. (a + f) + (i - f) - 1 = a + i - 1
        BY <1>1, <2>2
      <3>4. t[i] = q[i - f]
        BY <1>3, <2>1, <2>2, <2>4
      <3>. QED  BY <1>0, <3>2, <3>3, <3>4
    <2>. QED  BY <2>3, <2>4
  <1>. HIDE DEF t
  <1>7. blocks = t
    BY <1>0, <1>5, <1>6, SeqEqual
  <1>. QED  BY <1>7 DEF WindowThenQueue, slots, t
=============================================================================
