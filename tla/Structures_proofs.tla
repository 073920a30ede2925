--------------------------- MODULE Structures_proofs ---------------------------
(***************************************************************************)
(* Proofs about four of the data structures that MCStructures checks: the  *)
(* client's ring (ClientBuffer), for every capacity and set of bytes; the  *)
(* block allocator (ObjectPool), for any number of threads and blocks; the *)
(* size-class allocator (MemoryPool), for any threads and sizes; and the   *)
(* log ring of the crash report (CrashReport), for any threads and slots.  *)
(***************************************************************************)
EXTENDS ClientBuffer, ObjectPool, MemoryPool, CrashReport,
        SequenceTheorems, FiniteSetTheorems, TLAPS

(***************************************************************************)
(* The client's ring.  The inductive invariant is RingTypeOK with          *)
(* EndAfterLast: it fixes which cells a Write overwrites, namely none that *)
(* holds a stored byte.                                                    *)
(***************************************************************************)
RingInv == RingTypeOK /\ EndAfterLast

(* An index of Write, Read or Consume moves forward round the ring. *)
LEMMA AdvanceIsCell ==
  ASSUME NEW at \in Cells, NEW bytes \in 0 .. m_Capacity
  PROVE  /\ Advance(at, bytes) \in Cells
         /\ Advance(at, bytes) = Cell(at + bytes)
<1>1. at \in Nat /\ at < m_Capacity /\ m_Capacity \in Nat
  BY RingAssumption DEF Cells
<1>2. CASE bytes < m_Capacity - at
  BY <1>1, <1>2 DEF Advance, Cell, Cells
<1>3. CASE bytes = m_Capacity - at
  BY <1>1, <1>3 DEF Advance, Cell, Cells
<1>4. CASE bytes > m_Capacity - at
  BY <1>1, <1>4 DEF Advance, Cell, Cells
<1>. QED
  BY <1>1, <1>2, <1>3, <1>4

(* The data of a Write are copied round the ring from the end at on. *)
LEMMA WrittenRound ==
  ASSUME RingTypeOK, NEW n \in 1 .. m_Capacity, NEW data \in [1 .. n -> Char]
  PROVE  /\ Written(data) \in [Cells -> Char]
         /\ \A j \in 1 .. n : Written(data)[Cell(m_EndIndex + j - 1)] = data[j]
         /\ \A c \in Cells :
              (\A j \in 1 .. n : c # Cell(m_EndIndex + j - 1))
                => Written(data)[c] = m_Data[c]
<1> DEFINE size1 == BeforeEnd(m_EndIndex, n)
           W == Written(data)
<1>1. Len(data) = n
  OBVIOUS
<1>2. /\ m_EndIndex \in Nat /\ m_EndIndex < m_Capacity /\ m_Capacity \in Nat
      /\ m_Data \in [Cells -> Char]
  BY RingAssumption DEF RingTypeOK, Cells
<1>3. W = [c \in Cells |->
             CASE c \in m_EndIndex .. m_EndIndex + size1 - 1 -> data[c - m_EndIndex + 1]
               [] c \in 0 .. n - size1 - 1                   -> data[size1 + c + 1]
               [] OTHER                                      -> m_Data[c]]
  BY <1>1 DEF Written
<1>4. /\ size1 \in 1 .. n /\ m_EndIndex + size1 <= m_Capacity
      /\ size1 < n => m_EndIndex + size1 = m_Capacity
      /\ n - size1 <= m_EndIndex
  BY <1>2 DEF BeforeEnd
<1>. HIDE DEF size1, W
<1>5. ASSUME NEW c \in Cells
      PROVE  /\ W[c] \in Char
             /\ (\A j \in 1 .. n : c # Cell(m_EndIndex + j - 1)) => W[c] = m_Data[c]
  <2>0. c \in Nat /\ c < m_Capacity
    BY <1>2 DEF Cells
  <2>1. CASE c \in m_EndIndex .. m_EndIndex + size1 - 1
    <3>0. c \notin 0 .. n - size1 - 1
      BY <1>2, <1>4, <2>0, <2>1
    <3>1. W[c] = data[c - m_EndIndex + 1]
      BY <1>3, <2>1, <3>0
    <3>2. c - m_EndIndex + 1 \in 1 .. n /\ m_EndIndex + (c - m_EndIndex + 1) - 1 = c
      BY <1>2, <1>4, <2>0, <2>1
    <3>3. c = Cell(m_EndIndex + (c - m_EndIndex + 1) - 1)
      BY <2>0, <3>2 DEF Cell
    <3>. QED
      BY <3>1, <3>2, <3>3
  <2>2. CASE c \notin m_EndIndex .. m_EndIndex + size1 - 1 /\ c \in 0 .. n - size1 - 1
    <3>1. W[c] = data[size1 + c + 1]
      BY <1>3, <2>2
    <3>2. size1 + c + 1 \in 1 .. n /\ m_EndIndex + (size1 + c + 1) - 1 = m_Capacity + c
      BY <1>2, <1>4, <2>0, <2>2
    <3>3. c = Cell(m_EndIndex + (size1 + c + 1) - 1)
      BY <1>2, <2>0, <3>2 DEF Cell
    <3>. QED
      BY <3>1, <3>2, <3>3
  <2>3. CASE c \notin m_EndIndex .. m_EndIndex + size1 - 1 /\ c \notin 0 .. n - size1 - 1
    BY <1>2, <1>3, <2>3
  <2>. QED
    BY <2>1, <2>2, <2>3
<1>6. W \in [Cells -> Char]
  BY <1>3, <1>5
<1>7. ASSUME NEW j \in 1 .. n
      PROVE  W[Cell(m_EndIndex + j - 1)] = data[j]
  <2> DEFINE c == Cell(m_EndIndex + j - 1)
  <2>1. c \in Cells
    BY <1>2 DEF Cell, Cells
  <2>2. CASE j <= size1
    <3>1. c = m_EndIndex + j - 1
      BY <1>2, <1>4, <2>2 DEF Cell
    <3>. HIDE DEF c
    <3>2. /\ c \in m_EndIndex .. m_EndIndex + size1 - 1
          /\ c \notin 0 .. n - size1 - 1 /\ c - m_EndIndex + 1 = j
      BY <1>2, <1>4, <2>2, <3>1
    <3>3. W[c] = data[c - m_EndIndex + 1]
      BY <1>3, <2>1, <3>2
    <3>. QED
      BY <3>2, <3>3 DEF c
  <2>3. CASE j > size1
    <3>1. c = j - size1 - 1
      BY <1>2, <1>4, <2>3 DEF Cell
    <3>. HIDE DEF c
    <3>2. /\ c \notin m_EndIndex .. m_EndIndex + size1 - 1
          /\ c \in 0 .. n - size1 - 1 /\ size1 + c + 1 = j
      BY <1>2, <1>4, <2>3, <3>1
    <3>3. W[c] = data[size1 + c + 1]
      BY <1>3, <2>1, <3>2
    <3>. QED
      BY <3>2, <3>3 DEF c
  <2>. QED
    BY <1>4, <2>2, <2>3
<1>. QED
  BY <1>5, <1>6, <1>7 DEF W

(* Reading moves both the first byte and the size. *)
LEMMA TakeKeeps ==
  ASSUME RingInv, NEW bytes \in Sizes, RingRead(bytes) \/ RingConsume(bytes)
  PROVE  /\ RingInv' /\ m_Data' = m_Data
         /\ bytes \in 1 .. m_CurrentSize
         /\ m_BeginIndex' = Cell(m_BeginIndex + bytes)
         /\ m_CurrentSize' = m_CurrentSize - bytes
<1>1. /\ bytes \in 1 .. m_CurrentSize /\ bytes \in 0 .. m_Capacity
      /\ m_CurrentSize \in Nat /\ m_CurrentSize <= m_Capacity /\ m_Capacity \in Nat
      /\ m_BeginIndex \in Cells /\ m_BeginIndex \in Nat /\ m_BeginIndex < m_Capacity
  BY RingAssumption DEF RingInv, RingTypeOK, Sizes, Cells, RingRead, RingConsume
<1>2. /\ Advance(m_BeginIndex, bytes) \in Cells
      /\ Advance(m_BeginIndex, bytes) = Cell(m_BeginIndex + bytes)
  BY <1>1, AdvanceIsCell
<1>3. ~(bytes <= m_Capacity - m_BeginIndex)
        => bytes + m_BeginIndex - m_Capacity = Cell(m_BeginIndex + bytes)
  BY <1>1 DEF Cell
<1>4. /\ m_Data' = m_Data /\ m_EndIndex' = m_EndIndex
      /\ m_BeginIndex' = Cell(m_BeginIndex + bytes)
      /\ m_CurrentSize' = m_CurrentSize - bytes
  BY <1>2, <1>3 DEF RingRead, RingConsume
<1>5. m_EndIndex' = Cell(m_BeginIndex' + m_CurrentSize')
  BY <1>1, <1>4 DEF RingInv, EndAfterLast, Cell
<1>6. EndAfterLast'
  BY <1>5 DEF EndAfterLast, Cell
<1>7. m_BeginIndex' \in Cells /\ m_CurrentSize' \in 0 .. m_Capacity
  BY <1>1, <1>2, <1>4
<1>8. RingTypeOK'
  BY <1>4, <1>7 DEF RingInv, RingTypeOK, Cells
<1>. QED
  BY <1>1, <1>4, <1>6, <1>8 DEF RingInv

(* Writing leaves the first byte and every stored byte alone, and puts the *)
(* new ones behind them.                                                   *)
LEMMA WriteKeeps ==
  ASSUME RingInv, NEW n \in Sizes, NEW data \in [1 .. n -> Char], RingWrite(data)
  PROVE  /\ RingInv' /\ n > 0
         /\ m_BeginIndex' = m_BeginIndex
         /\ m_CurrentSize' = m_CurrentSize + n
         /\ \A i \in 1 .. m_CurrentSize :
              m_Data'[Cell(m_BeginIndex + i - 1)] = m_Data[Cell(m_BeginIndex + i - 1)]
         /\ \A j \in 1 .. n :
              m_Data'[Cell(m_BeginIndex + (m_CurrentSize + j) - 1)] = data[j]
<1>1. Len(data) = n /\ n \in Nat
  BY RingAssumption DEF Sizes
<1>2. /\ n \in 1 .. m_Capacity /\ n <= m_Capacity - m_CurrentSize
      /\ m_CurrentSize \in Nat /\ m_CurrentSize <= m_Capacity /\ m_Capacity \in Nat
      /\ m_BeginIndex \in Nat /\ m_BeginIndex < m_Capacity /\ m_EndIndex \in Cells
  BY <1>1, RingAssumption DEF RingInv, RingTypeOK, Cells, RingWrite
<1>3. /\ m_Data' = Written(data) /\ m_EndIndex' = Advance(m_EndIndex, n)
      /\ m_BeginIndex' = m_BeginIndex /\ m_CurrentSize' = m_CurrentSize + n
  BY <1>1 DEF RingWrite
<1>4. m_EndIndex' \in Cells /\ m_EndIndex' = Cell(m_EndIndex + n)
  BY <1>2, <1>3, AdvanceIsCell
<1>5. m_EndIndex' = Cell(m_BeginIndex' + m_CurrentSize')
  BY <1>2, <1>3, <1>4 DEF RingInv, EndAfterLast, Cell
<1>6. EndAfterLast'
  BY <1>5 DEF EndAfterLast, Cell
<1>7. /\ m_Data' \in [Cells -> Char]
      /\ \A c \in Cells :
           (\A j \in 1 .. n : c # Cell(m_EndIndex + j - 1)) => m_Data'[c] = m_Data[c]
      /\ \A j \in 1 .. n : m_Data'[Cell(m_EndIndex + j - 1)] = data[j]
  BY <1>2, <1>3, WrittenRound DEF RingInv
<1>8. m_CurrentSize' \in 0 .. m_Capacity
  BY <1>2, <1>3
<1>9. RingTypeOK'
  BY <1>3, <1>4, <1>7, <1>8 DEF RingInv, RingTypeOK, Cells
<1>10. ASSUME NEW i \in 1 .. m_CurrentSize
       PROVE  m_Data'[Cell(m_BeginIndex + i - 1)] = m_Data[Cell(m_BeginIndex + i - 1)]
  <2>1. Cell(m_BeginIndex + i - 1) \in Cells
    BY <1>2 DEF Cell, Cells
  <2>2. ASSUME NEW j \in 1 .. n
        PROVE  Cell(m_BeginIndex + i - 1) # Cell(m_EndIndex + j - 1)
    BY <1>2 DEF RingInv, EndAfterLast, Cell
  <2>. QED
    BY <1>7, <2>1, <2>2
<1>11. ASSUME NEW j \in 1 .. n
       PROVE  m_Data'[Cell(m_BeginIndex + (m_CurrentSize + j) - 1)] = data[j]
  <2>1. Cell(m_BeginIndex + (m_CurrentSize + j) - 1) = Cell(m_EndIndex + j - 1)
    BY <1>2 DEF RingInv, EndAfterLast, Cell
  <2>. QED
    BY <1>7, <2>1
<1>12. RingInv' /\ n > 0
  BY <1>2, <1>6, <1>9 DEF RingInv
<1>. QED
  BY <1>3, <1>10, <1>11, <1>12

-----------------------------------------------------------------------------
(* Every call of the client keeps the indices and the size in agreement. *)
LEMMA RingInvariance == RingSpec => []RingInv
<1>1. RingInit => RingInv
  BY RingAssumption DEF RingInit, RingInv, RingTypeOK, EndAfterLast, Cells, Cell
<1>2. RingInv /\ [RingNext]_ringVars => RingInv'
  <2>. SUFFICES ASSUME RingInv, [RingNext]_ringVars PROVE RingInv'
    OBVIOUS
  <2>1. ASSUME NEW n \in Sizes, NEW data \in [1 .. n -> Char], RingWrite(data)
        PROVE  RingInv'
    BY <2>1, WriteKeeps
  <2>2. ASSUME NEW bytes \in Sizes, RingRead(bytes) \/ RingConsume(bytes)
        PROVE  RingInv'
    BY <2>2, TakeKeeps
  <2>3. CASE RingReset
    BY <2>3, RingAssumption DEF RingReset, RingInv, RingTypeOK, EndAfterLast, Cells, Cell
  <2>4. CASE UNCHANGED ringVars
    BY <2>4 DEF ringVars, RingInv, RingTypeOK, EndAfterLast
  <2>. QED
    BY <2>1, <2>2, <2>3, <2>4 DEF RingNext
<1>. QED
  BY <1>1, <1>2, PTL DEF RingSpec

(* What is stored, as a sequence. *)
LEMMA ContentsAreBytes ==
  ASSUME RingInv
  PROVE  /\ RingContents \in Seq(Char) /\ Len(RingContents) = m_CurrentSize
         /\ m_CurrentSize \in 0 .. m_Capacity
         /\ \A i \in 1 .. m_CurrentSize :
              RingContents[i] = m_Data[Cell(m_BeginIndex + i - 1)]
<1>1. /\ m_CurrentSize \in Nat /\ m_CurrentSize <= m_Capacity /\ m_Capacity \in Nat
      /\ m_BeginIndex \in Nat /\ m_BeginIndex < m_Capacity
      /\ m_Data \in [Cells -> Char]
  BY RingAssumption DEF RingInv, RingTypeOK, Cells
<1>2. \A i \in 1 .. m_CurrentSize : Cell(m_BeginIndex + i - 1) \in Cells
  BY <1>1 DEF Cell, Cells
<1>3. RingContents \in [1 .. m_CurrentSize -> Char]
  BY <1>1, <1>2 DEF RingContents
<1>4. \A i \in 1 .. m_CurrentSize :
        RingContents[i] = m_Data[Cell(m_BeginIndex + i - 1)]
  BY DEF RingContents
<1>. QED
  BY <1>1, <1>3, <1>4

(* Two sequences, one behind the other, as a function. *)
LEMMA Concatenated ==
  ASSUME NEW S, NEW q \in Seq(S), NEW d \in Seq(S)
  PROVE  q \o d = [i \in 1 .. Len(q) + Len(d) |->
                     IF i <= Len(q) THEN q[i] ELSE d[i - Len(q)]]
<1> DEFINE s == q \o d
<1>1. /\ s \in Seq(S) /\ Len(s) = Len(q) + Len(d)
      /\ \A i \in 1 .. Len(q) + Len(d) :
           s[i] = IF i <= Len(q) THEN q[i] ELSE d[i - Len(q)]
  OBVIOUS
<1>. HIDE DEF s
<1>2. s = [i \in 1 .. Len(q) + Len(d) |-> s[i]]
  BY <1>1
<1>. QED
  BY <1>1, <1>2 DEF s

(* What is left of a sequence q without its first m elements. *)
LEMMA RestOf ==
  ASSUME NEW S, NEW q \in Seq(S), NEW r \in Seq(S), NEW m \in 1 .. Len(q),
         Len(r) = Len(q) - m, \A i \in 1 .. Len(r) : r[i] = q[m + i]
  PROVE  r = SubSeq(q, m + 1, Len(q))
OBVIOUS

(* What the ring holds after a Write. *)
LEMMA WriteAppends ==
  ASSUME RingInv, NEW n \in Sizes, NEW data \in [1 .. n -> Char], RingWrite(data)
  PROVE  RingContents' = RingContents \o data
<1> DEFINE q == RingContents
           size == m_CurrentSize
<1>1. /\ q \in Seq(Char) /\ Len(q) = size /\ size \in Nat /\ n \in Nat
      /\ \A i \in 1 .. size : q[i] = m_Data[Cell(m_BeginIndex + i - 1)]
  BY ContentsAreBytes, RingAssumption DEF Sizes
<1>2. /\ m_BeginIndex' = m_BeginIndex /\ m_CurrentSize' = size + n
      /\ \A i \in 1 .. size :
           m_Data'[Cell(m_BeginIndex + i - 1)] = m_Data[Cell(m_BeginIndex + i - 1)]
      /\ \A j \in 1 .. n : m_Data'[Cell(m_BeginIndex + (size + j) - 1)] = data[j]
  BY WriteKeeps
<1>3. RingContents' = [i \in 1 .. m_CurrentSize' |-> m_Data'[Cell(m_BeginIndex' + i - 1)]]
  BY DEF RingContents, Cell
<1>4. data \in Seq(Char) /\ Len(data) = n
  BY <1>1
<1>. HIDE DEF q, size
<1>5. q \o data = [i \in 1 .. size + n |-> IF i <= size THEN q[i] ELSE data[i - size]]
  <2>1. q \o data = [i \in 1 .. Len(q) + Len(data) |->
                       IF i <= Len(q) THEN q[i] ELSE data[i - Len(q)]]
    BY <1>1, <1>4, Concatenated, Zenon
  <2>. QED
    BY <1>1, <1>4, <2>1, Zenon
<1>6. ASSUME NEW i \in 1 .. size + n
      PROVE  m_Data'[Cell(m_BeginIndex + i - 1)] = IF i <= size THEN q[i] ELSE data[i - size]
  <2>1. CASE i <= size
    BY <1>1, <1>2, <2>1
  <2>2. CASE i > size
    <3>1. i - size \in 1 .. n /\ size + (i - size) = i
      BY <1>1, <2>2
    <3>. QED
      BY <1>1, <1>2, <2>2, <3>1
  <2>. QED
    BY <1>1, <2>1, <2>2
<1>. QED
  BY <1>2, <1>3, <1>5, <1>6 DEF q

(***************************************************************************)
(* Every call of the client's ring, a split one and one on a full ring     *)
(* included, leaves its indices and its size in agreement, and a Peek      *)
(* returns the oldest bytes, for every capacity.                           *)
(***************************************************************************)
THEOREM RingIsSound == RingSpec => []RingSound
<1>1. ASSUME RingInv, NEW n \in 0 .. m_CurrentSize
      PROVE  Peeked(n) = SubSeq(RingContents, 1, n)
  <2> DEFINE size1 == BeforeEnd(m_BeginIndex, n)
             S == SubSeq(RingContents, 1, n)
  <2>1. /\ m_CurrentSize \in Nat /\ m_CurrentSize <= m_Capacity /\ m_Capacity \in Nat
        /\ m_BeginIndex \in Nat /\ m_BeginIndex < m_Capacity /\ n \in Nat
        /\ n <= m_CurrentSize
    BY <1>1, RingAssumption DEF RingInv, RingTypeOK, Cells
  <2>2. /\ RingContents \in Seq(Char) /\ Len(RingContents) = m_CurrentSize
        /\ \A i \in 1 .. m_CurrentSize :
             RingContents[i] = m_Data[Cell(m_BeginIndex + i - 1)]
    BY <1>1, ContentsAreBytes
  <2>3. /\ S \in Seq(Char) /\ Len(S) = n
        /\ \A i \in 1 .. n : S[i] = RingContents[i]
    <3>. HIDE DEF S
    <3>1. S = SubSeq(RingContents, 1, n)
      BY DEF S
    <3>. QED
      BY <2>1, <2>2, <3>1
  <2>4. S = [i \in 1 .. n |-> RingContents[i]]
    <3>. HIDE DEF S
    <3>. QED
      BY <2>1, <2>3
  <2>5. ASSUME NEW i \in 1 .. n
        PROVE  RingContents[i] = IF i <= size1 THEN m_Data[m_BeginIndex + i - 1]
                                               ELSE m_Data[i - size1 - 1]
    <3>1. RingContents[i] = m_Data[Cell(m_BeginIndex + i - 1)]
      BY <2>1, <2>2
    <3>2. Cell(m_BeginIndex + i - 1) = IF i <= size1 THEN m_BeginIndex + i - 1
                                                    ELSE i - size1 - 1
      BY <2>1 DEF Cell, BeforeEnd
    <3>. QED
      BY <3>1, <3>2
  <2>. HIDE DEF S
  <2>6. S = [i \in 1 .. n |-> IF i <= size1 THEN m_Data[m_BeginIndex + i - 1]
                                            ELSE m_Data[i - size1 - 1]]
    BY <2>4, <2>5
  <2>. QED
    BY <2>6 DEF S, Peeked
<1>2. RingInv => RingSound
  BY <1>1 DEF RingInv, RingSound
<1>. QED
  BY <1>2, RingInvariance, PTL

(***************************************************************************)
(* Refinement: Write, Read, Consume and Reset of the client's ring are the *)
(* operations of a bounded FIFO queue of bytes, for every capacity, and a  *)
(* Write, split or not, appends what it was given.                         *)
(***************************************************************************)
THEOREM RingImplementsByteQueue == RingSpec => RingIsFifo
<1>1. RingInit => Fifo!Init
  BY DEF RingInit, Fifo!Init, RingContents
<1>2. RingInv /\ RingInv' /\ [RingNext]_ringVars => [Fifo!Next]_RingContents
  <2>. SUFFICES ASSUME RingInv, RingInv', [RingNext]_ringVars
                PROVE  Fifo!Next \/ RingContents' = RingContents
    OBVIOUS
  <2> DEFINE q == RingContents
             r == RingContents'
  <2>1. /\ q \in Seq(Char) /\ Len(q) = m_CurrentSize /\ m_CurrentSize \in Nat
        /\ \A i \in 1 .. m_CurrentSize : q[i] = m_Data[Cell(m_BeginIndex + i - 1)]
    BY ContentsAreBytes, RingAssumption
  <2>2. /\ r \in Seq(Char) /\ Len(r) = m_CurrentSize'
        /\ m_CurrentSize' \in Nat /\ m_CurrentSize' <= m_Capacity
        /\ \A i \in 1 .. m_CurrentSize' : r[i] = m_Data'[Cell(m_BeginIndex' + i - 1)]
    <3>1. /\ m_CurrentSize' \in Nat /\ m_CurrentSize' <= m_Capacity /\ m_Capacity \in Nat
          /\ m_BeginIndex' \in Nat /\ m_BeginIndex' < m_Capacity
          /\ m_Data' \in [Cells -> Char]
      BY RingAssumption DEF RingInv, RingTypeOK, Cells
    <3>2. \A i \in 1 .. m_CurrentSize' : Cell(m_BeginIndex' + i - 1) \in Cells
      <4> DEFINE b == m_BeginIndex'
                 s == m_CurrentSize'
      <4>1. b \in Nat /\ b < m_Capacity /\ s \in Nat /\ s <= m_Capacity /\ m_Capacity \in Nat
        BY <3>1
      <4>. HIDE DEF b, s
      <4>2. \A i \in 1 .. s : Cell(b + i - 1) \in Cells
        BY <4>1 DEF Cell, Cells
      <4>. QED
        BY <4>2 DEF b, s
    <3>3. r = [i \in 1 .. m_CurrentSize' |-> m_Data'[Cell(m_BeginIndex' + i - 1)]]
      BY DEF RingContents, Cell
    <3>. HIDE DEF r
    <3>4. r \in [1 .. m_CurrentSize' -> Char]
      BY <3>1, <3>2, <3>3
    <3>. QED
      BY <3>1, <3>3, <3>4
  <2>. HIDE DEF q, r
  <2>3. ASSUME NEW n \in Sizes, NEW data \in [1 .. n -> Char], RingWrite(data)
        PROVE  Fifo!Next
    <3>1. /\ n > 0 /\ m_BeginIndex' = m_BeginIndex
          /\ m_CurrentSize' = m_CurrentSize + n
          /\ \A i \in 1 .. m_CurrentSize :
               m_Data'[Cell(m_BeginIndex + i - 1)] = m_Data[Cell(m_BeginIndex + i - 1)]
      BY <2>3, WriteKeeps
    <3>2. Len(r) > Len(q) /\ Len(r) <= m_Capacity
      BY <2>1, <2>2, <3>1, RingAssumption DEF Sizes
    <3>3. \A i \in 1 .. Len(q) : r[i] = q[i]
      BY <2>1, <2>2, <3>1, <3>2
    <3>4. SubSeq(r, 1, Len(q)) = SubSeq(q, 1, Len(q))
      BY <2>1, <2>2, <3>2, <3>3
    <3>5. Fifo!IsStrictPrefix(q, r)
      BY <2>1, <2>2, <3>2, <3>4 DEF Fifo!IsStrictPrefix, Fifo!IsPrefix
    <3>. QED
      BY <3>2, <3>5 DEF Fifo!Next, Fifo!Put, q, r
  <2>4. ASSUME NEW bytes \in Sizes, RingRead(bytes) \/ RingConsume(bytes)
        PROVE  Fifo!Next
    <3>1. /\ m_Data' = m_Data /\ bytes \in 1 .. m_CurrentSize
          /\ m_BeginIndex' = Cell(m_BeginIndex + bytes)
          /\ m_CurrentSize' = m_CurrentSize - bytes
      BY <2>4, TakeKeeps
    <3>2. /\ m_BeginIndex \in Nat /\ m_BeginIndex < m_Capacity /\ m_Capacity \in Nat
          /\ m_CurrentSize <= m_Capacity
      BY RingAssumption DEF RingInv, RingTypeOK, Cells
    <3>3. ASSUME NEW i \in 1 .. Len(r)
          PROVE  r[i] = q[bytes + i]
      <4>1. i \in 1 .. m_CurrentSize' /\ bytes + i \in 1 .. m_CurrentSize
        BY <2>1, <2>2, <3>1
      <4>2. Cell(Cell(m_BeginIndex + bytes) + i - 1) = Cell(m_BeginIndex + (bytes + i) - 1)
        BY <2>1, <3>1, <3>2, <4>1 DEF Cell
      <4>3. r[i] = m_Data[Cell(Cell(m_BeginIndex + bytes) + i - 1)]
        BY <2>2, <3>1, <4>1
      <4>. QED
        BY <2>1, <4>1, <4>2, <4>3
    <3>4. Len(r) = Len(q) - bytes /\ bytes \in 1 .. Len(q)
      BY <2>1, <2>2, <3>1
    <3>5. r = SubSeq(q, bytes + 1, Len(q))
      <4>1. q \in Seq(Char) /\ r \in Seq(Char)
        BY <2>1, <2>2
      <4>. QED
        BY <3>3, <3>4, <4>1, RestOf
    <3>. QED
      BY <3>4, <3>5 DEF Fifo!Next, Fifo!Take, q, r
  <2>5. CASE RingReset
    <3>1. Len(r) = 0
      BY <2>2, <2>5 DEF RingReset
    <3>2. r = <<>>
      BY <2>2, <3>1
    <3>. QED
      BY <3>2 DEF Fifo!Next, Fifo!Clear, r
  <2>6. CASE UNCHANGED ringVars
    BY <2>6 DEF ringVars, RingContents
  <2>. QED
    BY <2>3, <2>4, <2>5, <2>6 DEF RingNext
<1> DEFINE Appends ==
      m_CurrentSize' > m_CurrentSize =>
        \A data \in [1 .. m_CurrentSize' - m_CurrentSize -> Char] :
          RingWrite(data) => RingContents' = RingContents \o data
<1>3. RingInv /\ RingInv' /\ [RingNext]_ringVars => [Appends]_ringVars
  <2>. SUFFICES ASSUME RingInv, RingInv', m_CurrentSize' > m_CurrentSize
                PROVE  \A data \in [1 .. m_CurrentSize' - m_CurrentSize -> Char] :
                         RingWrite(data) => RingContents' = RingContents \o data
    OBVIOUS
  <2> DEFINE n == m_CurrentSize' - m_CurrentSize
  <2>1. n \in Sizes
    <3> DEFINE after == m_CurrentSize'
    <3>1. /\ after \in 0 .. m_Capacity /\ m_CurrentSize \in 0 .. m_Capacity
          /\ m_Capacity \in Nat /\ after > m_CurrentSize
      BY RingAssumption DEF RingInv, RingTypeOK
    <3>. HIDE DEF after
    <3>2. after - m_CurrentSize \in Sizes
      BY <3>1 DEF Sizes
    <3>. QED
      BY <3>2 DEF after
  <2>. HIDE DEF n
  <2>2. \A data \in [1 .. n -> Char] :
          RingWrite(data) => RingContents' = RingContents \o data
    BY <2>1, WriteAppends
  <2>. QED
    BY <2>2 DEF n
<1>. QED
  BY <1>1, <1>2, <1>3, RingInvariance, PTL
  DEF RingSpec, RingIsFifo, Fifo!Spec, WritesAppend

-----------------------------------------------------------------------------
(***************************************************************************)
(* ObjectPool.  The lock keeps two threads from being inside at once       *)
(* (OneInside); then every step inside keeps the list complete (Listed),   *)
(* whatever the others do meanwhile, and a block that is taken from a      *)
(* complete list is one that nobody has.                                   *)
(***************************************************************************)
Total == 1 .. mTotalAllocCount

OneInside ==
  /\ \A t, u \in Holding : t = u
  /\ mLockFlag = 0 => Holding = {}

(* Where a thread has got with its block. *)
Unlinking == \A t \in At({"unlink"}) : block[t] = mFreeList /\ mFreeList # NoBlock

Listed ==
  \E n \in Nat : \E s \in [1 .. n -> Free] :
    /\ Once(n, s) /\ IsFreeList(n, s)
    /\ \A b \in Free : \E i \in 1 .. n : s[i] = b

PoolInv == PoolTypeOK /\ OneInside /\ Unlinking /\ inUse \subseteq Total /\ HandedOutOnce /\ Listed

-----------------------------------------------------------------------------
(* A step that takes a block neither out of the list nor into it. *)
LEMMA ListFrame ==
  ASSUME Listed, Free' = Free, mFreeList' = mFreeList,
         \A b \in Free : word'[b] = word[b]
  PROVE  Listed'
  <1>1. PICK n \in Nat : \E s \in [1 .. n -> Free] :
          /\ Once(n, s) /\ IsFreeList(n, s)
          /\ \A b \in Free : \E i \in 1 .. n : s[i] = b
    BY DEF Listed
  <1>2. PICK s \in [1 .. n -> Free] :
          /\ Once(n, s) /\ IsFreeList(n, s)
          /\ \A b \in Free : \E i \in 1 .. n : s[i] = b
    BY <1>1
  <1>3. IsFreeList(n, s)'
    BY <1>2 DEF IsFreeList
  <1>4. QED
    BY <1>2, <1>3 DEF Listed, Once

(* A step that keeps everybody's block. *)
LEMMA SameCarried ==
  ASSUME PoolTypeOK, mTotalAllocCount' = mTotalAllocCount, inUse' = inUse,
         Carrying' = Carrying, \A t \in Carrying : block'[t] = block[t]
  PROVE  Carried' = Carried /\ Free' = Free /\ (HandedOutOnce => HandedOutOnce')
  <1>1. Carried' = {block'[t] : t \in Carrying'}
    BY DEF Carried
  <1>2. Carried' = Carried
    BY <1>1 DEF Carried
  <1>3. QED
    BY <1>2 DEF Free, HandedOutOnce

LEMMA TotalInBlocks ==
  ASSUME PoolAssumption, PoolTypeOK
  PROVE  Total \subseteq Blocks /\ Free \subseteq Blocks /\ NoBlock \notin Blocks
  BY DEF PoolAssumption, PoolTypeOK, Total, Free, Blocks, NoBlock

LEMMA PoolInitially == ASSUME PoolAssumption, PoolInit PROVE PoolInv
  <1>1. /\ Holding = {} /\ Carrying = {} /\ At({"unlink"}) = {}
    BY DEF PoolInit, Holding, Carrying, At
  <1>2. Free = {} /\ Carried = {}
    BY <1>1 DEF PoolInit, Free, Carried
  <1>3. PoolTypeOK
    BY DEF PoolInit, PoolTypeOK, PoolAssumption, Blocks, NoBlock, UserData
  <1>4. Listed
    <2>1. IsFreeList(0, [i \in 1 .. 0 |-> 0])
      BY DEF IsFreeList, PoolInit
    <2>2. [i \in 1 .. 0 |-> 0] \in [1 .. 0 -> Free]
      OBVIOUS
    <2>3. Once(0, [i \in 1 .. 0 |-> 0])
      BY DEF Once
    <2>4. QED
      BY <1>2, <2>1, <2>2, <2>3 DEF Listed
  <1>5. QED
    BY <1>1, <1>2, <1>3, <1>4 DEF PoolInv, OneInside, Unlinking, HandedOutOnce, PoolInit, Total


-----------------------------------------------------------------------------
(* Outside the list: the steps that change neither it nor a free word. *)
LEMMA CallNewStep ==
  ASSUME PoolInv, NEW t \in Threads, CallNew(t) PROVE PoolInv'
  <1> USE DEF PoolInv
  <1>1. PoolTypeOK'
    BY DEF CallNew, Goto, PoolTypeOK
  <1>2. Holding' = Holding /\ Carrying' = Carrying /\ At({"unlink"})' = At({"unlink"})
    BY DEF CallNew, Goto, PoolTypeOK, Holding, Carrying, At
  <1>3. Carried' = Carried /\ Free' = Free /\ HandedOutOnce'
    BY <1>2, SameCarried DEF CallNew
  <1>4. Listed'
    BY <1>3, ListFrame DEF CallNew
  <1>5. OneInside' /\ Unlinking' /\ (inUse \subseteq Total)'
    BY <1>2 DEF CallNew, OneInside, Unlinking, Total
  <1>6. QED
    BY <1>1, <1>3, <1>4, <1>5

LEMMA CallDeleteStep ==
  ASSUME PoolInv, NEW t \in Threads, NEW b \in Blocks, CallDelete(t, b) PROVE PoolInv'
  <1> USE DEF PoolInv
  <1>1. PoolTypeOK'
    BY DEF CallDelete, Goto, PoolTypeOK
  <1>2. /\ Holding' = Holding /\ At({"unlink"})' = At({"unlink"})
        /\ Carrying' = Carrying \cup {t} /\ t \notin Carrying /\ t \notin At({"unlink"})
    BY DEF CallDelete, Goto, PoolTypeOK, Holding, Carrying, At
  <1>3. block'[t] = b /\ \A u \in Threads \ {t} : block'[u] = block[u]
    BY DEF CallDelete, PoolTypeOK
  <1>4. Carrying \subseteq Threads /\ At({"unlink"}) \subseteq Threads
    BY DEF Carrying, At
  <1>5. Carried' = Carried \cup {b}
    BY <1>2, <1>3, <1>4 DEF Carried
  <1>6. b \in inUse /\ inUse' = inUse \ {b} /\ b \notin Carried
    BY DEF CallDelete, HandedOutOnce
  <1>7. HandedOutOnce'
    <2>1. Carried' \subseteq Total' \ inUse'
      BY <1>5, <1>6 DEF HandedOutOnce, CallDelete, Total
    <2>2. \A u \in Carrying : block[u] # b
      BY <1>6 DEF Carried
    <2>3. \A u, v \in Carrying' : block'[u] = block'[v] => u = v
      BY <1>2, <1>3, <1>4, <2>2 DEF HandedOutOnce
    <2>4. QED
      BY <2>1, <2>3 DEF HandedOutOnce, Total
  <1>8. Free' = Free
    BY <1>5, <1>6 DEF Free, CallDelete
  <1>9. Listed'
    BY <1>8, ListFrame DEF CallDelete
  <1>10. OneInside' /\ Unlinking' /\ (inUse \subseteq Total)'
    BY <1>2, <1>3, <1>4, <1>6 DEF CallDelete, OneInside, Unlinking, Total
  <1>11. QED
    BY <1>1, <1>7, <1>9, <1>10

LEMMA EnterLockStep ==
  ASSUME PoolInv, NEW t \in Threads, EnterLock(t) PROVE PoolInv'
  <1> USE DEF PoolInv
  <1>1. PoolTypeOK'
    BY DEF EnterLock, Entered, Goto, PoolTypeOK
  <1>2. Carrying' = Carrying /\ At({"unlink"})' = At({"unlink"})
    BY DEF EnterLock, Entered, Goto, PoolTypeOK, Carrying, At
  <1>3. Holding' = IF mLockFlag = 0 THEN Holding \cup {t} ELSE Holding
    BY DEF EnterLock, Entered, Goto, PoolTypeOK, Holding, At
  <1>4. Carried' = Carried /\ Free' = Free /\ HandedOutOnce'
    BY <1>2, SameCarried DEF EnterLock
  <1>5. Listed'
    BY <1>4, ListFrame DEF EnterLock
  <1>6. OneInside'
    BY <1>3 DEF EnterLock, OneInside
  <1>7. Unlinking' /\ (inUse \subseteq Total)'
    BY <1>2 DEF EnterLock, Unlinking, Total
  <1>8. QED
    BY <1>1, <1>4, <1>5, <1>6, <1>7

LEMMA UseObjectStep ==
  ASSUME PoolAssumption, PoolInv, NEW b \in Blocks, UseObject(b) PROVE PoolInv'
  <1> USE DEF PoolInv
  <1>1. PoolTypeOK'
    BY DEF UseObject, PoolTypeOK
  <1>2. Holding' = Holding /\ Carrying' = Carrying /\ At({"unlink"})' = At({"unlink"})
    BY DEF UseObject, Holding, Carrying, At
  <1>3. Carried' = Carried /\ Free' = Free /\ HandedOutOnce'
    BY <1>2, SameCarried DEF UseObject
  <1>4. \A c \in Free : word'[c] = word[c]
    <2>1. \A c \in Free : c \in Blocks /\ c # b
      BY TotalInBlocks DEF Free, UseObject
    <2>2. QED
      BY <2>1 DEF UseObject, PoolTypeOK
  <1>5. Listed'
    BY <1>3, <1>4, ListFrame DEF UseObject
  <1>6. OneInside' /\ Unlinking' /\ (inUse \subseteq Total)'
    BY <1>2 DEF UseObject, OneInside, Unlinking, Total
  <1>7. QED
    BY <1>1, <1>3, <1>5, <1>6

LEMMA TakeFirstStep ==
  ASSUME PoolInv, NEW t \in Threads, TakeFirst(t) PROVE PoolInv'
  <1> USE DEF PoolInv
  <1>1. PoolTypeOK'
    BY DEF TakeFirst, Goto, PoolTypeOK
  <1>2. /\ Holding' = Holding /\ Carrying' = Carrying /\ t \notin Carrying
        /\ At({"unlink"})' = At({"unlink"}) \cup {t}
    BY DEF TakeFirst, Goto, PoolTypeOK, Holding, Carrying, At
  <1>3. block'[t] = mFreeList /\ \A u \in Threads \ {t} : block'[u] = block[u]
    BY DEF TakeFirst, PoolTypeOK
  <1>4. Carrying \subseteq Threads /\ At({"unlink"}) \subseteq Threads
    BY DEF Carrying, At
  <1>5. Carried' = Carried /\ Free' = Free /\ HandedOutOnce'
    BY <1>2, <1>3, <1>4, SameCarried DEF TakeFirst
  <1>6. Listed'
    BY <1>5, ListFrame DEF TakeFirst
  <1>7. OneInside' /\ (inUse \subseteq Total)'
    BY <1>2 DEF TakeFirst, OneInside, Total
  <1>8. Unlinking'
    BY <1>2, <1>3, <1>4 DEF TakeFirst, Unlinking
  <1>9. QED
    BY <1>1, <1>5, <1>6, <1>7, <1>8

LEMMA UncountStep ==
  ASSUME PoolInv, NEW t \in Threads, Uncount(t) PROVE PoolInv'
  <1> USE DEF PoolInv
  <1>1. PoolTypeOK'
    BY DEF Uncount, Goto, PoolTypeOK
  <1>2. Holding' = Holding /\ Carrying' = Carrying /\ At({"unlink"})' = At({"unlink"})
    BY DEF Uncount, Goto, PoolTypeOK, Holding, Carrying, At
  <1>3. Carried' = Carried /\ Free' = Free /\ HandedOutOnce'
    BY <1>2, SameCarried DEF Uncount
  <1>4. Listed'
    BY <1>3, ListFrame DEF Uncount
  <1>5. OneInside' /\ Unlinking' /\ (inUse \subseteq Total)'
    BY <1>2 DEF Uncount, OneInside, Unlinking, Total
  <1>6. QED
    BY <1>1, <1>3, <1>4, <1>5

LEMMA LeaveDeleteStep ==
  ASSUME PoolInv, NEW t \in Threads, LeaveDelete(t) PROVE PoolInv'
  <1> USE DEF PoolInv
  <1>1. PoolTypeOK'
    BY DEF LeaveDelete, Goto, PoolTypeOK
  <1>2. /\ Holding' = Holding \ {t} /\ t \in Holding /\ Carrying' = Carrying
        /\ t \notin Carrying /\ At({"unlink"})' = At({"unlink"}) /\ t \notin At({"unlink"})
    BY DEF LeaveDelete, Goto, PoolTypeOK, Holding, Carrying, At
  <1>3. \A u \in Threads \ {t} : block'[u] = block[u]
    BY DEF LeaveDelete, PoolTypeOK
  <1>4. Carrying \subseteq Threads /\ At({"unlink"}) \subseteq Threads
    BY DEF Carrying, At
  <1>5. Carried' = Carried /\ Free' = Free /\ HandedOutOnce'
    BY <1>2, <1>3, <1>4, SameCarried DEF LeaveDelete
  <1>6. Listed'
    BY <1>5, ListFrame DEF LeaveDelete
  <1>7. OneInside' /\ Unlinking' /\ (inUse \subseteq Total)'
    BY <1>2, <1>3, <1>4 DEF LeaveDelete, OneInside, Unlinking, Total
  <1>8. QED
    BY <1>1, <1>5, <1>6, <1>7

LEMMA LeaveNewStep ==
  ASSUME PoolAssumption, PoolInv, NEW t \in Threads, LeaveNew(t) PROVE PoolInv'
  <1> USE DEF PoolInv
  <1>1. /\ Holding' = Holding \ {t} /\ t \in Holding
        /\ Carrying' = Carrying \ {t} /\ t \in Carrying
        /\ At({"unlink"})' = At({"unlink"}) /\ t \notin At({"unlink"})
    BY DEF LeaveNew, Goto, PoolTypeOK, Holding, Carrying, At
  <1>2. \A u \in Threads \ {t} : block'[u] = block[u]
    BY DEF LeaveNew, PoolTypeOK
  <1>3. Carrying \subseteq Threads /\ At({"unlink"}) \subseteq Threads
    BY DEF Carrying, At
  <1>4. block[t] \in Total /\ block[t] \notin inUse /\ Total \subseteq Blocks
    BY <1>1, TotalInBlocks DEF HandedOutOnce, Carried, Total
  <1>5. PoolTypeOK'
    BY <1>4 DEF LeaveNew, Goto, PoolTypeOK, NoBlock
  <1>6. \A u \in Carrying \ {t} : block[u] # block[t]
    BY <1>1 DEF HandedOutOnce
  <1>7. Carried' = Carried \ {block[t]}
    BY <1>1, <1>2, <1>3, <1>6 DEF Carried
  <1>8. block[t] \in Carried
    BY <1>1 DEF Carried
  <1>9. inUse' = inUse \cup {block[t]} /\ Total' = Total
    BY DEF LeaveNew, Total
  <1>10. HandedOutOnce'
    <2>1. Carried' \subseteq Total' \ inUse'
      BY <1>7, <1>9 DEF HandedOutOnce, Total
    <2>2. \A u, v \in Carrying' : block'[u] = block'[v] => u = v
      BY <1>1, <1>2, <1>3 DEF HandedOutOnce
    <2>3. QED
      BY <2>1, <2>2 DEF HandedOutOnce, Total
  <1>11. Free' = Free
    BY <1>7, <1>8, <1>9 DEF Free, LeaveNew
  <1>12. Listed'
    BY <1>11, ListFrame DEF LeaveNew
  <1>13. OneInside' /\ Unlinking' /\ (inUse \subseteq Total)'
    BY <1>1, <1>2, <1>3, <1>4, <1>9 DEF LeaveNew, OneInside, Unlinking
  <1>14. QED
    BY <1>5, <1>10, <1>12, <1>13

-----------------------------------------------------------------------------
(* Inside: the steps that change the list. *)
LEMMA RefillStep ==
  ASSUME PoolAssumption, PoolInv, NEW t \in Threads, Refill(t) PROVE PoolInv'
  <1> USE DEF PoolInv
  <1> DEFINE New == mTotalAllocCount + 1 .. mTotalAllocCount + ALLOC_COUNT
  <1>1. ALLOC_COUNT \in Nat \ {0} /\ MaxAllocCount \in Nat /\ mTotalAllocCount \in Nat
    BY DEF PoolAssumption, PoolTypeOK
  <1>2. mTotalAllocCount' = mTotalAllocCount + ALLOC_COUNT /\ mTotalAllocCount' <= MaxAllocCount
    BY DEF Refill
  <1>3. New \subseteq Blocks /\ Total' = Total \cup New /\ Total \cap New = {}
    BY <1>1, <1>2 DEF Blocks, Total
  <1>4. \A b \in Blocks : word'[b] = Linked(mTotalAllocCount + 1)[b]
    BY DEF Refill
  <1>5. \A b \in New :
          word'[b] = IF b = mTotalAllocCount + ALLOC_COUNT THEN NoBlock ELSE b + 1
    BY <1>1, <1>3, <1>4 DEF Linked
  <1>6. PoolTypeOK'
    <2>1. \A b \in Blocks : b \notin New => word'[b] = word[b]
      BY <1>1, <1>4 DEF Linked
    <2>2. \A b \in New : b # mTotalAllocCount + ALLOC_COUNT => b + 1 \in New
      BY <1>1
    <2>3. \A b \in Blocks : word'[b] \in Blocks \cup {NoBlock, UserData}
      BY <1>3, <1>5, <2>1, <2>2 DEF PoolTypeOK
    <2>4. word' = [b \in Blocks |-> word'[b]]
      BY DEF Refill, Linked
    <2>5. word' \in [Blocks -> Blocks \cup {NoBlock, UserData}]
      BY <2>3, <2>4
    <2>6. mFreeList' \in Blocks /\ mTotalAllocCount' \in 0 .. MaxAllocCount
      BY <1>1, <1>2 DEF Refill, Blocks
    <2>7. QED
      BY <2>5, <2>6 DEF PoolTypeOK, Refill
  <1>7. Holding' = Holding /\ Carrying' = Carrying /\ At({"unlink"})' = At({"unlink"})
    BY DEF Refill, Holding, Carrying, At
  <1>8. Carried' = Carried
    BY <1>7 DEF Carried, Refill
  <1>9. HandedOutOnce' /\ (inUse \subseteq Total)'
    BY <1>3, <1>7, <1>8 DEF HandedOutOnce, Refill, Total
  <1>10. Free = {}
    <2>1. PICK n \in Nat : \E s \in [1 .. n -> Free] :
            IsFreeList(n, s) /\ \A b \in Free : \E i \in 1 .. n : s[i] = b
      BY DEF Listed
    <2>2. PICK s \in [1 .. n -> Free] :
            IsFreeList(n, s) /\ \A b \in Free : \E i \in 1 .. n : s[i] = b
      BY <2>1
    <2>3. ASSUME n # 0 PROVE FALSE
      <3>1. s[1] \in Free /\ mFreeList = s[1]
        BY <2>2, <2>3 DEF IsFreeList
      <3>2. QED
        BY <3>1, TotalInBlocks DEF Refill
    <2>4. QED
      BY <2>2, <2>3
  <1>11. Free' = New
    BY <1>3, <1>8, <1>10 DEF Free, Refill, HandedOutOnce, Total
  <1>12. Listed'
    <2>0. PICK s \in [1 .. ALLOC_COUNT -> New] :
            \A i \in 1 .. ALLOC_COUNT : s[i] = mTotalAllocCount + i
      <3>1. [i \in 1 .. ALLOC_COUNT |-> mTotalAllocCount + i] \in [1 .. ALLOC_COUNT -> New]
        BY <1>1
      <3>2. QED
        BY <3>1
    <2>1. s \in [1 .. ALLOC_COUNT -> New] /\ Once(ALLOC_COUNT, s)
      BY <1>1, <2>0 DEF Once
    <2>2. \A b \in New : \E i \in 1 .. ALLOC_COUNT : s[i] = b
      <3>1. \A b \in New : b - mTotalAllocCount \in 1 .. ALLOC_COUNT
                          /\ s[b - mTotalAllocCount] = b
        BY <1>1, <2>0
      <3>2. QED
        BY <3>1
    <2>3. mFreeList' = IF ALLOC_COUNT = 0 THEN NoBlock ELSE s[1]
      BY <1>1, <2>0 DEF Refill
    <2>4. \A i \in 1 .. ALLOC_COUNT :
            word'[s[i]] = IF i = ALLOC_COUNT THEN NoBlock ELSE s[i + 1]
      BY <1>1, <1>5, <2>0
    <2>5. IsFreeList(ALLOC_COUNT, s)'
      BY <2>3, <2>4 DEF IsFreeList
    <2>6. QED
      BY <1>1, <1>11, <2>1, <2>2, <2>5, SMTT(60) DEF Listed, Once
  <1>13. OneInside'
    BY <1>7 DEF OneInside, Refill
  <1>14. Unlinking'
    <2>1. t \in Holding /\ t \notin At({"unlink"})
      BY DEF Refill, Holding, At
    <2>2. At({"unlink"}) \subseteq Holding
      BY DEF Holding, At
    <2>3. At({"unlink"}) = {}
      BY <2>1, <2>2 DEF OneInside
    <2>4. QED
      BY <1>7, <2>3 DEF Unlinking
  <1>15. QED
    BY <1>6, <1>9, <1>12, <1>13, <1>14

LEMMA UnlinkStep ==
  ASSUME PoolAssumption, PoolInv, NEW t \in Threads, Unlink(t) PROVE PoolInv'
  <1> USE DEF PoolInv
  <1>1. /\ Holding' = Holding /\ t \in Holding
        /\ Carrying' = Carrying \cup {t} /\ t \notin Carrying
        /\ At({"unlink"})' = At({"unlink"}) \ {t} /\ t \in At({"unlink"})
    BY DEF Unlink, Goto, PoolTypeOK, Holding, Carrying, At
  <1>2. block[t] = mFreeList /\ mFreeList # NoBlock
    BY <1>1 DEF Unlinking
  <1>3. PICK n \in Nat : \E s \in [1 .. n -> Free] :
          /\ Once(n, s) /\ IsFreeList(n, s)
          /\ \A b \in Free : \E i \in 1 .. n : s[i] = b
    BY DEF Listed
  <1>4. PICK s \in [1 .. n -> Free] :
          /\ Once(n, s) /\ IsFreeList(n, s)
          /\ \A b \in Free : \E i \in 1 .. n : s[i] = b
    BY <1>3
  <1>5. n # 0 /\ s[1] = block[t] /\ block[t] \in Free
    BY <1>2, <1>4 DEF IsFreeList
  <1>6. Carried' = Carried \cup {block[t]}
    BY <1>1 DEF Carried, Unlink
  <1>7. Free' = Free \ {block[t]}
    BY <1>6 DEF Free, Unlink
  <1>8. HandedOutOnce'
    <2>1. block[t] \in Total /\ block[t] \notin inUse /\ block[t] \notin Carried
      BY <1>5 DEF Free, Total
    <2>2. Carried' \subseteq Total' \ inUse'
      BY <1>6, <2>1 DEF HandedOutOnce, Unlink, Total
    <2>3. \A u \in Carrying : block[u] # block[t]
      BY <2>1 DEF Carried
    <2>4. \A u, v \in Carrying' : block'[u] = block'[v] => u = v
      BY <1>1, <2>3 DEF HandedOutOnce, Unlink
    <2>5. QED
      BY <2>2, <2>4 DEF HandedOutOnce, Total
  <1>9. word[s[1]] = IF n = 1 THEN NoBlock ELSE s[2]
    BY <1>4, <1>5 DEF IsFreeList
  <1>10. Listed'
    <2> DEFINE r == [i \in 1 .. n - 1 |-> s[i + 1]]
    <2>1. \A i \in 1 .. n - 1 : s[i + 1] \in Free /\ s[i + 1] # s[1]
      BY <1>4 DEF Once
    <2>2. n - 1 \in Nat /\ r \in [1 .. n - 1 -> Free'] /\ Once(n - 1, r)
      BY <1>4, <1>5, <1>7, <2>1 DEF Once
    <2>3. \A b \in Free' : \E i \in 1 .. n - 1 : r[i] = b
      <3>1. SUFFICES ASSUME NEW b \in Free' PROVE \E i \in 1 .. n - 1 : r[i] = b
        OBVIOUS
      <3>2. PICK j \in 1 .. n : s[j] = b
        BY <1>4, <1>7
      <3>3. j - 1 \in 1 .. n - 1 /\ r[j - 1] = b
        BY <1>5, <1>7, <3>2
      <3>4. QED
        BY <3>3
    <2>4. IsFreeList(n - 1, r)'
      <3>1. mFreeList' = IF n - 1 = 0 THEN NoBlock ELSE r[1]
        BY <1>5, <1>9 DEF Unlink
      <3>2. ASSUME NEW i \in 1 .. n - 1
            PROVE  word'[r[i]] = IF i = n - 1 THEN NoBlock ELSE r[i + 1]
        <4>1. i + 1 \in 1 .. n /\ r[i] = s[i + 1] /\ (i # n - 1 => r[i + 1] = s[i + 1 + 1])
          BY <1>4
        <4>2. word[s[i + 1]] = IF i + 1 = n THEN NoBlock ELSE s[i + 1 + 1]
          BY <1>4, <4>1 DEF IsFreeList
        <4>3. word' = word /\ (i + 1 = n <=> i = n - 1)
          BY <1>4 DEF Unlink
        <4>. QED
          BY <4>1, <4>2, <4>3
      <3>3. QED
        BY <3>1, <3>2 DEF IsFreeList
    <2> HIDE DEF r
    <2>5. QED
      BY <2>2, <2>3, <2>4 DEF Listed, Once
  <1>11. Unlinking'
    <2>1. At({"unlink"})' = {}
      BY <1>1 DEF OneInside, Holding, At
    <2>2. QED
      BY <2>1 DEF Unlinking
  <1>12. PoolTypeOK'
    <2>1. mFreeList' \in Blocks \cup {NoBlock}
      <3>1. n # 1 => s[2] \in Free
        BY <1>4, <1>5
      <3>2. QED
        BY <1>5, <1>9, <3>1, TotalInBlocks DEF Unlink
    <2>2. QED
      BY <2>1 DEF PoolTypeOK, Unlink, Goto
  <1>13. OneInside' /\ (inUse \subseteq Total)'
    BY <1>1 DEF OneInside, Unlink, Total
  <1>14. QED
    BY <1>8, <1>10, <1>11, <1>12, <1>13

LEMMA LinkStep ==
  ASSUME PoolAssumption, PoolInv, NEW t \in Threads, Link(t) PROVE PoolInv'
  <1> USE DEF PoolInv
  <1> DEFINE b == block[t]
  <1>1. /\ Holding' = Holding /\ t \in Holding
        /\ Carrying' = Carrying \ {t} /\ t \in Carrying
        /\ At({"unlink"})' = At({"unlink"}) /\ t \notin At({"unlink"})
    BY DEF Link, Goto, PoolTypeOK, Holding, Carrying, At
  <1>2. b \in Carried /\ b \in Total /\ b \in Blocks /\ b \notin inUse
    BY <1>1, TotalInBlocks DEF Carried, HandedOutOnce, Total
  <1>3. \A u \in Carrying \ {t} : block[u] # b
    BY <1>1 DEF HandedOutOnce
  <1>4. Carried' = Carried \ {b}
    BY <1>1, <1>3 DEF Carried, Link
  <1>5. Free' = Free \cup {b} /\ b \notin Free
    BY <1>2, <1>4 DEF Free, Link, Total
  <1>6. HandedOutOnce'
    BY <1>1, <1>4 DEF HandedOutOnce, Link
  <1>7. word' = [word EXCEPT ![b] = mFreeList] /\ mFreeList' = b
    BY DEF Link
  <1>8. PoolTypeOK'
    BY <1>2, <1>7 DEF PoolTypeOK, Link, Goto
  <1>9. PICK n \in Nat : \E s \in [1 .. n -> Free] :
          /\ Once(n, s) /\ IsFreeList(n, s)
          /\ \A c \in Free : \E i \in 1 .. n : s[i] = c
    BY DEF Listed
  <1>10. PICK s \in [1 .. n -> Free] :
          /\ Once(n, s) /\ IsFreeList(n, s)
          /\ \A c \in Free : \E i \in 1 .. n : s[i] = c
    BY <1>9
  <1>11. word'[b] = mFreeList /\ \A c \in Free : word'[c] = word[c]
    BY <1>2, <1>5, <1>7, TotalInBlocks DEF PoolTypeOK
  <1>12. Listed'
    <2>1. PICK r \in [1 .. n + 1 -> Free'] :
            r[1] = b /\ \A i \in 2 .. n + 1 : r[i] = s[i - 1]
      <3> DEFINE q == [i \in 1 .. n + 1 |-> IF i = 1 THEN b ELSE s[i - 1]]
      <3>1. q \in [1 .. n + 1 -> Free']
        BY <1>5, <1>10
      <3>2. q[1] = b /\ \A i \in 2 .. n + 1 : q[i] = s[i - 1]
        OBVIOUS
      <3> HIDE DEF q
      <3>3. QED
        BY <3>1, <3>2
    <2>2. \A i \in 2 .. n + 1 : i - 1 \in 1 .. n /\ r[i] = s[i - 1] /\ r[i] \in Free
      BY <1>10, <2>1
    <2>3. r[1] = b
      BY <2>1
    <2>4. Once(n + 1, r)
      <3>1. ASSUME NEW i \in 1 .. n + 1, NEW j \in 1 .. n + 1, r[i] = r[j]
            PROVE  i = j
        <4>1. b \notin Free /\ \A k \in 2 .. n + 1 : r[k] # b
          BY <1>5, <2>2
        <4>2. CASE i = 1 \/ j = 1
          BY <2>3, <3>1, <4>1, <4>2
        <4>3. CASE i \in 2 .. n + 1 /\ j \in 2 .. n + 1
          <5>1. /\ i - 1 \in 1 .. n /\ j - 1 \in 1 .. n /\ s[i - 1] = s[j - 1]
            BY <2>2, <3>1, <4>3
          <5>2. i - 1 = j - 1
            BY <1>10, <5>1 DEF Once
          <5>. QED
            BY <4>3, <5>2
        <4>. QED
          BY <4>2, <4>3
      <3>. QED
        BY <3>1 DEF Once
    <2>5. \A c \in Free' : \E i \in 1 .. n + 1 : r[i] = c
      <3>1. SUFFICES ASSUME NEW c \in Free' PROVE \E i \in 1 .. n + 1 : r[i] = c
        OBVIOUS
      <3>2. CASE c = b
        BY <2>3, <3>2
      <3>3. CASE c \in Free
        <4>1. PICK j \in 1 .. n : s[j] = c
          BY <1>10, <3>3
        <4>2. j + 1 \in 2 .. n + 1 /\ r[j + 1] = s[(j + 1) - 1]
          BY <2>1
        <4>3. j + 1 \in 1 .. n + 1 /\ r[j + 1] = c
          BY <4>1, <4>2
        <4>4. QED
          BY <4>3
      <3>4. QED
        BY <1>5, <3>2, <3>3
    <2>6. IsFreeList(n + 1, r)'
      <3>1. mFreeList' = IF n + 1 = 0 THEN NoBlock ELSE r[1]
        BY <1>7, <2>3
      <3>2. word'[r[1]] = IF 1 = n + 1 THEN NoBlock ELSE r[2]
        BY <1>10, <1>11, <2>2, <2>3 DEF IsFreeList
      <3>3. \A i \in 2 .. n + 1 : word'[r[i]] = IF i = n + 1 THEN NoBlock ELSE r[i + 1]
        <4>1. \A i \in 2 .. n + 1 : word'[r[i]] = word[s[i - 1]]
          BY <1>11, <2>2
        <4>2. \A i \in 2 .. n + 1 : word[s[i - 1]] = IF i - 1 = n THEN NoBlock ELSE s[i]
          BY <1>10, <2>2 DEF IsFreeList
        <4>3. \A i \in 2 .. n : r[i + 1] = s[i]
          BY <2>1
        <4>4. QED
          BY <4>1, <4>2, <4>3
      <3>4. QED
        BY <3>1, <3>2, <3>3 DEF IsFreeList
    <2>7. PICK m \in Nat : m = n + 1
      OBVIOUS
    <2>8. /\ r \in [1 .. m -> Free'] /\ Once(m, r)' /\ IsFreeList(m, r)'
          /\ \A c \in Free' : \E i \in 1 .. m : r[i] = c
      BY <2>1, <2>4, <2>5, <2>6, <2>7 DEF Once
    <2>9. QED
      BY <2>8 DEF Listed
  <1>13. OneInside' /\ (inUse \subseteq Total)'
    BY <1>1 DEF OneInside, Link, Total
  <1>14. Unlinking'
    <2>1. At({"unlink"}) = {}
      BY <1>1 DEF OneInside, Holding, At
    <2>2. QED
      BY <1>1, <2>1 DEF Unlinking
  <1>15. QED
    BY <1>6, <1>8, <1>12, <1>13, <1>14

-----------------------------------------------------------------------------
LEMMA PoolStutter == ASSUME PoolInv, UNCHANGED poolVars PROVE PoolInv'
  <1> USE DEF PoolInv
  <1>1. /\ Holding' = Holding /\ Carrying' = Carrying /\ Carried' = Carried
        /\ At({"unlink"})' = At({"unlink"}) /\ Free' = Free
    BY DEF poolVars, Holding, Carrying, Carried, At, Free
  <1>2. Listed'
    BY <1>1, ListFrame DEF poolVars
  <1>3. PoolTypeOK' /\ OneInside' /\ Unlinking' /\ (inUse \subseteq Total)' /\ HandedOutOnce'
    BY <1>1 DEF poolVars, PoolTypeOK, OneInside, Unlinking, Total, HandedOutOnce
  <1>4. QED
    BY <1>2, <1>3

LEMMA PoolInductive ==
  ASSUME PoolAssumption PROVE PoolSpec => []PoolInv
  <1>1. PoolInit => PoolInv
    BY PoolInitially
  <1>2. ASSUME PoolInv, [PoolNext]_poolVars PROVE PoolInv'
    <2>1. CASE UNCHANGED poolVars
      BY <1>2, <2>1, PoolStutter
    <2>2. ASSUME NEW t \in Threads, CallNew(t) \/ EnterLock(t) PROVE PoolInv'
      BY <1>2, <2>2, CallNewStep, EnterLockStep
    <2>3. ASSUME NEW t \in Threads, NEW b \in Blocks, CallDelete(t, b) PROVE PoolInv'
      BY <1>2, <2>3, CallDeleteStep
    <2>4. ASSUME NEW t \in Threads, Inside(t) PROVE PoolInv'
      BY <1>2, <2>4, RefillStep, TakeFirstStep, UnlinkStep, LeaveNewStep, UncountStep,
         LinkStep, LeaveDeleteStep DEF Inside
    <2>5. ASSUME NEW b \in Blocks, UseObject(b) PROVE PoolInv'
      BY <1>2, <2>5, UseObjectStep
    <2>6. QED
      BY <1>2, <2>1, <2>2, <2>3, <2>4, <2>5 DEF PoolNext
  <1>3. QED
    BY <1>1, <1>2, PTL DEF PoolSpec

(***************************************************************************)
(* The state of the pool is typed, whatever the threads do.                *)
(***************************************************************************)
THEOREM PoolTyped == ASSUME PoolAssumption PROVE PoolSpec => []PoolTypeOK
  <1>1. PoolInv => PoolTypeOK
    BY DEF PoolInv
  <1>2. QED
    BY <1>1, PoolInductive, PTL

(***************************************************************************)
(* operator new never returns a block that somebody has: any number of     *)
(* threads, any pool, any interleaving with the users of the blocks.       *)
(***************************************************************************)
THEOREM NeverHandedOutTwice == ASSUME PoolAssumption PROVE PoolSpec => []HandedOutOnce
  <1>1. PoolInv => HandedOutOnce
    BY DEF PoolInv
  <1>2. QED
    BY <1>1, PoolInductive, PTL

(* A listing without repetition is as long as what it lists. *)
LEMMA ListingLength ==
  ASSUME NEW n \in Nat, NEW S, NEW s \in [1 .. n -> S], Once(n, s),
         \A b \in S : \E i \in 1 .. n : s[i] = b
  PROVE  n = Cardinality(S)
  <1>1. s \in Bijection(1 .. n, S)
    BY DEF Bijection, Injection, IsInjective, Surjection, Once
  <1>2. ExistsBijection(1 .. n, S)
    BY <1>1 DEF ExistsBijection
  <1>3. IsFiniteSet(1 .. n) /\ Cardinality(1 .. n) = n
    BY FS_Interval
  <1>4. QED
    BY <1>2, <1>3, FS_Bijection

(***************************************************************************)
(* No block is lost, and the list never runs into an object in use: the    *)
(* list that starts at mFreeList is complete at every step of every        *)
(* thread.                                                                 *)
(***************************************************************************)
THEOREM NothingLost == ASSUME PoolAssumption PROVE PoolSpec => []FreeListComplete
  <1>1. ASSUME PoolInv PROVE FreeListComplete
    <2>1. PICK n \in Nat : \E s \in [1 .. n -> Free] :
            /\ Once(n, s) /\ IsFreeList(n, s)
            /\ \A b \in Free : \E i \in 1 .. n : s[i] = b
      BY <1>1 DEF PoolInv, Listed
    <2>2. PICK s \in [1 .. n -> Free] :
            /\ Once(n, s) /\ IsFreeList(n, s)
            /\ \A b \in Free : \E i \in 1 .. n : s[i] = b
      BY <2>1
    <2>3. n = Cardinality(Free)
      BY <2>2, ListingLength
    <2>4. QED
      BY <2>2, <2>3 DEF FreeListComplete
  <1>2. QED
    BY <1>1, PoolInductive, PTL

-----------------------------------------------------------------------------
(* The threads that have a block the count does not know of in inUse. *)
Between == At({"newLeave", "deleteWait", "delete"})

LEMMA PoolFinite ==
  ASSUME PoolAssumption, PoolTypeOK, NEW b, NEW t
  PROVE  /\ IsFiniteSet(inUse) /\ Cardinality(inUse) \in Nat
         /\ IsFiniteSet(Between) /\ Cardinality(Between) \in Nat
         /\ Cardinality(inUse \cup {b}) = Cardinality(inUse) + IF b \in inUse THEN 0 ELSE 1
         /\ Cardinality(inUse \ {b}) = Cardinality(inUse) - IF b \in inUse THEN 1 ELSE 0
         /\ Cardinality(Between \cup {t}) = Cardinality(Between) + IF t \in Between THEN 0 ELSE 1
         /\ Cardinality(Between \ {t}) = Cardinality(Between) - IF t \in Between THEN 1 ELSE 0
  <1>1. IsFiniteSet(Blocks)
    BY FS_Interval DEF PoolAssumption, Blocks
  <1>2. inUse \in SUBSET Blocks /\ Between \in SUBSET Threads
    BY DEF PoolTypeOK, Between, At
  <1>3. IsFiniteSet(inUse) /\ IsFiniteSet(Between)
    BY <1>1, <1>2, FS_Subset DEF PoolAssumption
  <1>4. Cardinality(inUse) \in Nat /\ Cardinality(Between) \in Nat
    BY <1>3, FS_CardinalityType
  <1>5. Cardinality(inUse \cup {b}) = Cardinality(inUse) + IF b \in inUse THEN 0 ELSE 1
    BY <1>3, <1>4, FS_AddElement
  <1>6. Cardinality(inUse \ {b}) = Cardinality(inUse) - IF b \in inUse THEN 1 ELSE 0
    BY <1>3, <1>4, FS_RemoveElement
  <1>7. Cardinality(Between \cup {t}) = Cardinality(Between) + IF t \in Between THEN 0 ELSE 1
    BY <1>3, <1>4, FS_AddElement
  <1>8. Cardinality(Between \ {t}) = Cardinality(Between) - IF t \in Between THEN 1 ELSE 0
    BY <1>3, <1>4, FS_RemoveElement
  <1>9. QED
    BY <1>3, <1>4, <1>5, <1>6, <1>7, <1>8

LEMMA CountStep ==
  ASSUME PoolAssumption, PoolInv, UseCountHonest, [PoolNext]_poolVars PROVE UseCountHonest'
  <1>1. PoolTypeOK /\ HandedOutOnce
    BY DEF PoolInv
  <1>2. mCurrentUseCount = Cardinality(inUse) + Cardinality(Between) /\ mCurrentUseCount \in Int
    BY <1>1 DEF UseCountHonest, Between, PoolTypeOK
  <1>3. SUFFICES mCurrentUseCount' = Cardinality(inUse') + Cardinality(Between')
    BY DEF UseCountHonest, Between
  <1>4. ASSUME inUse' = inUse, Between' = Between, mCurrentUseCount' = mCurrentUseCount
        PROVE  mCurrentUseCount' = Cardinality(inUse') + Cardinality(Between')
    BY <1>2, <1>4
  <1>5. CASE UNCHANGED poolVars
    BY <1>4, <1>5 DEF poolVars, Between, At
  <1>6. ASSUME NEW b \in Blocks, UseObject(b)
        PROVE  mCurrentUseCount' = Cardinality(inUse') + Cardinality(Between')
    BY <1>4, <1>6 DEF UseObject, Between, At
  <1>7. ASSUME NEW t \in Threads,
               CallNew(t) \/ EnterLock(t) \/ Refill(t) \/ TakeFirst(t) \/ Link(t) \/ LeaveDelete(t)
        PROVE  mCurrentUseCount' = Cardinality(inUse') + Cardinality(Between')
    <2>1. inUse' = inUse /\ mCurrentUseCount' = mCurrentUseCount
      BY <1>7 DEF CallNew, EnterLock, Refill, TakeFirst, Link, LeaveDelete
    <2>2. Between' = Between
      BY <1>1, <1>7 DEF CallNew, EnterLock, Entered, Refill, TakeFirst, Link, LeaveDelete,
         Between, At, Goto, PoolTypeOK
    <2>3. QED
      BY <1>4, <2>1, <2>2
  <1>8. ASSUME NEW t \in Threads, NEW b \in Blocks, CallDelete(t, b)
        PROVE  mCurrentUseCount' = Cardinality(inUse') + Cardinality(Between')
    <2>1. Between' = Between \cup {t} /\ t \notin Between
      BY <1>1, <1>8 DEF CallDelete, Between, At, Goto, PoolTypeOK
    <2>2. inUse' = inUse \ {b} /\ b \in inUse /\ mCurrentUseCount' = mCurrentUseCount
      BY <1>8 DEF CallDelete
    <2>3. /\ Cardinality(inUse \ {b}) = Cardinality(inUse) - 1
          /\ Cardinality(Between \cup {t}) = Cardinality(Between) + 1
          /\ Cardinality(inUse) \in Nat /\ Cardinality(Between) \in Nat
      BY <1>1, <2>1, <2>2, PoolFinite
    <2>4. /\ Cardinality(inUse') = Cardinality(inUse) - 1
          /\ Cardinality(Between') = Cardinality(Between) + 1
      BY <2>1, <2>2, <2>3, Zenon
    <2>5. mCurrentUseCount' = Cardinality(inUse) + Cardinality(Between)
      BY <1>2, <2>2
    <2>6. QED
      BY <2>3, <2>4, <2>5
  <1>9. ASSUME NEW t \in Threads, Unlink(t)
        PROVE  mCurrentUseCount' = Cardinality(inUse') + Cardinality(Between')
    <2>1. Between' = Between \cup {t} /\ t \notin Between
      BY <1>1, <1>9 DEF Unlink, Between, At, Goto, PoolTypeOK
    <2>2. inUse' = inUse /\ mCurrentUseCount' = mCurrentUseCount + 1
      BY <1>9 DEF Unlink
    <2>3. /\ Cardinality(Between \cup {t}) = Cardinality(Between) + 1
          /\ Cardinality(inUse) \in Nat /\ Cardinality(Between) \in Nat
      BY <1>1, <2>1, PoolFinite
    <2>4. Cardinality(Between') = Cardinality(Between) + 1 /\ Cardinality(inUse') = Cardinality(inUse)
      BY <2>1, <2>2, <2>3, Zenon
    <2>5. mCurrentUseCount' = Cardinality(inUse) + Cardinality(Between) + 1
      BY <1>2, <2>2
    <2>6. QED
      BY <2>3, <2>4, <2>5
  <1>10. ASSUME NEW t \in Threads, LeaveNew(t)
         PROVE  mCurrentUseCount' = Cardinality(inUse') + Cardinality(Between')
    <2>1. Between' = Between \ {t} /\ t \in Between /\ t \in Carrying
      BY <1>1, <1>10 DEF LeaveNew, Between, Carrying, At, Goto, PoolTypeOK
    <2>2. inUse' = inUse \cup {block[t]} /\ mCurrentUseCount' = mCurrentUseCount
      BY <1>10 DEF LeaveNew
    <2>3. block[t] \notin inUse
      BY <1>1, <2>1 DEF HandedOutOnce, Carried
    <2>4. /\ Cardinality(inUse \cup {block[t]}) = Cardinality(inUse) + 1
          /\ Cardinality(Between \ {t}) = Cardinality(Between) - 1
          /\ Cardinality(inUse) \in Nat /\ Cardinality(Between) \in Nat
      BY <1>1, <2>1, <2>3, PoolFinite
    <2>5. /\ Cardinality(inUse') = Cardinality(inUse) + 1
          /\ Cardinality(Between') = Cardinality(Between) - 1
      BY <2>1, <2>2, <2>4, Zenon
    <2>6. mCurrentUseCount' = Cardinality(inUse) + Cardinality(Between)
      BY <1>2, <2>2
    <2>7. QED
      BY <2>4, <2>5, <2>6
  <1>11. ASSUME NEW t \in Threads, Uncount(t)
         PROVE  mCurrentUseCount' = Cardinality(inUse') + Cardinality(Between')
    <2>1. Between' = Between \ {t} /\ t \in Between
      BY <1>1, <1>11 DEF Uncount, Between, At, Goto, PoolTypeOK
    <2>2. inUse' = inUse /\ mCurrentUseCount' = mCurrentUseCount - 1
      BY <1>11 DEF Uncount
    <2>3. /\ Cardinality(Between \ {t}) = Cardinality(Between) - 1
          /\ Cardinality(inUse) \in Nat /\ Cardinality(Between) \in Nat
      BY <1>1, <2>1, PoolFinite
    <2>4. Cardinality(Between') = Cardinality(Between) - 1 /\ Cardinality(inUse') = Cardinality(inUse)
      BY <2>1, <2>2, <2>3, Zenon
    <2>5. mCurrentUseCount' = Cardinality(inUse) + Cardinality(Between) - 1
      BY <1>2, <2>2, <2>3
    <2>6. QED
      BY <2>3, <2>4, <2>5
  <1>12. QED
    BY <1>5, <1>6, <1>7, <1>8, <1>9, <1>10, <1>11 DEF PoolNext, Inside

(***************************************************************************)
(* mCurrentUseCount, which operator delete asserts to be positive, is the  *)
(* number of objects in use at every moment, those on their way counted.   *)
(***************************************************************************)
THEOREM CountedExactly == ASSUME PoolAssumption PROVE PoolSpec => []UseCountHonest
  <1>1. PoolInit => UseCountHonest
    <2>1. ASSUME PoolInit PROVE At({"newLeave", "deleteWait", "delete"}) = {}
      BY <2>1 DEF PoolInit, At
    <2>2. QED
      BY <2>1, FS_EmptySet DEF PoolInit, UseCountHonest
  <1>2. PoolInv /\ UseCountHonest /\ [PoolNext]_poolVars => UseCountHonest'
    BY CountStep
  <1>3. QED
    BY <1>1, <1>2, PoolInductive, PTL DEF PoolSpec

(***************************************************************************)
(* The pool is sound, as PoolSound says it, at every moment: for any       *)
(* number of threads, blocks and blocks per allocation.                    *)
(***************************************************************************)
THEOREM PoolIsSound == ASSUME PoolAssumption PROVE PoolSpec => []PoolSound
  <1>1. PoolTypeOK /\ HandedOutOnce /\ FreeListComplete /\ UseCountHonest => PoolSound
    BY DEF PoolSound
  <1>2. QED
    BY <1>1, PoolTyped, NeverHandedOutTwice, NothingLost, CountedExactly, PTL

-----------------------------------------------------------------------------
(***************************************************************************)
(* The size classes.  Every size up to MAX_ALLOC_SIZE has a pool whose     *)
(* blocks are large enough; a larger one has none.                         *)
(***************************************************************************)
LEMMA PoolSizes == Pools \subseteq 1 .. MAX_ALLOC_SIZE
<1>1. ASSUME NEW k \in 1 .. 31
      PROVE  32 * k \in 1 .. 4096
  OBVIOUS
<1>2. ASSUME NEW k \in 0 .. 7
      PROVE  1024 + 128 * k \in 1 .. 4096
  OBVIOUS
<1>3. ASSUME NEW k \in 0 .. 8
      PROVE  2048 + 256 * k \in 1 .. 4096
  OBVIOUS
<1>. QED
  BY <1>1, <1>2, <1>3 DEF Pools, MAX_ALLOC_SIZE

LEMMA SmallestPool ==
  ASSUME NEW size \in 1 .. MAX_ALLOC_SIZE
  PROVE  \E p \in Pools : size <= p /\ \A q \in Pools : size <= q => p <= q
<1>0. size \in 1 .. 4096
  BY DEF MAX_ALLOC_SIZE
<1>1. CASE size <= 992
  <2> DEFINE k == (size + 31) \div 32
  <2>1. k \in 1 .. 31 /\ size <= 32 * k /\ 32 * (k - 1) < size
    BY <1>0, <1>1
  <2>. HIDE DEF k
  <2>2. 32 * k \in Pools
    BY <2>1 DEF Pools
  <2>3. ASSUME NEW j \in 1 .. 31, size <= 32 * j
        PROVE  32 * k <= 32 * j
    BY <1>0, <2>1, <2>3
  <2>4. \A j \in 0 .. 7 : 32 * k <= 1024 + 128 * j
    BY <2>1
  <2>5. \A j \in 0 .. 8 : 32 * k <= 2048 + 256 * j
    BY <2>1
  <2>6. \A q \in Pools : size <= q => 32 * k <= q
    BY <2>3, <2>4, <2>5 DEF Pools
  <2>. QED
    BY <2>1, <2>2, <2>6
<1>2. CASE 992 < size /\ size <= 1920
  <2> DEFINE k == IF size <= 1024 THEN 0 ELSE (size - 897) \div 128
  <2>1. /\ k \in 0 .. 7 /\ size <= 1024 + 128 * k
        /\ k = 0 \/ 1024 + 128 * (k - 1) < size
    BY <1>0, <1>2
  <2>. HIDE DEF k
  <2>2. 1024 + 128 * k \in Pools
    BY <2>1 DEF Pools
  <2>3. \A j \in 1 .. 31 : ~(size <= 32 * j)
    BY <1>0, <1>2
  <2>4. ASSUME NEW j \in 0 .. 7, size <= 1024 + 128 * j
        PROVE  1024 + 128 * k <= 1024 + 128 * j
    BY <1>0, <2>1, <2>4
  <2>5. \A j \in 0 .. 8 : 1024 + 128 * k <= 2048 + 256 * j
    BY <2>1
  <2>6. \A q \in Pools : size <= q => 1024 + 128 * k <= q
    BY <2>3, <2>4, <2>5 DEF Pools
  <2>. QED
    BY <2>1, <2>2, <2>6
<1>3. CASE 1920 < size
  <2> DEFINE k == IF size <= 2048 THEN 0 ELSE (size - 1793) \div 256
  <2>1. /\ k \in 0 .. 8 /\ size <= 2048 + 256 * k
        /\ k = 0 \/ 2048 + 256 * (k - 1) < size
    BY <1>0, <1>3
  <2>. HIDE DEF k
  <2>2. 2048 + 256 * k \in Pools
    BY <2>1 DEF Pools
  <2>3. \A j \in 1 .. 31 : ~(size <= 32 * j)
    BY <1>0, <1>3
  <2>4. \A j \in 0 .. 7 : ~(size <= 1024 + 128 * j)
    BY <1>0, <1>3
  <2>5. ASSUME NEW j \in 0 .. 8, size <= 2048 + 256 * j
        PROVE  2048 + 256 * k <= 2048 + 256 * j
    BY <1>0, <2>1, <2>5
  <2>6. \A q \in Pools : size <= q => 2048 + 256 * k <= q
    BY <2>3, <2>4, <2>5 DEF Pools
  <2>. QED
    BY <2>1, <2>2, <2>6
<1>. QED
  BY <1>0, <1>1, <1>2, <1>3

LEMMA TableIs ==
  ASSUME NEW size \in 1 .. MAX_ALLOC_SIZE
  PROVE  /\ mSmallSizeMemoryPoolTable(size) \in Pools
         /\ size <= mSmallSizeMemoryPoolTable(size)
         /\ mSmallSizeMemoryPoolTable(size) \in 1 .. MAX_ALLOC_SIZE
<1>1. /\ mSmallSizeMemoryPoolTable(size) \in Pools
      /\ size <= mSmallSizeMemoryPoolTable(size)
  BY SmallestPool DEF mSmallSizeMemoryPoolTable
<1>. QED
  BY <1>1, PoolSizes

-----------------------------------------------------------------------------
(***************************************************************************)
(* The blocks.  A block has the capacity of the pool that its size leads   *)
(* to (Home), it is at one place (Apart), and it is not lost (Somewhere).  *)
(***************************************************************************)
Home(b, size) ==
  capacity[b] = IF size > MAX_ALLOC_SIZE THEN size ELSE mSmallSizeMemoryPoolTable(size)

LiveFit == \A b \in live : mAllocSize[b] > 0 /\ Home(b, mAllocSize[b])

Carries(t) ==
  /\ stage[t] \in {"count", "attach", "release"} =>
       mem[t] # NoMem /\ realAllocSize[t] > 0 /\ Home(mem[t], realAllocSize[t])
  /\ stage[t] \in {"out", "uncount"} => mem[t] = NoMem
  /\ stage[t] \in {"count", "uncount"} => realAllocSize[t] \in 1 .. MAX_ALLOC_SIZE
  /\ stage[t] = "release" => mAllocSize[mem[t]] = 0

ListedFit ==
  \A p \in Pools : \A i \in DOMAIN mFreeLists[p] :
    capacity[mFreeLists[p][i]] = p /\ mAllocSize[mFreeLists[p][i]] = 0

Sized == LiveFit /\ (\A t \in PoolThreads : Carries(t)) /\ ListedFit

Apart ==
  /\ \A t, u \in PoolThreads : mem[t] = mem[u] /\ mem[t] # NoMem => t = u
  /\ \A t \in PoolThreads : mem[t] \notin live
  /\ \A p \in Pools : \A i \in DOMAIN mFreeLists[p] :
       /\ mFreeLists[p][i] \notin live
       /\ \A t \in PoolThreads : mem[t] # mFreeLists[p][i]
       /\ \A j \in DOMAIN mFreeLists[p] : mFreeLists[p][i] = mFreeLists[p][j] => i = j

Somewhere ==
  \A b \in MemBlocks :
    capacity[b] # 0 =>
      \/ b \in live
      \/ \E t \in PoolThreads : mem[t] = b
      \/ \E p \in Pools : \E i \in DOMAIN mFreeLists[p] : mFreeLists[p][i] = b

MemInv == MemoryTypeOK /\ ~halted /\ Sized /\ Apart /\ Somewhere

(* What the places of a step's thread are, and the lists of blocks. *)
LEMMA FirstPopped ==
  ASSUME NEW S, NEW s \in Seq(S), s # <<>>
  PROVE  /\ Len(s) \in Nat \ {0} /\ DOMAIN s = 1 .. Len(s)
         /\ Head(s) = s[1] /\ 1 \in DOMAIN s /\ Head(s) \in S
         /\ Tail(s) \in Seq(S) /\ Len(Tail(s)) = Len(s) - 1
         /\ \A i \in DOMAIN Tail(s) : i \in Nat \ {0} /\ i + 1 \in DOMAIN s /\ Tail(s)[i] = s[i + 1]
         /\ \A i \in DOMAIN s : i = 1 \/ (i - 1 \in DOMAIN Tail(s) /\ Tail(s)[i - 1] = s[i])
<1>1. /\ Len(s) \in Nat \ {0} /\ DOMAIN s = 1 .. Len(s)
      /\ Head(s) = s[1] /\ 1 \in DOMAIN s
  OBVIOUS
<1>2. /\ Head(s) \in S /\ Tail(s) \in Seq(S) /\ Len(Tail(s)) = Len(s) - 1
      /\ \A i \in 1 .. Len(Tail(s)) : Tail(s)[i] = s[i + 1]
  BY HeadTailProperties
<1>3. DOMAIN Tail(s) = 1 .. Len(s) - 1
  BY <1>2
<1>. QED
  BY <1>1, <1>2, <1>3

LEMMA FirstPushed ==
  ASSUME NEW S, NEW s \in Seq(S), NEW x \in S
  PROVE  /\ <<x>> \o s \in Seq(S) /\ Len(<<x>> \o s) = Len(s) + 1 /\ Len(s) \in Nat
         /\ (<<x>> \o s)[1] = x /\ 1 \in DOMAIN (<<x>> \o s)
         /\ \A i \in DOMAIN (<<x>> \o s) :
              i = 1 \/ (i \in Nat /\ i - 1 \in DOMAIN s /\ (<<x>> \o s)[i] = s[i - 1])
         /\ \A i \in DOMAIN s :
              i \in Nat /\ i + 1 \in DOMAIN (<<x>> \o s) /\ (<<x>> \o s)[i + 1] = s[i]
<1> DEFINE r == <<x>> \o s
<1>1. <<x>> \in Seq(S) /\ Len(<<x>>) = 1 /\ <<x>>[1] = x
  OBVIOUS
<1>2. /\ r \in Seq(S) /\ Len(r) = 1 + Len(s)
      /\ \A i \in 1 .. 1 + Len(s) : r[i] = IF i <= 1 THEN <<x>>[i] ELSE s[i - 1]
  BY <1>1, ConcatProperties
<1>. HIDE DEF r
<1>3. Len(s) \in Nat /\ DOMAIN s = 1 .. Len(s) /\ DOMAIN r = 1 .. Len(s) + 1
  BY <1>2
<1>4. r[1] = x /\ \A i \in 2 .. Len(s) + 1 : r[i] = s[i - 1]
  BY <1>1, <1>2, <1>3
<1>5. /\ r \in Seq(S) /\ Len(r) = Len(s) + 1 /\ Len(s) \in Nat
      /\ r[1] = x /\ 1 \in DOMAIN r
      /\ \A i \in DOMAIN r : i = 1 \/ (i \in Nat /\ i - 1 \in DOMAIN s /\ r[i] = s[i - 1])
      /\ \A i \in DOMAIN s : i \in Nat /\ i + 1 \in DOMAIN r /\ r[i + 1] = s[i]
  BY <1>2, <1>3, <1>4
<1>. QED
  BY <1>5 DEF r

LEMMA MemTypes ==
  ASSUME RequestsAssumption, MemoryTypeOK
  PROVE  /\ NoMem \notin MemBlocks
         /\ mFreeLists \in [Pools -> Seq(MemBlocks)] /\ mAllocCount \in [Pools -> Int]
         /\ capacity \in [MemBlocks -> Nat] /\ mAllocSize \in [MemBlocks -> Nat]
         /\ live \subseteq MemBlocks /\ mem \in [PoolThreads -> MemBlocks \cup {NoMem}]
         /\ realAllocSize \in [PoolThreads -> Nat]
         /\ stage \in [PoolThreads -> {"out", "count", "attach", "release", "uncount"}]
         /\ HeaderSize \in Nat \ {0} /\ Requests \subseteq Nat \ {0}
BY DEF RequestsAssumption, MemoryTypeOK, MemBlocks, NoMem

LEMMA MaxSize == MAX_ALLOC_SIZE \in Nat
BY DEF MAX_ALLOC_SIZE

LEMMA BytesOf ==
  ASSUME NEW size \in Nat \ {0}
  PROVE  (IF size > MAX_ALLOC_SIZE THEN size ELSE mSmallSizeMemoryPoolTable(size)) \in Nat \ {0}
<1>1. CASE size > MAX_ALLOC_SIZE
  BY <1>1
<1>2. CASE ~(size > MAX_ALLOC_SIZE)
  <2>1. size \in 1 .. MAX_ALLOC_SIZE
    BY <1>2, MaxSize
  <2>2. mSmallSizeMemoryPoolTable(size) \in 1 .. MAX_ALLOC_SIZE
    BY <2>1, TableIs
  <2>3. mSmallSizeMemoryPoolTable(size) \in Nat \ {0}
    BY <2>2, MaxSize
  <2>. QED
    BY <1>2, <2>3
<1>. QED
  BY <1>1, <1>2

(* AlignedMalloc, in AllocateLarge and in Pop on an empty list. *)
LEMMA HeapStep ==
  ASSUME RequestsAssumption, MemInv, NEW t \in PoolThreads, stage[t] = "out",
         NEW size \in Nat \ {0}, NEW bytes, NEW place \in {"count", "attach"},
         AlignedMalloc(t, bytes), realAllocSize' = [realAllocSize EXCEPT ![t] = size],
         bytes = IF size > MAX_ALLOC_SIZE THEN size ELSE mSmallSizeMemoryPoolTable(size),
         Move(t, place), place = "count" => size <= MAX_ALLOC_SIZE,
         UNCHANGED <<mFreeLists, mAllocCount, mAllocSize, live, halted>>
  PROVE  MemInv'
<1>1. PICK b \in Heap : /\ capacity' = [capacity EXCEPT ![b] = bytes]
                        /\ mem' = [mem EXCEPT ![t] = b]
  BY DEF AlignedMalloc
<1>2. b \in MemBlocks /\ capacity[b] = 0
  BY DEF Heap
<1>3. bytes \in Nat \ {0} /\ MAX_ALLOC_SIZE \in Nat
  BY BytesOf, MaxSize
<1>4. stage' = [stage EXCEPT ![t] = place]
  BY DEF Move
<1>5. MemoryTypeOK /\ Sized /\ Apart /\ Somewhere /\ ~halted
  BY DEF MemInv
<1>0. /\ NoMem \notin MemBlocks
       /\ mFreeLists \in [Pools -> Seq(MemBlocks)] /\ mAllocCount \in [Pools -> Int]
       /\ capacity \in [MemBlocks -> Nat] /\ mAllocSize \in [MemBlocks -> Nat]
       /\ live \subseteq MemBlocks /\ mem \in [PoolThreads -> MemBlocks \cup {NoMem}]
       /\ realAllocSize \in [PoolThreads -> Nat]
       /\ stage \in [PoolThreads -> {"out", "count", "attach", "release", "uncount"}]
  BY <1>5, MemTypes
<1>6. /\ mem[t] = NoMem /\ mem'[t] = b /\ stage'[t] = place /\ realAllocSize'[t] = size
      /\ \A u \in PoolThreads : u # t => /\ mem'[u] = mem[u] /\ stage'[u] = stage[u]
                                        /\ realAllocSize'[u] = realAllocSize[u]
      /\ \A c \in MemBlocks : c # b => capacity'[c] = capacity[c]
      /\ capacity'[b] = bytes
  <2>1. mem[t] = NoMem
    BY <1>5 DEF Sized, Carries
  <2>. QED
    BY <1>0, <1>1, <1>2, <1>4, <2>1
(* A block of the heap is nowhere. *)
<1>7. /\ b \notin live /\ \A u \in PoolThreads : mem[u] # b
      /\ \A p \in Pools : \A i \in DOMAIN mFreeLists[p] :
           mFreeLists[p][i] # b /\ mFreeLists[p][i] \in MemBlocks
  <2>1. ASSUME NEW n \in Nat \ {0}, NEW c \in MemBlocks, Home(c, n)
        PROVE  capacity[c] # 0
    <3>1. CASE n > MAX_ALLOC_SIZE
      BY <2>1, <3>1 DEF Home
    <3>2. CASE ~(n > MAX_ALLOC_SIZE)
      <4>1. n \in 1 .. MAX_ALLOC_SIZE
        BY <1>3, <3>2
      <4>. QED
        BY <2>1, <3>2, <4>1, TableIs DEF Home
    <3>. QED
      BY <3>1, <3>2
  <2>2. b \notin live
    <3>1. ASSUME b \in live PROVE FALSE
      <4>1. mAllocSize[b] \in Nat \ {0} /\ Home(b, mAllocSize[b])
        BY <1>0, <1>5, <3>1 DEF Sized, LiveFit
      <4>. QED
        BY <1>2, <2>1, <4>1
    <3>. QED
      BY <3>1
  <2>3. ASSUME NEW u \in PoolThreads, mem[u] = b
        PROVE  FALSE
    <3>1. stage[u] \in {"count", "attach", "release"}
      <4>1. Carries(u) /\ mem[u] # NoMem
        BY <1>0, <1>2, <1>5, <2>3 DEF Sized
      <4>2. stage[u] \in {"out", "count", "attach", "release", "uncount"}
        BY <1>0
      <4>. QED
        BY <4>1, <4>2 DEF Carries
    <3>2. realAllocSize[u] \in Nat \ {0} /\ Home(b, realAllocSize[u])
      BY <1>0, <1>5, <2>3, <3>1 DEF Sized, Carries
    <3>. QED
      BY <1>2, <2>1, <3>2
  <2>4. ASSUME NEW p \in Pools, NEW i \in DOMAIN mFreeLists[p]
        PROVE  mFreeLists[p][i] # b /\ mFreeLists[p][i] \in MemBlocks
    <3>1. mFreeLists[p] \in Seq(MemBlocks)
      BY <1>5, <1>0
    <3>2. mFreeLists[p][i] \in MemBlocks
      BY <3>1
    <3>3. p # 0
      BY PoolSizes
    <3>4. capacity[mFreeLists[p][i]] = p
      BY <1>5 DEF Sized, ListedFit
    <3>. QED
      BY <1>2, <3>2, <3>3, <3>4
  <2>. QED
    BY <2>2, <2>3, <2>4
<1>8. MemoryTypeOK'
  <2>1. capacity' \in [MemBlocks -> Nat] /\ mem' \in [PoolThreads -> MemBlocks \cup {NoMem}]
    BY <1>1, <1>2, <1>3, <1>5, <1>0
  <2>2. /\ realAllocSize' \in [PoolThreads -> Nat]
        /\ stage' \in [PoolThreads -> {"out", "count", "attach", "release", "uncount"}]
    BY <1>4, <1>5, <1>0
  <2>. QED
    BY <1>5, <1>0, <2>1, <2>2 DEF MemoryTypeOK
<1>9. Sized'
  <2>1. LiveFit'
    <3>1. ASSUME NEW c \in live
          PROVE  mAllocSize[c] > 0 /\ Home(c, mAllocSize[c]) /\ capacity'[c] = capacity[c]
      BY <1>0, <1>5, <1>6, <1>7 DEF Sized, LiveFit
    <3>. QED
      BY <3>1 DEF LiveFit, Home
  <2>2. ASSUME NEW u \in PoolThreads, u # t
        PROVE  Carries(u)'
    <3>1. Carries(u) /\ mem[u] # b /\ mem[u] \in MemBlocks \cup {NoMem}
      BY <1>0, <1>5, <1>7 DEF Sized
    <3>2. /\ mem'[u] = mem[u] /\ stage'[u] = stage[u] /\ realAllocSize'[u] = realAllocSize[u]
          /\ mAllocSize' = mAllocSize
          /\ mem[u] # NoMem => capacity'[mem[u]] = capacity[mem[u]]
      BY <1>6, <2>2, <3>1
    <3>. QED
      BY <3>1, <3>2 DEF Carries, Home
  <2>3. Carries(t)'
    <3>1. mem'[t] # NoMem /\ realAllocSize'[t] > 0 /\ Home(mem[t], realAllocSize[t])'
      BY <1>0, <1>2, <1>6 DEF Home
    <3>2. stage'[t] = "count" => realAllocSize'[t] \in 1 .. MAX_ALLOC_SIZE
      BY <1>3, <1>6
    <3>. QED
      BY <1>6, <3>1, <3>2 DEF Carries
  <2>4. ListedFit'
    <3>1. ASSUME NEW p \in Pools, NEW i \in DOMAIN mFreeLists[p]
          PROVE  capacity'[mFreeLists[p][i]] = p /\ mAllocSize[mFreeLists[p][i]] = 0
      BY <1>5, <1>6, <1>7 DEF Sized, ListedFit
    <3>. QED
      BY <3>1 DEF ListedFit
  <2>. QED
    BY <2>1, <2>2, <2>3, <2>4 DEF Sized
<1>10. Apart'
  <2>1. ASSUME NEW u \in PoolThreads
        PROVE  /\ mem'[u] \notin live
               /\ \A v \in PoolThreads : mem'[u] = mem'[v] /\ mem'[u] # NoMem => u = v
               /\ \A p \in Pools : \A i \in DOMAIN mFreeLists[p] : mem'[u] # mFreeLists[p][i]
    <3>1. CASE u = t
      BY <1>6, <1>7, <3>1
    <3>2. CASE u # t
      BY <1>5, <1>6, <1>7, <3>2 DEF Apart
    <3>. QED
      BY <3>1, <3>2
  <2>. QED
    BY <1>5, <2>1 DEF Apart
<1>11. Somewhere'
  <2>. SUFFICES ASSUME NEW c \in MemBlocks, capacity'[c] # 0
                PROVE  \/ c \in live
                       \/ \E u \in PoolThreads : mem'[u] = c
                       \/ \E p \in Pools : \E i \in DOMAIN mFreeLists[p] : mFreeLists[p][i] = c
    BY DEF Somewhere
  <2>1. CASE c = b
    BY <1>6, <2>1
  <2>2. CASE c # b
    <3>1. \A u \in PoolThreads : mem[u] = c => u # t
      BY <1>0, <1>6
    <3>. QED
      BY <1>5, <1>6, <2>2, <3>1 DEF Somewhere
  <2>. QED
    BY <2>1, <2>2
<1>. QED
  BY <1>5, <1>0, <1>8, <1>9, <1>10, <1>11 DEF MemInv

LEMMA CarriedFits ==
  ASSUME NEW u, Carries(u), stage'[u] = stage[u], mem'[u] = mem[u],
         realAllocSize'[u] = realAllocSize[u],
         mem[u] # NoMem => /\ capacity'[mem[u]] = capacity[mem[u]]
                           /\ mAllocSize'[mem[u]] = mAllocSize[mem[u]]
  PROVE  Carries(u)'
BY DEF Carries, Home

(* A block that a thread has is in no other place. *)
LEMMA OnlyWith ==
  ASSUME MemInv, NEW t \in PoolThreads, mem[t] # NoMem
  PROVE  /\ mem[t] \notin live
         /\ \A u \in PoolThreads : u # t => mem[u] # mem[t]
         /\ \A p \in Pools : \A i \in DOMAIN mFreeLists[p] : mFreeLists[p][i] # mem[t]
BY DEF MemInv, Apart

LEMMA CountUpStep ==
  ASSUME RequestsAssumption, MemInv, NEW t \in PoolThreads, CountUp(t)
  PROVE  MemInv'
<1>0. /\ NoMem \notin MemBlocks
      /\ mFreeLists \in [Pools -> Seq(MemBlocks)] /\ mAllocCount \in [Pools -> Int]
      /\ capacity \in [MemBlocks -> Nat] /\ mAllocSize \in [MemBlocks -> Nat]
      /\ live \subseteq MemBlocks /\ mem \in [PoolThreads -> MemBlocks \cup {NoMem}]
      /\ realAllocSize \in [PoolThreads -> Nat]
      /\ stage \in [PoolThreads -> {"out", "count", "attach", "release", "uncount"}]
  BY MemTypes DEF MemInv
<1>1. MemoryTypeOK /\ LiveFit /\ ListedFit /\ Apart /\ Somewhere /\ ~halted
      /\ \A u \in PoolThreads : Carries(u)
  BY DEF MemInv, Sized
<1>2. /\ stage[t] = "count" /\ stage' = [stage EXCEPT ![t] = "attach"]
      /\ mAllocCount' = [mAllocCount EXCEPT ![mSmallSizeMemoryPoolTable(realAllocSize[t])] =
                           mAllocCount[mSmallSizeMemoryPoolTable(realAllocSize[t])] + 1]
      /\ UNCHANGED <<mFreeLists, capacity, mAllocSize, live, mem, realAllocSize, halted>>
  BY DEF CountUp, IsAt, Move
<1>3. realAllocSize[t] \in 1 .. MAX_ALLOC_SIZE
  BY <1>1, <1>2 DEF Carries
<1>4. mSmallSizeMemoryPoolTable(realAllocSize[t]) \in Pools
  BY <1>3, TableIs
<1>5. mAllocCount' \in [Pools -> Int]
  BY <1>0, <1>2, <1>4
<1>6. stage' \in [PoolThreads -> {"out", "count", "attach", "release", "uncount"}]
  BY <1>0, <1>2
<1>7. MemoryTypeOK'
  BY <1>1, <1>2, <1>5, <1>6 DEF MemoryTypeOK
<1>8. ASSUME NEW u \in PoolThreads
      PROVE  Carries(u)'
  <2>1. CASE u # t
    BY <1>0, <1>1, <1>2, <2>1, CarriedFits
  <2>2. CASE u = t
    <3>1. stage'[t] = "attach"
      BY <1>0, <1>2
    <3>. QED
      BY <1>1, <1>2, <2>2, <3>1 DEF Carries, Home
  <2>. QED
    BY <2>1, <2>2
<1>9. LiveFit' /\ ListedFit'
  BY <1>1, <1>2 DEF LiveFit, ListedFit, Home
<1>10. Apart' /\ Somewhere'
  BY <1>1, <1>2 DEF Apart, Somewhere
<1>. QED
  BY <1>1, <1>2, <1>7, <1>8, <1>9, <1>10 DEF MemInv, Sized

LEMMA CountDownStep ==
  ASSUME RequestsAssumption, MemInv, NEW t \in PoolThreads, CountDown(t)
  PROVE  MemInv'
<1>0. /\ NoMem \notin MemBlocks
      /\ mFreeLists \in [Pools -> Seq(MemBlocks)] /\ mAllocCount \in [Pools -> Int]
      /\ capacity \in [MemBlocks -> Nat] /\ mAllocSize \in [MemBlocks -> Nat]
      /\ live \subseteq MemBlocks /\ mem \in [PoolThreads -> MemBlocks \cup {NoMem}]
      /\ realAllocSize \in [PoolThreads -> Nat]
      /\ stage \in [PoolThreads -> {"out", "count", "attach", "release", "uncount"}]
  BY MemTypes DEF MemInv
<1>1. MemoryTypeOK /\ LiveFit /\ ListedFit /\ Apart /\ Somewhere /\ ~halted
      /\ \A u \in PoolThreads : Carries(u)
  BY DEF MemInv, Sized
<1>2. /\ stage[t] = "uncount" /\ stage' = [stage EXCEPT ![t] = "out"]
      /\ mem' = [mem EXCEPT ![t] = NoMem] /\ realAllocSize' = [realAllocSize EXCEPT ![t] = 0]
      /\ mAllocCount' = [mAllocCount EXCEPT ![mSmallSizeMemoryPoolTable(realAllocSize[t])] =
                           mAllocCount[mSmallSizeMemoryPoolTable(realAllocSize[t])] - 1]
      /\ UNCHANGED <<mFreeLists, capacity, mAllocSize, live, halted>>
  BY DEF CountDown, IsAt, Move, Back
<1>3. realAllocSize[t] \in 1 .. MAX_ALLOC_SIZE /\ mem[t] = NoMem
  BY <1>1, <1>2 DEF Carries
<1>4. mSmallSizeMemoryPoolTable(realAllocSize[t]) \in Pools
  BY <1>3, TableIs
<1>5. mAllocCount' \in [Pools -> Int]
  BY <1>0, <1>2, <1>4
<1>6. /\ stage' \in [PoolThreads -> {"out", "count", "attach", "release", "uncount"}]
      /\ realAllocSize' \in [PoolThreads -> Nat] /\ mem' = mem
  BY <1>0, <1>2, <1>3
<1>7. MemoryTypeOK'
  BY <1>1, <1>2, <1>5, <1>6 DEF MemoryTypeOK
<1>8. ASSUME NEW u \in PoolThreads
      PROVE  Carries(u)'
  <2>1. CASE u # t
    BY <1>0, <1>1, <1>2, <2>1, CarriedFits
  <2>2. CASE u = t
    <3>1. stage'[t] = "out" /\ mem'[t] = NoMem
      BY <1>0, <1>2
    <3>. QED
      BY <2>2, <3>1 DEF Carries
  <2>. QED
    BY <2>1, <2>2
<1>9. LiveFit' /\ ListedFit'
  BY <1>1, <1>2 DEF LiveFit, ListedFit, Home
<1>10. Apart' /\ Somewhere'
  BY <1>1, <1>2, <1>6 DEF Apart, Somewhere
<1>. QED
  BY <1>1, <1>2, <1>7, <1>8, <1>9, <1>10 DEF MemInv, Sized

LEMMA AttachStep ==
  ASSUME RequestsAssumption, MemInv, NEW t \in PoolThreads, AttachMemAllocInfo(t)
  PROVE  MemInv'
<1> DEFINE m == mem[t]
           n == realAllocSize[t]
<1>0. /\ NoMem \notin MemBlocks
      /\ mFreeLists \in [Pools -> Seq(MemBlocks)] /\ mAllocCount \in [Pools -> Int]
      /\ capacity \in [MemBlocks -> Nat] /\ mAllocSize \in [MemBlocks -> Nat]
      /\ live \subseteq MemBlocks /\ mem \in [PoolThreads -> MemBlocks \cup {NoMem}]
      /\ realAllocSize \in [PoolThreads -> Nat]
      /\ stage \in [PoolThreads -> {"out", "count", "attach", "release", "uncount"}]
  BY MemTypes DEF MemInv
<1>1. MemoryTypeOK /\ LiveFit /\ ListedFit /\ Apart /\ Somewhere /\ ~halted
      /\ \A u \in PoolThreads : Carries(u)
  BY DEF MemInv, Sized
<1>2. /\ stage[t] = "attach" /\ stage' = [stage EXCEPT ![t] = "out"]
      /\ mem' = [mem EXCEPT ![t] = NoMem] /\ realAllocSize' = [realAllocSize EXCEPT ![t] = 0]
      /\ mAllocSize' = [mAllocSize EXCEPT ![m] = n] /\ live' = live \cup {m}
      /\ UNCHANGED <<mFreeLists, mAllocCount, capacity, halted>>
  BY DEF AttachMemAllocInfo, IsAt, Move, Back
<1>3. m \in MemBlocks /\ n \in Nat /\ n > 0 /\ Home(m, n)
  <2>1. m # NoMem /\ n > 0 /\ Home(m, n)
    BY <1>1, <1>2 DEF Carries
  <2>. QED
    BY <1>0, <2>1
<1>4. /\ m \notin live
      /\ \A u \in PoolThreads : u # t => mem[u] # m
      /\ \A p \in Pools : \A i \in DOMAIN mFreeLists[p] : mFreeLists[p][i] # m
  BY <1>0, <1>3, OnlyWith
<1>. HIDE DEF m, n
<1>5. /\ mAllocSize'[m] = n /\ \A c \in MemBlocks : c # m => mAllocSize'[c] = mAllocSize[c]
      /\ stage'[t] = "out" /\ mem'[t] = NoMem
      /\ \A u \in PoolThreads : u # t => /\ stage'[u] = stage[u] /\ mem'[u] = mem[u]
                                        /\ realAllocSize'[u] = realAllocSize[u]
      /\ \A p \in Pools : \A i \in DOMAIN mFreeLists[p] : mFreeLists[p][i] \in MemBlocks
  <2>1. \A p \in Pools : \A i \in DOMAIN mFreeLists[p] : mFreeLists[p][i] \in MemBlocks
    <3>1. \A p \in Pools : mFreeLists[p] \in Seq(MemBlocks)
      BY <1>0
    <3>. QED
      BY <3>1
  <2>. QED
    BY <1>0, <1>2, <1>3, <2>1
<1>6. MemoryTypeOK'
  <2>1. mAllocSize' \in [MemBlocks -> Nat] /\ live' \in SUBSET MemBlocks
    BY <1>0, <1>2, <1>3
  <2>2. /\ stage' \in [PoolThreads -> {"out", "count", "attach", "release", "uncount"}]
        /\ realAllocSize' \in [PoolThreads -> Nat]
        /\ mem' \in [PoolThreads -> MemBlocks \cup {NoMem}]
    BY <1>0, <1>2
  <2>. QED
    BY <1>1, <1>2, <2>1, <2>2 DEF MemoryTypeOK
<1>7. ASSUME NEW u \in PoolThreads
      PROVE  Carries(u)'
  <2>1. CASE u # t
    <3>1. mem[u] # NoMem => mem[u] \in MemBlocks /\ mem[u] # m
      BY <1>0, <1>4, <2>1
    <3>. QED
      BY <1>1, <1>2, <1>5, <2>1, <3>1, CarriedFits
  <2>2. CASE u = t
    BY <1>5, <2>2 DEF Carries
  <2>. QED
    BY <2>1, <2>2
<1>8. LiveFit'
  <2>1. ASSUME NEW c \in live
        PROVE  mAllocSize'[c] > 0 /\ Home(c, mAllocSize[c])'
    <3>1. mAllocSize'[c] = mAllocSize[c] /\ capacity' = capacity
      BY <1>0, <1>2, <1>4, <1>5
    <3>. QED
      BY <1>1, <3>1 DEF LiveFit, Home
  <2>2. mAllocSize'[m] > 0 /\ capacity'[m] = IF mAllocSize'[m] > MAX_ALLOC_SIZE THEN mAllocSize'[m]
                                   ELSE mSmallSizeMemoryPoolTable(mAllocSize'[m])
    BY <1>2, <1>3, <1>5 DEF Home
  <2>. QED
    BY <1>2, <2>1, <2>2 DEF LiveFit, Home
<1>9. ListedFit'
  BY <1>1, <1>2, <1>4, <1>5 DEF ListedFit
<1>10. Apart'
  <2>1. ASSUME NEW u \in PoolThreads
        PROVE  /\ mem'[u] \notin live'
               /\ \A v \in PoolThreads : mem'[u] = mem'[v] /\ mem'[u] # NoMem => u = v
               /\ \A p \in Pools : \A i \in DOMAIN mFreeLists[p] : mem'[u] # mFreeLists[p][i]
    <3>1. CASE u = t
      BY <1>0, <1>2, <1>3, <1>5, <3>1
    <3>2. CASE u # t
      BY <1>1, <1>2, <1>4, <1>5, <3>2 DEF Apart
    <3>. QED
      BY <3>1, <3>2
  <2>2. ASSUME NEW p \in Pools, NEW i \in DOMAIN mFreeLists[p]
        PROVE  /\ mFreeLists[p][i] \notin live'
               /\ \A j \in DOMAIN mFreeLists[p] : mFreeLists[p][i] = mFreeLists[p][j] => i = j
    BY <1>1, <1>2, <1>4 DEF Apart
  <2>. QED
    BY <1>2, <2>1, <2>2 DEF Apart
<1>11. Somewhere'
  <2>. SUFFICES ASSUME NEW c \in MemBlocks, capacity[c] # 0
                PROVE  \/ c \in live'
                       \/ \E u \in PoolThreads : mem'[u] = c
                       \/ \E p \in Pools : \E i \in DOMAIN mFreeLists[p] : mFreeLists[p][i] = c
    BY <1>2 DEF Somewhere
  <2>1. CASE c = m
    BY <1>2, <2>1
  <2>2. CASE c # m
    <3>1. \A u \in PoolThreads : mem[u] = c => u # t
      BY <2>2 DEF m
    <3>. QED
      BY <1>1, <1>2, <1>5, <2>2, <3>1 DEF Somewhere
  <2>. QED
    BY <2>1, <2>2
<1>. QED
  BY <1>1, <1>2, <1>6, <1>7, <1>8, <1>9, <1>10, <1>11 DEF MemInv, Sized

LEMMA ListedAre ==
  ASSUME RequestsAssumption, MemInv
  PROVE  \A p \in Pools : \A i \in DOMAIN mFreeLists[p] : mFreeLists[p][i] \in MemBlocks
<1>1. mFreeLists \in [Pools -> Seq(MemBlocks)]
  BY MemTypes DEF MemInv
<1>2. \A p \in Pools : mFreeLists[p] \in Seq(MemBlocks)
  BY <1>1
<1>. QED
  BY <1>2

LEMMA DeallocateStep ==
  ASSUME RequestsAssumption, MemInv, NEW t \in PoolThreads, NEW b \in MemBlocks, Deallocate(t, b)
  PROVE  MemInv'
<1> DEFINE n == mAllocSize[b]
<1>0. /\ NoMem \notin MemBlocks
      /\ mFreeLists \in [Pools -> Seq(MemBlocks)] /\ mAllocCount \in [Pools -> Int]
      /\ capacity \in [MemBlocks -> Nat] /\ mAllocSize \in [MemBlocks -> Nat]
      /\ live \subseteq MemBlocks /\ mem \in [PoolThreads -> MemBlocks \cup {NoMem}]
      /\ realAllocSize \in [PoolThreads -> Nat]
      /\ stage \in [PoolThreads -> {"out", "count", "attach", "release", "uncount"}]
  BY MemTypes DEF MemInv
<1>1. MemoryTypeOK /\ LiveFit /\ ListedFit /\ Apart /\ Somewhere /\ ~halted
      /\ \A u \in PoolThreads : Carries(u)
  BY DEF MemInv, Sized
<1>2. /\ stage[t] = "out" /\ stage' = [stage EXCEPT ![t] = "release"]
      /\ b \in live /\ live' = live \ {b} /\ mem' = [mem EXCEPT ![t] = b]
      /\ realAllocSize' = [realAllocSize EXCEPT ![t] = n]
      /\ mAllocSize' = [mAllocSize EXCEPT ![b] = 0]
      /\ halted' = (n <= 0)
      /\ UNCHANGED <<mFreeLists, mAllocCount, capacity>>
  BY DEF Deallocate, IsAt, Move
<1>3. n \in Nat /\ n > 0 /\ Home(b, n) /\ ~halted' /\ halted' \in BOOLEAN /\ mem[t] = NoMem
  <2>1. n \in Nat /\ n > 0 /\ Home(b, n) /\ mem[t] = NoMem
    BY <1>0, <1>1, <1>2 DEF LiveFit, Carries
  <2>2. ~(n <= 0)
    BY <2>1
  <2>. HIDE DEF n
  <2>3. (n <= 0) = FALSE
    BY <2>2
  <2>4. halted' = FALSE
    BY <1>2, <2>3
  <2>. QED
    BY <2>1, <2>4
<1>4. /\ \A u \in PoolThreads : mem[u] # b
      /\ \A p \in Pools : \A i \in DOMAIN mFreeLists[p] : mFreeLists[p][i] # b
      /\ \A p \in Pools : \A i \in DOMAIN mFreeLists[p] : mFreeLists[p][i] \in MemBlocks
  BY <1>1, <1>2, ListedAre DEF Apart
<1>. HIDE DEF n
<1>5. /\ mAllocSize'[b] = 0 /\ \A c \in MemBlocks : c # b => mAllocSize'[c] = mAllocSize[c]
      /\ stage'[t] = "release" /\ mem'[t] = b /\ realAllocSize'[t] = n
      /\ \A u \in PoolThreads : u # t => /\ stage'[u] = stage[u] /\ mem'[u] = mem[u]
                                        /\ realAllocSize'[u] = realAllocSize[u]
  BY <1>0, <1>2
<1>6. MemoryTypeOK'
  <2>1. mAllocSize' \in [MemBlocks -> Nat] /\ live' \in SUBSET MemBlocks
    BY <1>0, <1>2
  <2>2. /\ stage' \in [PoolThreads -> {"out", "count", "attach", "release", "uncount"}]
        /\ realAllocSize' \in [PoolThreads -> Nat]
        /\ mem' \in [PoolThreads -> MemBlocks \cup {NoMem}]
    BY <1>0, <1>2, <1>3
  <2>. QED
    BY <1>1, <1>2, <1>3, <2>1, <2>2 DEF MemoryTypeOK
<1>7. ASSUME NEW u \in PoolThreads
      PROVE  Carries(u)'
  <2>1. CASE u # t
    <3>1. mem[u] # NoMem => mem[u] \in MemBlocks /\ mem[u] # b
      BY <1>0, <1>4
    <3>. QED
      BY <1>1, <1>2, <1>5, <2>1, <3>1, CarriedFits
  <2>2. CASE u = t
    <3>1. b # NoMem
      BY <1>0
    <3>. QED
      BY <1>2, <1>3, <1>5, <2>2, <3>1 DEF Carries, Home
  <2>. QED
    BY <2>1, <2>2
<1>8. LiveFit'
  BY <1>0, <1>1, <1>2, <1>5 DEF LiveFit, Home
<1>9. ListedFit'
  BY <1>1, <1>2, <1>4, <1>5 DEF ListedFit
<1>10. Apart'
  <2>1. ASSUME NEW u \in PoolThreads
        PROVE  /\ mem'[u] \notin live'
               /\ \A v \in PoolThreads : mem'[u] = mem'[v] /\ mem'[u] # NoMem => u = v
               /\ \A p \in Pools : \A i \in DOMAIN mFreeLists[p] : mem'[u] # mFreeLists[p][i]
    <3>1. CASE u = t
      BY <1>2, <1>4, <1>5, <3>1
    <3>2. CASE u # t
      BY <1>1, <1>2, <1>4, <1>5, <3>2 DEF Apart
    <3>. QED
      BY <3>1, <3>2
  <2>2. ASSUME NEW p \in Pools, NEW i \in DOMAIN mFreeLists[p]
        PROVE  /\ mFreeLists[p][i] \notin live'
               /\ \A j \in DOMAIN mFreeLists[p] : mFreeLists[p][i] = mFreeLists[p][j] => i = j
    BY <1>1, <1>2 DEF Apart
  <2>. QED
    BY <1>2, <2>1, <2>2 DEF Apart
<1>11. Somewhere'
  <2>. SUFFICES ASSUME NEW c \in MemBlocks, capacity[c] # 0
                PROVE  \/ c \in live'
                       \/ \E u \in PoolThreads : mem'[u] = c
                       \/ \E p \in Pools : \E i \in DOMAIN mFreeLists[p] : mFreeLists[p][i] = c
    BY <1>2 DEF Somewhere
  <2>1. CASE c = b
    BY <1>5, <2>1
  <2>2. CASE c # b
    <3>1. \A u \in PoolThreads : mem[u] = c => u # t
      BY <1>0, <1>3
    <3>. QED
      BY <1>1, <1>2, <1>5, <2>2, <3>1 DEF Somewhere
  <2>. QED
    BY <2>1, <2>2
<1>. QED
  BY <1>1, <1>3, <1>6, <1>7, <1>8, <1>9, <1>10, <1>11 DEF MemInv, Sized

LEMMA AlignedFreeStep ==
  ASSUME RequestsAssumption, MemInv, NEW t \in PoolThreads, AlignedFree(t)
  PROVE  MemInv'
<1> DEFINE m == mem[t]
<1>0. /\ NoMem \notin MemBlocks
      /\ mFreeLists \in [Pools -> Seq(MemBlocks)] /\ mAllocCount \in [Pools -> Int]
      /\ capacity \in [MemBlocks -> Nat] /\ mAllocSize \in [MemBlocks -> Nat]
      /\ live \subseteq MemBlocks /\ mem \in [PoolThreads -> MemBlocks \cup {NoMem}]
      /\ realAllocSize \in [PoolThreads -> Nat]
      /\ stage \in [PoolThreads -> {"out", "count", "attach", "release", "uncount"}]
  BY MemTypes DEF MemInv
<1>1. MemoryTypeOK /\ LiveFit /\ ListedFit /\ Apart /\ Somewhere /\ ~halted
      /\ \A u \in PoolThreads : Carries(u)
  BY DEF MemInv, Sized
<1>2. /\ stage[t] = "release" /\ stage' = [stage EXCEPT ![t] = "out"]
      /\ mem' = [mem EXCEPT ![t] = NoMem] /\ realAllocSize' = [realAllocSize EXCEPT ![t] = 0]
      /\ capacity' = [capacity EXCEPT ![m] = 0]
      /\ UNCHANGED <<mFreeLists, mAllocCount, mAllocSize, live, halted>>
  BY DEF AlignedFree, IsAt, Move, Back
<1>3. m \in MemBlocks
  <2>1. m # NoMem
    BY <1>1, <1>2 DEF Carries
  <2>. QED
    BY <1>0, <2>1
<1>4. /\ m \notin live
      /\ \A u \in PoolThreads : u # t => mem[u] # m
      /\ \A p \in Pools : \A i \in DOMAIN mFreeLists[p] : mFreeLists[p][i] # m
      /\ \A p \in Pools : \A i \in DOMAIN mFreeLists[p] : mFreeLists[p][i] \in MemBlocks
  BY <1>0, <1>3, OnlyWith, ListedAre
<1>. HIDE DEF m
<1>5. /\ capacity'[m] = 0 /\ \A c \in MemBlocks : c # m => capacity'[c] = capacity[c]
      /\ stage'[t] = "out" /\ mem'[t] = NoMem
      /\ \A u \in PoolThreads : u # t => /\ stage'[u] = stage[u] /\ mem'[u] = mem[u]
                                        /\ realAllocSize'[u] = realAllocSize[u]
  BY <1>0, <1>2, <1>3
<1>6. MemoryTypeOK'
  <2>1. capacity' \in [MemBlocks -> Nat]
    BY <1>0, <1>2, <1>3
  <2>2. /\ stage' \in [PoolThreads -> {"out", "count", "attach", "release", "uncount"}]
        /\ realAllocSize' \in [PoolThreads -> Nat]
        /\ mem' \in [PoolThreads -> MemBlocks \cup {NoMem}]
    BY <1>0, <1>2
  <2>. QED
    BY <1>1, <1>2, <2>1, <2>2 DEF MemoryTypeOK
<1>7. ASSUME NEW u \in PoolThreads
      PROVE  Carries(u)'
  <2>1. CASE u # t
    <3>1. mem[u] # NoMem => mem[u] \in MemBlocks /\ mem[u] # m
      BY <1>0, <1>4, <2>1
    <3>. QED
      BY <1>1, <1>2, <1>5, <2>1, <3>1, CarriedFits
  <2>2. CASE u = t
    BY <1>5, <2>2 DEF Carries
  <2>. QED
    BY <2>1, <2>2
<1>8. LiveFit'
  <2>1. ASSUME NEW c \in live
        PROVE  mAllocSize[c] > 0 /\ Home(c, mAllocSize[c]) /\ capacity'[c] = capacity[c]
    BY <1>0, <1>1, <1>4, <1>5 DEF LiveFit
  <2>. QED
    BY <1>2, <2>1 DEF LiveFit, Home
<1>9. ListedFit'
  BY <1>1, <1>2, <1>4, <1>5 DEF ListedFit
<1>10. Apart'
  <2>1. ASSUME NEW u \in PoolThreads
        PROVE  /\ mem'[u] \notin live
               /\ \A v \in PoolThreads : mem'[u] = mem'[v] /\ mem'[u] # NoMem => u = v
               /\ \A p \in Pools : \A i \in DOMAIN mFreeLists[p] : mem'[u] # mFreeLists[p][i]
    <3>1. CASE u = t
      BY <1>0, <1>4, <1>5, <3>1
    <3>2. CASE u # t
      BY <1>1, <1>4, <1>5, <3>2 DEF Apart
    <3>. QED
      BY <3>1, <3>2
  <2>. QED
    BY <1>1, <1>2, <2>1 DEF Apart
<1>11. Somewhere'
  <2>. SUFFICES ASSUME NEW c \in MemBlocks, capacity'[c] # 0
                PROVE  \/ c \in live
                       \/ \E u \in PoolThreads : mem'[u] = c
                       \/ \E p \in Pools : \E i \in DOMAIN mFreeLists[p] : mFreeLists[p][i] = c
    BY <1>2 DEF Somewhere
  <2>1. c # m /\ capacity[c] # 0
    BY <1>5
  <2>2. \A u \in PoolThreads : mem[u] = c => u # t
    BY <2>1 DEF m
  <2>. QED
    BY <1>1, <1>5, <2>1, <2>2 DEF Somewhere
<1>. QED
  BY <1>1, <1>2, <1>6, <1>7, <1>8, <1>9, <1>10, <1>11 DEF MemInv, Sized

LEMMA PopStep ==
  ASSUME RequestsAssumption, MemInv, NEW t \in PoolThreads, NEW size \in Requests, Pop(t, size)
  PROVE  MemInv'
<1> DEFINE n == size + HeaderSize
           pool == mSmallSizeMemoryPoolTable(n)
           old == mFreeLists[pool]
           h == Head(old)
<1>0. /\ NoMem \notin MemBlocks
      /\ mFreeLists \in [Pools -> Seq(MemBlocks)] /\ mAllocCount \in [Pools -> Int]
      /\ capacity \in [MemBlocks -> Nat] /\ mAllocSize \in [MemBlocks -> Nat]
      /\ live \subseteq MemBlocks /\ mem \in [PoolThreads -> MemBlocks \cup {NoMem}]
      /\ realAllocSize \in [PoolThreads -> Nat]
      /\ stage \in [PoolThreads -> {"out", "count", "attach", "release", "uncount"}]
  BY MemTypes DEF MemInv
<1>1. MemoryTypeOK /\ LiveFit /\ ListedFit /\ Apart /\ Somewhere /\ ~halted
      /\ \A u \in PoolThreads : Carries(u)
  BY DEF MemInv, Sized
<1>2. /\ stage[t] = "out" /\ stage' = [stage EXCEPT ![t] = "count"]
      /\ n <= MAX_ALLOC_SIZE /\ old # <<>>
      /\ mem' = [mem EXCEPT ![t] = h] /\ realAllocSize' = [realAllocSize EXCEPT ![t] = n]
      /\ mFreeLists' = [mFreeLists EXCEPT ![pool] = Tail(old)]
      /\ halted' = (mAllocSize[h] # 0)
      /\ UNCHANGED <<mAllocCount, capacity, mAllocSize, live>>
  BY DEF Pop, IsAt, Move
<1>3. n \in 1 .. MAX_ALLOC_SIZE /\ pool \in Pools /\ mem[t] = NoMem
  <2>1. n \in Nat \ {0}
    BY MemTypes DEF MemInv
  <2>2. n \in 1 .. MAX_ALLOC_SIZE
    BY <1>2, <2>1, MaxSize
  <2>. HIDE DEF n
  <2>3. pool \in Pools
    BY <2>2, TableIs
  <2>4. mem[t] = NoMem
    BY <1>1, <1>2 DEF Carries
  <2>. QED
    BY <2>2, <2>3, <2>4
<1>. HIDE DEF n, pool
<1>4. old \in Seq(MemBlocks)
  BY <1>0, <1>3
<1> DEFINE new == Tail(old)
<1>. HIDE DEF old, h
<1>5. /\ h = old[1] /\ 1 \in DOMAIN old /\ h \in MemBlocks /\ new \in Seq(MemBlocks)
      /\ \A i \in DOMAIN new : i \in Nat \ {0} /\ i + 1 \in DOMAIN old /\ new[i] = old[i + 1]
      /\ \A i \in DOMAIN old : i = 1 \/ (i - 1 \in DOMAIN new /\ new[i - 1] = old[i])
  BY <1>2, <1>4, FirstPopped DEF h
<1>6. mFreeLists' = [mFreeLists EXCEPT ![pool] = new] /\ mFreeLists[pool] = old
  BY <1>2 DEF old
<1>. HIDE DEF new
<1>7. /\ capacity[h] = pool /\ mAllocSize[h] = 0 /\ h \notin live
      /\ \A u \in PoolThreads : mem[u] # h
      /\ \A i \in DOMAIN old : old[i] \in MemBlocks
      /\ \A i \in DOMAIN old : old[i] = h => i = 1
      /\ \A p \in Pools : p # pool => \A i \in DOMAIN mFreeLists[p] : mFreeLists[p][i] # h
  <2>1. capacity[h] = pool /\ mAllocSize[h] = 0
    BY <1>1, <1>3, <1>5, <1>6 DEF ListedFit
  <2>2. h \notin live /\ \A u \in PoolThreads : mem[u] # h
    BY <1>1, <1>3, <1>5, <1>6 DEF Apart
  <2>3. \A i \in DOMAIN old : old[i] = h => i = 1
    BY <1>1, <1>3, <1>5, <1>6 DEF Apart
  <2>4. \A i \in DOMAIN old : old[i] \in MemBlocks
    BY <1>4
  <2>5. \A p \in Pools : p # pool => \A i \in DOMAIN mFreeLists[p] : mFreeLists[p][i] # h
    BY <1>1, <2>1 DEF ListedFit
  <2>. QED
    BY <2>1, <2>2, <2>3, <2>4, <2>5
<1>8. ~halted' /\ halted' \in BOOLEAN
  <2>1. ~(mAllocSize[h] # 0)
    BY <1>7
  <2>. QED
    BY <1>2, <2>1, Zenon
<1>9. /\ mFreeLists' \in [Pools -> Seq(MemBlocks)] /\ mFreeLists'[pool] = new
      /\ \A p \in Pools : p # pool => mFreeLists'[p] = mFreeLists[p]
      /\ stage'[t] = "count" /\ mem'[t] = h /\ realAllocSize'[t] = n
      /\ \A u \in PoolThreads : u # t => /\ stage'[u] = stage[u] /\ mem'[u] = mem[u]
                                        /\ realAllocSize'[u] = realAllocSize[u]
  BY <1>0, <1>2, <1>3, <1>5, <1>6
<1>10. MemoryTypeOK'
  <2>1. n \in Nat
    BY <1>3, MaxSize
  <2>2. /\ stage' \in [PoolThreads -> {"out", "count", "attach", "release", "uncount"}]
        /\ realAllocSize' \in [PoolThreads -> Nat]
        /\ mem' \in [PoolThreads -> MemBlocks \cup {NoMem}]
    BY <1>0, <1>2, <1>5, <2>1
  <2>. QED
    BY <1>1, <1>2, <1>8, <1>9, <2>2 DEF MemoryTypeOK
<1>11. ASSUME NEW u \in PoolThreads
       PROVE  Carries(u)'
  <2>1. CASE u # t
    BY <1>1, <1>2, <1>9, <2>1, CarriedFits
  <2>2. CASE u = t
    <3>1. n > 0 /\ ~(n > MAX_ALLOC_SIZE) /\ h # NoMem
      BY <1>0, <1>3, <1>5, MaxSize
    <3>2. Home(mem[t], realAllocSize[t])'
      BY <1>2, <1>7, <1>9, <3>1 DEF Home, pool
    <3>. QED
      BY <1>3, <1>9, <2>2, <3>1, <3>2 DEF Carries
  <2>. QED
    BY <2>1, <2>2
(* What is listed now was listed before, and is not the first. *)
<1>12. ASSUME NEW p \in Pools, NEW i \in DOMAIN mFreeLists'[p]
       PROVE  /\ \E j \in DOMAIN mFreeLists[p] : mFreeLists'[p][i] = mFreeLists[p][j]
              /\ mFreeLists'[p][i] # h
              /\ \A k \in DOMAIN mFreeLists'[p] : mFreeLists'[p][i] = mFreeLists'[p][k] => i = k
  <2>1. CASE p = pool
    <3>1. i \in DOMAIN new /\ mFreeLists'[p] = new /\ mFreeLists[p] = old
      BY <1>6, <1>9, <2>1
    <3>2. i + 1 \in DOMAIN old /\ new[i] = old[i + 1] /\ i \in Nat \ {0}
      BY <1>5, <3>1
    <3>3. new[i] # h
      <4>1. i + 1 # 1
        BY <3>2
      <4>. QED
        BY <1>7, <3>2, <4>1
    <3>4. ASSUME NEW k \in DOMAIN new, new[i] = new[k]
          PROVE  i = k
      <4>1. k + 1 \in DOMAIN old /\ new[k] = old[k + 1] /\ k \in Nat \ {0}
        BY <1>5
      <4>2. i + 1 = k + 1
        BY <1>1, <1>3, <1>6, <3>2, <3>4, <4>1 DEF Apart
      <4>. QED
        BY <3>2, <4>1, <4>2
    <3>. QED
      BY <3>1, <3>2, <3>3, <3>4
  <2>2. CASE p # pool
    BY <1>1, <1>7, <1>9, <2>2 DEF Apart
  <2>. QED
    BY <2>1, <2>2
<1>13. LiveFit'
  BY <1>1, <1>2 DEF LiveFit, Home
<1>14. ListedFit'
  <2>1. ASSUME NEW p \in Pools, NEW i \in DOMAIN mFreeLists'[p]
        PROVE  capacity[mFreeLists'[p][i]] = p /\ mAllocSize[mFreeLists'[p][i]] = 0
    BY <1>1, <1>12 DEF ListedFit
  <2>. QED
    BY <1>2, <2>1 DEF ListedFit
<1>15. Apart'
  <2>1. ASSUME NEW u \in PoolThreads
        PROVE  /\ mem'[u] \notin live
               /\ \A v \in PoolThreads : mem'[u] = mem'[v] /\ mem'[u] # NoMem => u = v
    <3>1. CASE u = t
      BY <1>7, <1>9, <3>1
    <3>2. CASE u # t
      BY <1>1, <1>7, <1>9, <3>2 DEF Apart
    <3>. QED
      BY <3>1, <3>2
  <2>2. ASSUME NEW p \in Pools, NEW i \in DOMAIN mFreeLists'[p]
        PROVE  /\ mFreeLists'[p][i] \notin live
               /\ \A u \in PoolThreads : mem'[u] # mFreeLists'[p][i]
               /\ \A j \in DOMAIN mFreeLists'[p] : mFreeLists'[p][i] = mFreeLists'[p][j] => i = j
    <3>1. PICK j \in DOMAIN mFreeLists[p] : mFreeLists'[p][i] = mFreeLists[p][j]
      BY <1>12
    <3>2. /\ mFreeLists[p][j] \notin live
          /\ \A u \in PoolThreads : mem[u] # mFreeLists[p][j]
      BY <1>1 DEF Apart
    <3>. QED
      BY <1>9, <1>12, <3>1, <3>2
  <2>. QED
    BY <1>2, <2>1, <2>2 DEF Apart
<1>16. Somewhere'
  <2>. SUFFICES ASSUME NEW c \in MemBlocks, capacity[c] # 0
                PROVE  \/ c \in live
                       \/ \E u \in PoolThreads : mem'[u] = c
                       \/ \E p \in Pools : \E i \in DOMAIN mFreeLists'[p] : mFreeLists'[p][i] = c
    BY <1>2 DEF Somewhere
  <2>1. CASE c = h
    BY <1>9, <2>1
  <2>2. CASE c # h
    <3>1. CASE c \in live
      BY <3>1
    <3>2. ASSUME NEW u \in PoolThreads, mem[u] = c
          PROVE  mem'[u] = c
      BY <1>0, <1>3, <1>9, <3>2
    <3>3. ASSUME NEW p \in Pools, NEW i \in DOMAIN mFreeLists[p], mFreeLists[p][i] = c
          PROVE  \E j \in DOMAIN mFreeLists'[p] : mFreeLists'[p][j] = c
      <4>1. CASE p = pool
        <5>1. i \in DOMAIN old /\ old[i] = c
          BY <1>6, <3>3, <4>1
        <5>2. i - 1 \in DOMAIN new /\ new[i - 1] = c
          BY <1>5, <2>2, <5>1
        <5>. QED
          BY <1>9, <4>1, <5>2
      <4>2. CASE p # pool
        BY <1>9, <3>3, <4>2
      <4>. QED
        BY <4>1, <4>2
    <3>. QED
      BY <1>1, <3>1, <3>2, <3>3 DEF Somewhere
  <2>. QED
    BY <2>1, <2>2
<1>. QED
  BY <1>8, <1>10, <1>11, <1>13, <1>14, <1>15, <1>16 DEF MemInv, Sized

LEMMA PushStep ==
  ASSUME RequestsAssumption, MemInv, NEW t \in PoolThreads, Push(t)
  PROVE  MemInv'
<1> DEFINE n == realAllocSize[t]
           pool == mSmallSizeMemoryPoolTable(n)
           old == mFreeLists[pool]
           m == mem[t]
           new == <<m>> \o old
<1>0. /\ NoMem \notin MemBlocks
      /\ mFreeLists \in [Pools -> Seq(MemBlocks)] /\ mAllocCount \in [Pools -> Int]
      /\ capacity \in [MemBlocks -> Nat] /\ mAllocSize \in [MemBlocks -> Nat]
      /\ live \subseteq MemBlocks /\ mem \in [PoolThreads -> MemBlocks \cup {NoMem}]
      /\ realAllocSize \in [PoolThreads -> Nat]
      /\ stage \in [PoolThreads -> {"out", "count", "attach", "release", "uncount"}]
  BY MemTypes DEF MemInv
<1>1. MemoryTypeOK /\ LiveFit /\ ListedFit /\ Apart /\ Somewhere /\ ~halted
      /\ \A u \in PoolThreads : Carries(u)
  BY DEF MemInv, Sized
<1>2. /\ stage[t] = "release" /\ stage' = [stage EXCEPT ![t] = "uncount"]
      /\ n <= MAX_ALLOC_SIZE
      /\ mem' = [mem EXCEPT ![t] = NoMem]
      /\ mFreeLists' = [mFreeLists EXCEPT ![pool] = new]
      /\ UNCHANGED <<mAllocCount, capacity, mAllocSize, live, realAllocSize, halted>>
  BY DEF Push, IsAt, Move
<1>3. /\ m \in MemBlocks /\ n \in 1 .. MAX_ALLOC_SIZE /\ pool \in Pools
      /\ capacity[m] = pool /\ mAllocSize[m] = 0
  <2>1. Carries(t) /\ n \in Nat
    BY <1>0, <1>1
  <2>2. m # NoMem /\ n > 0 /\ Home(m, n) /\ mAllocSize[m] = 0
    BY <1>2, <2>1 DEF Carries
  <2>3. m \in MemBlocks
    BY <1>0, <2>2
  <2>. HIDE DEF n, m
  <2>4. n \in 1 .. MAX_ALLOC_SIZE /\ ~(n > MAX_ALLOC_SIZE)
    BY <1>2, <2>1, <2>2, MaxSize
  <2>5. pool \in Pools
    BY <2>4, TableIs
  <2>6. capacity[m] = pool
    BY <2>2, <2>4 DEF Home
  <2>. QED
    BY <2>2, <2>3, <2>4, <2>5, <2>6
<1>4. /\ m \notin live
      /\ \A u \in PoolThreads : u # t => mem[u] # m
      /\ \A p \in Pools : \A i \in DOMAIN mFreeLists[p] : mFreeLists[p][i] # m
  BY <1>0, <1>3, OnlyWith
<1>. HIDE DEF n, pool, m
<1>5. old \in Seq(MemBlocks) /\ mFreeLists[pool] = old
  BY <1>0, <1>3
<1>. HIDE DEF old
<1>6. /\ new \in Seq(MemBlocks) /\ new[1] = m /\ 1 \in DOMAIN new
      /\ \A i \in DOMAIN new : i = 1 \/ (i \in Nat /\ i - 1 \in DOMAIN old /\ new[i] = old[i - 1])
      /\ \A i \in DOMAIN old : i \in Nat /\ i + 1 \in DOMAIN new /\ new[i + 1] = old[i]
  BY <1>3, <1>5, FirstPushed
<1>. HIDE DEF new
<1>7. /\ mFreeLists' \in [Pools -> Seq(MemBlocks)] /\ mFreeLists'[pool] = new
      /\ \A p \in Pools : p # pool => mFreeLists'[p] = mFreeLists[p]
      /\ stage'[t] = "uncount" /\ mem'[t] = NoMem
      /\ \A u \in PoolThreads : u # t => stage'[u] = stage[u] /\ mem'[u] = mem[u]
  BY <1>0, <1>2, <1>3, <1>6
<1>8. MemoryTypeOK'
  <2>1. /\ stage' \in [PoolThreads -> {"out", "count", "attach", "release", "uncount"}]
        /\ mem' \in [PoolThreads -> MemBlocks \cup {NoMem}]
    BY <1>0, <1>2
  <2>. QED
    BY <1>1, <1>2, <1>7, <2>1 DEF MemoryTypeOK
<1>9. ASSUME NEW u \in PoolThreads
      PROVE  Carries(u)'
  <2>1. CASE u # t
    BY <1>1, <1>2, <1>7, <2>1, CarriedFits
  <2>2. CASE u = t
    <3>1. realAllocSize'[t] \in 1 .. MAX_ALLOC_SIZE
      BY <1>2, <1>3 DEF n
    <3>. QED
      BY <1>7, <2>2, <3>1 DEF Carries
  <2>. QED
    BY <2>1, <2>2
(* What is listed now is the block that was pushed, or was listed before. *)
<1>10. ASSUME NEW p \in Pools, NEW i \in DOMAIN mFreeLists'[p]
       PROVE  /\ \/ p = pool /\ mFreeLists'[p][i] = m
                 \/ \E j \in DOMAIN mFreeLists[p] : mFreeLists'[p][i] = mFreeLists[p][j]
              /\ \A k \in DOMAIN mFreeLists'[p] : mFreeLists'[p][i] = mFreeLists'[p][k] => i = k
  <2>1. CASE p = pool
    <3>1. i \in DOMAIN new /\ mFreeLists'[p] = new /\ mFreeLists[p] = old
      BY <1>5, <1>7, <2>1
    <3>2. \A j \in DOMAIN old : old[j] # m
      BY <1>3, <1>4, <1>5
    <3>3. ASSUME NEW k \in DOMAIN new, new[i] = new[k]
          PROVE  i = k
      <4>1. CASE i = 1 \/ k = 1
        BY <1>6, <3>1, <3>2, <3>3, <4>1
      <4>2. CASE i # 1 /\ k # 1
        <5>1. /\ i \in Nat /\ i - 1 \in DOMAIN old /\ new[i] = old[i - 1]
              /\ k \in Nat /\ k - 1 \in DOMAIN old /\ new[k] = old[k - 1]
          BY <1>6, <3>1, <4>2
        <5>2. \A a, b \in DOMAIN old : old[a] = old[b] => a = b
          BY <1>1, <1>3, <1>5 DEF Apart
        <5>3. i - 1 = k - 1
          BY <3>3, <5>1, <5>2
        <5>. QED
          BY <5>1, <5>3
      <4>. QED
        BY <4>1, <4>2
    <3>4. new[i] = m \/ \E j \in DOMAIN old : new[i] = old[j]
      BY <1>6, <3>1
    <3>. QED
      BY <2>1, <3>1, <3>3, <3>4
  <2>2. CASE p # pool
    BY <1>1, <1>7, <2>2 DEF Apart
  <2>. QED
    BY <2>1, <2>2
<1>11. LiveFit'
  BY <1>1, <1>2 DEF LiveFit, Home
<1>12. ListedFit'
  <2>1. ASSUME NEW p \in Pools, NEW i \in DOMAIN mFreeLists'[p]
        PROVE  capacity[mFreeLists'[p][i]] = p /\ mAllocSize[mFreeLists'[p][i]] = 0
    BY <1>1, <1>3, <1>10 DEF ListedFit
  <2>. QED
    BY <1>2, <2>1 DEF ListedFit
<1>13. Apart'
  <2>1. ASSUME NEW u \in PoolThreads
        PROVE  /\ mem'[u] \notin live /\ mem'[u] # m
               /\ \A v \in PoolThreads : mem'[u] = mem'[v] /\ mem'[u] # NoMem => u = v
               /\ \A p \in Pools : \A i \in DOMAIN mFreeLists[p] : mem'[u] # mFreeLists[p][i]
    <3>1. CASE u = t
      <4>1. NoMem \notin live /\ NoMem # m
        BY <1>0, <1>3
      <4>2. \A p \in Pools : \A i \in DOMAIN mFreeLists[p] : mFreeLists[p][i] # NoMem
        BY <1>0, ListedAre
      <4>. QED
        BY <1>7, <3>1, <4>1, <4>2
    <3>2. CASE u # t
      BY <1>1, <1>4, <1>7, <3>2 DEF Apart
    <3>. QED
      BY <3>1, <3>2
  <2>2. ASSUME NEW p \in Pools, NEW i \in DOMAIN mFreeLists'[p]
        PROVE  /\ mFreeLists'[p][i] \notin live
               /\ \A u \in PoolThreads : mem'[u] # mFreeLists'[p][i]
               /\ \A j \in DOMAIN mFreeLists'[p] : mFreeLists'[p][i] = mFreeLists'[p][j] => i = j
    <3>1. CASE mFreeLists'[p][i] = m
      BY <1>4, <1>10, <2>1, <3>1
    <3>2. CASE \E j \in DOMAIN mFreeLists[p] : mFreeLists'[p][i] = mFreeLists[p][j]
      <4>1. PICK j \in DOMAIN mFreeLists[p] : mFreeLists'[p][i] = mFreeLists[p][j]
        BY <3>2
      <4>2. mFreeLists[p][j] \notin live
        BY <1>1 DEF Apart
      <4>. QED
        BY <1>10, <2>1, <4>1, <4>2
    <3>. QED
      BY <1>10, <3>1, <3>2
  <2>. QED
    BY <1>2, <2>1, <2>2 DEF Apart
<1>14. Somewhere'
  <2>. SUFFICES ASSUME NEW c \in MemBlocks, capacity[c] # 0
                PROVE  \/ c \in live
                       \/ \E u \in PoolThreads : mem'[u] = c
                       \/ \E p \in Pools : \E i \in DOMAIN mFreeLists'[p] : mFreeLists'[p][i] = c
    BY <1>2 DEF Somewhere
  <2>1. CASE c = m
    BY <1>3, <1>6, <1>7, <2>1
  <2>2. CASE c # m
    <3>1. ASSUME NEW u \in PoolThreads, mem[u] = c
          PROVE  mem'[u] = c
      BY <1>7, <2>2, <3>1 DEF m
    <3>2. ASSUME NEW p \in Pools, NEW i \in DOMAIN mFreeLists[p], mFreeLists[p][i] = c
          PROVE  \E j \in DOMAIN mFreeLists'[p] : mFreeLists'[p][j] = c
      <4>1. CASE p = pool
        BY <1>5, <1>6, <1>7, <3>2, <4>1
      <4>2. CASE p # pool
        BY <1>7, <3>2, <4>2
      <4>. QED
        BY <4>1, <4>2
    <3>. QED
      BY <1>1, <3>1, <3>2 DEF Somewhere
  <2>. QED
    BY <2>1, <2>2
<1>. QED
  BY <1>1, <1>2, <1>8, <1>9, <1>11, <1>12, <1>13, <1>14 DEF MemInv, Sized

LEMMA MemInitially == ASSUME RequestsAssumption, MemoryInit PROVE MemInv
<1>1. MemoryTypeOK
  <2>1. <<>> \in Seq(MemBlocks)
    OBVIOUS
  <2>2. halted \in BOOLEAN
    BY DEF MemoryInit
  <2>. QED
    BY <2>1, <2>2 DEF MemoryInit, MemoryTypeOK
<1>2. LiveFit /\ ListedFit /\ \A t \in PoolThreads : Carries(t)
  BY DEF MemoryInit, LiveFit, ListedFit, Carries
<1>3. Apart /\ Somewhere
  BY DEF MemoryInit, Apart, Somewhere
<1>. QED
  BY <1>1, <1>2, <1>3 DEF MemInv, Sized, MemoryInit

LEMMA AllocateStep ==
  ASSUME RequestsAssumption, MemInv, NEW t \in PoolThreads, NEW size \in Requests,
         AllocateLarge(t, size) \/ PopEmpty(t, size)
  PROVE  MemInv'
<1> DEFINE n == size + HeaderSize
<1>1. n \in Nat \ {0}
  BY MemTypes DEF MemInv
<1>2. CASE AllocateLarge(t, size)
  <2>1. /\ stage[t] = "out" /\ n > MAX_ALLOC_SIZE /\ AlignedMalloc(t, n)
        /\ realAllocSize' = [realAllocSize EXCEPT ![t] = n] /\ Move(t, "attach")
        /\ UNCHANGED <<mFreeLists, mAllocCount, mAllocSize, live, halted>>
    BY <1>2 DEF AllocateLarge, IsAt
  <2>. HIDE DEF n
  <2>2. "attach" \in {"count", "attach"} /\ "attach" # "count"
    OBVIOUS
  <2>3. n = IF n > MAX_ALLOC_SIZE THEN n ELSE mSmallSizeMemoryPoolTable(n)
    BY <2>1
  <2>. QED
    BY <1>1, <2>1, <2>2, <2>3, HeapStep
<1>3. CASE PopEmpty(t, size)
  <2>1. /\ stage[t] = "out" /\ n <= MAX_ALLOC_SIZE
        /\ AlignedMalloc(t, mSmallSizeMemoryPoolTable(n))
        /\ realAllocSize' = [realAllocSize EXCEPT ![t] = n] /\ Move(t, "count")
        /\ UNCHANGED <<mFreeLists, mAllocCount, mAllocSize, live, halted>>
    BY <1>3 DEF PopEmpty, IsAt
  <2>. HIDE DEF n
  <2>2. "count" \in {"count", "attach"}
    OBVIOUS
  <2>3. ~(n > MAX_ALLOC_SIZE)
    BY <1>1, <2>1, MaxSize
  <2>4. mSmallSizeMemoryPoolTable(n) = IF n > MAX_ALLOC_SIZE THEN n ELSE mSmallSizeMemoryPoolTable(n)
    BY <2>3
  <2>. QED
    BY <1>1, <2>1, <2>2, <2>4, HeapStep
<1>. QED
  BY <1>2, <1>3

LEMMA MemoryInvariance == ASSUME RequestsAssumption PROVE MemorySpec => []MemInv
<1>1. MemoryInit => MemInv
  BY MemInitially
<1>2. ASSUME MemInv, [MemoryNext]_memoryVars
      PROVE  MemInv'
  <2>1. CASE UNCHANGED memoryVars
    <3>1. UNCHANGED <<mFreeLists, mAllocCount, capacity, mAllocSize, live, stage, mem,
                      realAllocSize, halted>>
      BY <2>1 DEF memoryVars
    <3>2. MemoryTypeOK' /\ LiveFit' /\ ListedFit' /\ \A t \in PoolThreads : Carries(t)'
      BY <1>2, <3>1 DEF MemInv, Sized, MemoryTypeOK, LiveFit, ListedFit, Carries, Home
    <3>3. Apart' /\ Somewhere'
      BY <1>2, <3>1 DEF MemInv, Apart, Somewhere
    <3>. QED
      BY <1>2, <3>1, <3>2, <3>3 DEF MemInv, Sized
  <2>2. CASE MemoryNext
    BY <1>2, <2>2, AllocateStep, PopStep, CountUpStep, AttachStep, DeallocateStep, AlignedFreeStep,
       PushStep, CountDownStep DEF MemoryNext
  <2>. QED
    BY <1>2, <2>1, <2>2
<1>. QED
  BY <1>1, <1>2, PTL DEF MemorySpec

-----------------------------------------------------------------------------
(***************************************************************************)
(* The count of a pool: its blocks outside its list, but for the threads   *)
(* between the list and the count.                                         *)
(***************************************************************************)
Of(p) == {b \in MemBlocks : capacity[b] = p}

Counted ==
  \A p \in Pools :
    mAllocCount[p] = Cardinality(Of(p)) - Len(mFreeLists[p])
                     - Cardinality(AtWith("count", p)) + Cardinality(AtWith("uncount", p))

LEMMA Numbered ==
  ASSUME RequestsAssumption, MemInv, NEW p \in Pools
  PROVE  /\ Cardinality(Of(p)) \in Nat /\ IsFiniteSet(Of(p))
         /\ Len(mFreeLists[p]) \in Nat
         /\ \A place : Cardinality(AtWith(place, p)) \in Nat /\ IsFiniteSet(AtWith(place, p))
<1>1. IsFiniteSet(MemBlocks)
  <2>1. MaxBlocks \in Int /\ 1 \in Int
    BY DEF RequestsAssumption
  <2>. QED
    BY <2>1, FS_Interval DEF MemBlocks
<1>2. IsFiniteSet(Of(p)) /\ Cardinality(Of(p)) \in Nat
  <2>1. Of(p) \subseteq MemBlocks
    BY DEF Of
  <2>. QED
    BY <1>1, <2>1, FS_Subset, FS_CardinalityType
<1>3. ASSUME NEW place
      PROVE  Cardinality(AtWith(place, p)) \in Nat /\ IsFiniteSet(AtWith(place, p))
  <2>1. AtWith(place, p) \subseteq PoolThreads /\ IsFiniteSet(PoolThreads)
    BY DEF AtWith, RequestsAssumption
  <2>. QED
    BY <2>1, FS_Subset, FS_CardinalityType
<1>4. Len(mFreeLists[p]) \in Nat
  <2>1. mFreeLists[p] \in Seq(MemBlocks)
    BY MemTypes DEF MemInv
  <2>. QED
    BY <2>1
<1>. QED
  BY <1>2, <1>3, <1>4

(* How a step of thread t moves the threads at a place. *)
LEMMA AtWithMoves ==
  ASSUME RequestsAssumption, MemInv, NEW t \in PoolThreads, NEW p \in Pools, NEW place,
         \A u \in PoolThreads : u # t => /\ stage'[u] = stage[u]
                                       /\ realAllocSize'[u] = realAllocSize[u]
  PROVE  /\ stage[t] # place /\ stage'[t] # place =>
              Cardinality(AtWith(place, p))' = Cardinality(AtWith(place, p))
         /\ stage[t] # place /\ stage'[t] = place =>
              Cardinality(AtWith(place, p))' =
                IF mSmallSizeMemoryPoolTable(realAllocSize'[t]) = p
                THEN Cardinality(AtWith(place, p)) + 1 ELSE Cardinality(AtWith(place, p))
         /\ stage[t] = place /\ stage'[t] # place =>
              Cardinality(AtWith(place, p))' =
                IF mSmallSizeMemoryPoolTable(realAllocSize[t]) = p
                THEN Cardinality(AtWith(place, p)) - 1 ELSE Cardinality(AtWith(place, p))
<1> DEFINE A == AtWith(place, p)
           B == AtWith(place, p)'
<1>1. IsFiniteSet(A) /\ Cardinality(A) \in Nat
  BY Numbered
<1>2. CASE stage[t] # place /\ stage'[t] # place
  <2>1. B = A
    BY <1>2 DEF AtWith
  <2>. QED
    BY <1>2, <2>1
<1>3. CASE stage[t] # place /\ stage'[t] = place
  <2>1. CASE mSmallSizeMemoryPoolTable(realAllocSize'[t]) = p
    <3>1. B = A \cup {t} /\ t \notin A
      BY <1>3, <2>1 DEF AtWith
    <3>2. Cardinality(B) = Cardinality(A) + 1
      BY <1>1, <3>1, FS_AddElement
    <3>. QED
      BY <1>3, <2>1, <3>2
  <2>2. CASE mSmallSizeMemoryPoolTable(realAllocSize'[t]) # p
    <3>1. B = A
      BY <1>3, <2>2 DEF AtWith
    <3>. QED
      BY <1>3, <2>2, <3>1
  <2>. QED
    BY <2>1, <2>2
<1>4. CASE stage[t] = place /\ stage'[t] # place
  <2>1. CASE mSmallSizeMemoryPoolTable(realAllocSize[t]) = p
    <3>1. B = A \ {t} /\ t \in A
      BY <1>4, <2>1 DEF AtWith
    <3>2. Cardinality(B) = Cardinality(A) - 1
      BY <1>1, <3>1, FS_RemoveElement
    <3>. QED
      BY <1>4, <2>1, <3>2
  <2>2. CASE mSmallSizeMemoryPoolTable(realAllocSize[t]) # p
    <3>1. B = A
      BY <1>4, <2>2 DEF AtWith
    <3>. QED
      BY <1>4, <2>2, <3>1
  <2>. QED
    BY <2>1, <2>2
<1>5. CASE stage[t] = place /\ stage'[t] = place
  BY <1>5
<1>. QED
  BY <1>2, <1>3, <1>4, <1>5

(* A step that moves no thread to or from a count, nor a block to or from a pool. *)
LEMMA CountFrame ==
  ASSUME RequestsAssumption, MemInv, Counted, NEW t \in PoolThreads,
         \A u \in PoolThreads : u # t => /\ stage'[u] = stage[u]
                                       /\ realAllocSize'[u] = realAllocSize[u],
         stage[t] \notin {"count", "uncount"}, stage'[t] \notin {"count", "uncount"},
         \A p \in Pools : Of(p)' = Of(p), UNCHANGED <<mFreeLists, mAllocCount>>
  PROVE  Counted'
<1>1. ASSUME NEW p \in Pools
      PROVE  /\ Cardinality(AtWith("count", p))' = Cardinality(AtWith("count", p))
             /\ Cardinality(AtWith("uncount", p))' = Cardinality(AtWith("uncount", p))
  BY AtWithMoves
<1>. QED
  BY <1>1 DEF Counted

LEMMA AllocateCounted ==
  ASSUME RequestsAssumption, MemInv, Counted, NEW t \in PoolThreads, NEW size \in Requests,
         AllocateLarge(t, size) \/ PopEmpty(t, size)
  PROVE  Counted'
<1> DEFINE n == size + HeaderSize
           pool == mSmallSizeMemoryPoolTable(n)
<1>0. /\ stage \in [PoolThreads -> {"out", "count", "attach", "release", "uncount"}]
      /\ realAllocSize \in [PoolThreads -> Nat] /\ capacity \in [MemBlocks -> Nat]
      /\ n \in Nat \ {0}
  BY MemTypes DEF MemInv
<1>. HIDE DEF n
<1>1. CASE AllocateLarge(t, size)
  <2>1. /\ stage[t] = "out" /\ n > MAX_ALLOC_SIZE /\ AlignedMalloc(t, n)
        /\ realAllocSize' = [realAllocSize EXCEPT ![t] = n]
        /\ stage' = [stage EXCEPT ![t] = "attach"]
        /\ UNCHANGED <<mFreeLists, mAllocCount>>
    BY <1>1 DEF AllocateLarge, IsAt, Move, n
  <2>2. PICK b \in Heap : capacity' = [capacity EXCEPT ![b] = n]
    BY <2>1 DEF AlignedMalloc
  <2>3. b \in MemBlocks /\ capacity[b] = 0
    BY <2>2 DEF Heap
  <2>4. ASSUME NEW p \in Pools
        PROVE  Of(p)' = Of(p)
    <3>1. p # 0 /\ p # n
      BY <1>0, <2>1, PoolSizes, MaxSize
    <3>. QED
      BY <1>0, <2>2, <2>3, <3>1 DEF Of
  <2>5. stage'[t] = "attach" /\ \A u \in PoolThreads : u # t => /\ stage'[u] = stage[u]
                                                          /\ realAllocSize'[u] = realAllocSize[u]
    BY <1>0, <2>1
  <2>6. stage[t] \notin {"count", "uncount"} /\ stage'[t] \notin {"count", "uncount"}
    BY <2>1, <2>5
  <2>. QED
    BY <2>1, <2>4, <2>5, <2>6, CountFrame
<1>2. CASE PopEmpty(t, size)
  <2>1. /\ stage[t] = "out" /\ n <= MAX_ALLOC_SIZE /\ AlignedMalloc(t, pool)
        /\ realAllocSize' = [realAllocSize EXCEPT ![t] = n]
        /\ stage' = [stage EXCEPT ![t] = "count"]
        /\ UNCHANGED <<mFreeLists, mAllocCount>>
    BY <1>2 DEF PopEmpty, IsAt, Move, n
  <2>2. PICK b \in Heap : capacity' = [capacity EXCEPT ![b] = pool]
    BY <2>1 DEF AlignedMalloc
  <2>3. b \in MemBlocks /\ capacity[b] = 0
    BY <2>2 DEF Heap
  <2>4. n \in 1 .. MAX_ALLOC_SIZE
    BY <1>0, <2>1, MaxSize
  <2>5. pool \in Pools
    BY <2>4, TableIs
  <2>6. /\ stage'[t] = "count" /\ realAllocSize'[t] = n
        /\ \A u \in PoolThreads : u # t => /\ stage'[u] = stage[u]
                                          /\ realAllocSize'[u] = realAllocSize[u]
    BY <1>0, <2>1
  <2>7. ASSUME NEW p \in Pools
        PROVE  mAllocCount'[p] = Cardinality(Of(p))' - Len(mFreeLists'[p])
                 - Cardinality(AtWith("count", p))' + Cardinality(AtWith("uncount", p))'
    <3>1. /\ Cardinality(AtWith("uncount", p))' = Cardinality(AtWith("uncount", p))
          /\ Cardinality(AtWith("count", p))' =
                IF pool = p THEN Cardinality(AtWith("count", p)) + 1
                            ELSE Cardinality(AtWith("count", p))
      BY <2>1, <2>6, AtWithMoves
    <3>2. mAllocCount[p] = Cardinality(Of(p)) - Len(mFreeLists[p])
            - Cardinality(AtWith("count", p)) + Cardinality(AtWith("uncount", p))
      BY DEF Counted
    <3>3. /\ Cardinality(Of(p)) \in Nat /\ IsFiniteSet(Of(p)) /\ Len(mFreeLists[p]) \in Nat
          /\ Cardinality(AtWith("count", p)) \in Nat /\ Cardinality(AtWith("uncount", p)) \in Nat
      BY Numbered
    <3>4. CASE p = pool
      <4>1. p # 0
        BY PoolSizes
      <4>2. Of(p)' = Of(p) \cup {b} /\ b \notin Of(p)
        BY <1>0, <2>2, <2>3, <3>4, <4>1 DEF Of
      <4>3. Cardinality(Of(p)') = Cardinality(Of(p)) + 1
        BY <3>3, <4>2, FS_AddElement
      <4>. QED
        BY <2>1, <3>1, <3>2, <3>3, <3>4, <4>3, SMTT(60)
    <3>5. CASE p # pool
      <4>1. p # 0
        BY PoolSizes
      <4>2. Of(p)' = Of(p)
        BY <1>0, <2>2, <2>3, <3>5, <4>1 DEF Of
      <4>. QED
        BY <2>1, <3>1, <3>2, <3>3, <3>5, <4>2
    <3>. QED
      BY <3>4, <3>5
  <2>. QED
    BY <2>7 DEF Counted
<1>. QED
  BY <1>1, <1>2

(* The sum the counter is held to, under the moves of the steps. *)
LEMMA Balance ==
  ASSUME NEW a \in Nat, NEW l \in Nat, NEW c \in Nat, NEW u \in Nat
  PROVE  /\ a - (l - 1) - (c + 1) + u = a - l - c + u
         /\ a - l - (c - 1) + u = (a - l - c + u) + 1
         /\ a - l - c + (u - 1) = (a - l - c + u) - 1
OBVIOUS

LEMMA PopCounted ==
  ASSUME RequestsAssumption, MemInv, Counted, NEW t \in PoolThreads, NEW size \in Requests,
         Pop(t, size)
  PROVE  Counted'
<1> DEFINE n == size + HeaderSize
           pool == mSmallSizeMemoryPoolTable(n)
<1>0. /\ stage \in [PoolThreads -> {"out", "count", "attach", "release", "uncount"}]
      /\ realAllocSize \in [PoolThreads -> Nat] /\ n \in Nat \ {0}
      /\ mFreeLists \in [Pools -> Seq(MemBlocks)]
  BY MemTypes DEF MemInv
<1>. HIDE DEF n
<1>1. /\ stage[t] = "out" /\ n <= MAX_ALLOC_SIZE /\ mFreeLists[pool] # <<>>
      /\ realAllocSize' = [realAllocSize EXCEPT ![t] = n]
      /\ stage' = [stage EXCEPT ![t] = "count"]
      /\ mFreeLists' = [mFreeLists EXCEPT ![pool] = Tail(mFreeLists[pool])]
      /\ UNCHANGED <<mAllocCount, capacity>>
  BY DEF Pop, IsAt, Move, n
<1>2. n \in 1 .. MAX_ALLOC_SIZE
  BY <1>0, <1>1, MaxSize
<1>3. pool \in Pools
  BY <1>2, TableIs
<1>4. /\ stage'[t] = "count" /\ realAllocSize'[t] = n
      /\ \A u \in PoolThreads : u # t => /\ stage'[u] = stage[u]
                                        /\ realAllocSize'[u] = realAllocSize[u]
  BY <1>0, <1>1
<1>. HIDE DEF pool
<1>5. ASSUME NEW p \in Pools
      PROVE  mAllocCount'[p] = Cardinality(Of(p))' - Len(mFreeLists'[p])
               - Cardinality(AtWith("count", p))' + Cardinality(AtWith("uncount", p))'
  <2>1. /\ Cardinality(AtWith("uncount", p))' = Cardinality(AtWith("uncount", p))
        /\ Cardinality(AtWith("count", p))' =
              IF pool = p THEN Cardinality(AtWith("count", p)) + 1
                          ELSE Cardinality(AtWith("count", p))
    BY <1>1, <1>4, AtWithMoves DEF pool
  <2>2. mAllocCount[p] = Cardinality(Of(p)) - Len(mFreeLists[p])
          - Cardinality(AtWith("count", p)) + Cardinality(AtWith("uncount", p))
    BY DEF Counted
  <2>3. /\ Cardinality(Of(p)) \in Nat /\ Len(mFreeLists[p]) \in Nat
        /\ Cardinality(AtWith("count", p)) \in Nat /\ Cardinality(AtWith("uncount", p)) \in Nat
    BY Numbered
  <2>4. Of(p)' = Of(p)
    BY <1>1 DEF Of
  <2>5. CASE p = pool
    <3>1. mFreeLists[p] \in Seq(MemBlocks) /\ mFreeLists[p] # <<>>
      BY <1>0, <1>1, <2>5
    <3>2. Len(Tail(mFreeLists[p])) = Len(mFreeLists[p]) - 1
      BY <3>1, HeadTailProperties
    <3>3. mFreeLists'[p] = Tail(mFreeLists[p])
      BY <1>0, <1>1, <2>5
    <3>4. Len(mFreeLists'[p]) = Len(mFreeLists[p]) - 1
      BY <3>2, <3>3
    <3>5. Cardinality(AtWith("count", p))' = Cardinality(AtWith("count", p)) + 1
      BY <2>1, <2>5
    <3>6. mAllocCount'[p] = mAllocCount[p] /\ Cardinality(Of(p))' = Cardinality(Of(p))
      BY <1>1, <2>4
    <3>7. Cardinality(Of(p)) - (Len(mFreeLists[p]) - 1) - (Cardinality(AtWith("count", p)) + 1)
            + Cardinality(AtWith("uncount", p)) = mAllocCount[p]
      BY <2>2, <2>3, Balance
    <3>. QED
      BY <2>1, <3>4, <3>5, <3>6, <3>7
  <2>6. CASE p # pool
    <3>1. mFreeLists'[p] = mFreeLists[p]
      BY <1>0, <1>1, <2>6
    <3>2. Cardinality(AtWith("count", p))' = Cardinality(AtWith("count", p))
      BY <2>1, <2>6
    <3>3. mAllocCount'[p] = mAllocCount[p] /\ Cardinality(Of(p))' = Cardinality(Of(p))
      BY <1>1, <2>4
    <3>. QED
      BY <2>1, <2>2, <2>3, <3>1, <3>2, <3>3
  <2>. QED
    BY <2>5, <2>6
<1>. QED
  BY <1>5 DEF Counted

LEMMA PushCounted ==
  ASSUME RequestsAssumption, MemInv, Counted, NEW t \in PoolThreads, Push(t)
  PROVE  Counted'
<1> DEFINE pool == mSmallSizeMemoryPoolTable(realAllocSize[t])
<1>0. /\ stage \in [PoolThreads -> {"out", "count", "attach", "release", "uncount"}]
      /\ realAllocSize \in [PoolThreads -> Nat] /\ mAllocCount \in [Pools -> Int]
      /\ mFreeLists \in [Pools -> Seq(MemBlocks)] /\ capacity \in [MemBlocks -> Nat]
      /\ mem \in [PoolThreads -> MemBlocks \cup {NoMem}] /\ NoMem \notin MemBlocks
      /\ \A u \in PoolThreads : Carries(u)
  BY MemTypes DEF MemInv, Sized
<1>1. /\ stage[t] = "release" /\ realAllocSize[t] <= MAX_ALLOC_SIZE
      /\ stage' = [stage EXCEPT ![t] = "uncount"]
      /\ mFreeLists' = [mFreeLists EXCEPT ![pool] = <<mem[t]>> \o mFreeLists[pool]]
      /\ UNCHANGED <<mAllocCount, capacity, realAllocSize>>
  BY DEF Push, IsAt, Move
<1>2. mem[t] \in MemBlocks /\ realAllocSize[t] \in 1 .. MAX_ALLOC_SIZE
  <2>1. mem[t] # NoMem /\ realAllocSize[t] > 0
    BY <1>0, <1>1 DEF Carries
  <2>. QED
    BY <1>0, <1>1, <2>1, MaxSize
<1>3. pool \in Pools
  BY <1>2, TableIs
<1>4. stage'[t] = "uncount" /\ \A u \in PoolThreads : u # t => stage'[u] = stage[u]
  BY <1>0, <1>1
<1>. HIDE DEF pool
<1>5. ASSUME NEW p \in Pools
      PROVE  mAllocCount'[p] = Cardinality(Of(p))' - Len(mFreeLists'[p])
               - Cardinality(AtWith("count", p))' + Cardinality(AtWith("uncount", p))'
  <2>1. /\ Cardinality(AtWith("count", p))' = Cardinality(AtWith("count", p))
        /\ Cardinality(AtWith("uncount", p))' =
              IF pool = p THEN Cardinality(AtWith("uncount", p)) + 1
                          ELSE Cardinality(AtWith("uncount", p))
    BY <1>1, <1>4, AtWithMoves DEF pool
  <2>2. mAllocCount[p] = Cardinality(Of(p)) - Len(mFreeLists[p])
          - Cardinality(AtWith("count", p)) + Cardinality(AtWith("uncount", p))
    BY DEF Counted
  <2>3. /\ Cardinality(Of(p)) \in Nat /\ Len(mFreeLists[p]) \in Nat
        /\ Cardinality(AtWith("count", p)) \in Nat /\ Cardinality(AtWith("uncount", p)) \in Nat
    BY Numbered
  <2>4. Of(p)' = Of(p)
    BY <1>1 DEF Of
  <2>5. CASE p = pool
    <3>1. mFreeLists[p] \in Seq(MemBlocks)
      BY <1>0
    <3>2. Len(<<mem[t]>> \o mFreeLists[p]) = Len(mFreeLists[p]) + 1
      BY <1>2, <3>1, FirstPushed
    <3>3. mFreeLists'[p] = <<mem[t]>> \o mFreeLists[p]
      BY <1>0, <1>1, <2>5
    <3>. QED
      BY <1>1, <2>1, <2>2, <2>3, <2>4, <2>5, <3>2, <3>3
  <2>6. CASE p # pool
    <3>1. mFreeLists'[p] = mFreeLists[p]
      BY <1>0, <1>1, <2>6
    <3>. QED
      BY <1>1, <2>1, <2>2, <2>3, <2>4, <2>6, <3>1
  <2>. QED
    BY <2>5, <2>6
<1>. QED
  BY <1>5 DEF Counted

LEMMA InterlockedCounted ==
  ASSUME RequestsAssumption, MemInv, Counted, NEW t \in PoolThreads, CountUp(t) \/ CountDown(t)
  PROVE  Counted'
<1> DEFINE n == realAllocSize[t]
           pool == mSmallSizeMemoryPoolTable(n)
<1>0. /\ stage \in [PoolThreads -> {"out", "count", "attach", "release", "uncount"}]
      /\ realAllocSize \in [PoolThreads -> Nat] /\ mAllocCount \in [Pools -> Int]
      /\ mFreeLists \in [Pools -> Seq(MemBlocks)] /\ capacity \in [MemBlocks -> Nat]
      /\ mem \in [PoolThreads -> MemBlocks \cup {NoMem}] /\ NoMem \notin MemBlocks
      /\ \A u \in PoolThreads : Carries(u)
  BY MemTypes DEF MemInv, Sized
<1>1. /\ \/ /\ stage[t] = "count" /\ stage' = [stage EXCEPT ![t] = "attach"]
            /\ realAllocSize' = realAllocSize
            /\ mAllocCount' = [mAllocCount EXCEPT ![pool] = mAllocCount[pool] + 1]
         \/ /\ stage[t] = "uncount" /\ stage' = [stage EXCEPT ![t] = "out"]
            /\ realAllocSize' = [realAllocSize EXCEPT ![t] = 0]
            /\ mAllocCount' = [mAllocCount EXCEPT ![pool] = mAllocCount[pool] - 1]
      /\ UNCHANGED <<mFreeLists, capacity>>
  BY DEF CountUp, CountDown, IsAt, Move, Back
<1>2. n \in 1 .. MAX_ALLOC_SIZE
  BY <1>0, <1>1 DEF Carries
<1>3. pool \in Pools
  BY <1>2, TableIs
<1>4. /\ \/ stage[t] = "count" /\ stage'[t] = "attach"
         \/ stage[t] = "uncount" /\ stage'[t] = "out"
      /\ \A u \in PoolThreads : u # t => /\ stage'[u] = stage[u]
                                        /\ realAllocSize'[u] = realAllocSize[u]
  BY <1>0, <1>1
<1>. HIDE DEF pool
<1>5. ASSUME NEW p \in Pools
      PROVE  mAllocCount'[p] = Cardinality(Of(p))' - Len(mFreeLists'[p])
               - Cardinality(AtWith("count", p))' + Cardinality(AtWith("uncount", p))'
  <2>1. mAllocCount[p] = Cardinality(Of(p)) - Len(mFreeLists[p])
          - Cardinality(AtWith("count", p)) + Cardinality(AtWith("uncount", p))
    BY DEF Counted
  <2>2. /\ Cardinality(Of(p)) \in Nat /\ Len(mFreeLists[p]) \in Nat
        /\ Cardinality(AtWith("count", p)) \in Nat /\ Cardinality(AtWith("uncount", p)) \in Nat
    BY Numbered
  <2>3. Of(p)' = Of(p) /\ mFreeLists' = mFreeLists
    BY <1>1 DEF Of
  <2>4. CASE stage[t] = "count"
    <3>1. /\ Cardinality(AtWith("uncount", p))' = Cardinality(AtWith("uncount", p))
          /\ Cardinality(AtWith("count", p))' =
                IF pool = p THEN Cardinality(AtWith("count", p)) - 1
                            ELSE Cardinality(AtWith("count", p))
      BY <1>4, <2>4, AtWithMoves DEF pool
    <3>2. mAllocCount'[p] = IF pool = p THEN mAllocCount[p] + 1 ELSE mAllocCount[p]
      BY <1>0, <1>1, <1>3, <2>4
    <3>3. /\ Cardinality(Of(p))' = Cardinality(Of(p))
          /\ Len(mFreeLists'[p]) = Len(mFreeLists[p])
      BY <2>3
    <3>4. CASE pool = p
      <4>1. /\ mAllocCount'[p] = mAllocCount[p] + 1
            /\ Cardinality(AtWith("count", p))' = Cardinality(AtWith("count", p)) - 1
        BY <3>1, <3>2, <3>4
      <4>2. Cardinality(Of(p)) - Len(mFreeLists[p]) - (Cardinality(AtWith("count", p)) - 1)
                + Cardinality(AtWith("uncount", p))
              = mAllocCount[p] + 1
        BY <2>1, <2>2, Balance
      <4>. QED
        BY <3>1, <3>3, <4>1, <4>2
    <3>5. CASE pool # p
      <4>1. /\ mAllocCount'[p] = mAllocCount[p]
            /\ Cardinality(AtWith("count", p))' = Cardinality(AtWith("count", p))
        BY <3>1, <3>2, <3>5
      <4>. QED
        BY <2>1, <2>2, <3>1, <3>3, <4>1
    <3>. QED
      BY <3>4, <3>5
  <2>5. CASE stage[t] = "uncount"
    <3>1. /\ Cardinality(AtWith("count", p))' = Cardinality(AtWith("count", p))
          /\ Cardinality(AtWith("uncount", p))' =
                IF pool = p THEN Cardinality(AtWith("uncount", p)) - 1
                            ELSE Cardinality(AtWith("uncount", p))
      BY <1>4, <2>5, AtWithMoves DEF pool
    <3>2. mAllocCount'[p] = IF pool = p THEN mAllocCount[p] - 1 ELSE mAllocCount[p]
      BY <1>0, <1>1, <1>3, <2>5
    <3>3. /\ Cardinality(Of(p))' = Cardinality(Of(p))
          /\ Len(mFreeLists'[p]) = Len(mFreeLists[p])
      BY <2>3
    <3>4. CASE pool = p
      <4>1. /\ mAllocCount'[p] = mAllocCount[p] - 1
            /\ Cardinality(AtWith("uncount", p))' = Cardinality(AtWith("uncount", p)) - 1
        BY <3>1, <3>2, <3>4
      <4>2. Cardinality(Of(p)) - Len(mFreeLists[p]) - Cardinality(AtWith("count", p))
                + (Cardinality(AtWith("uncount", p)) - 1)
              = mAllocCount[p] - 1
        BY <2>1, <2>2, Balance
      <4>. QED
        BY <3>1, <3>3, <4>1, <4>2
    <3>5. CASE pool # p
      <4>1. /\ mAllocCount'[p] = mAllocCount[p]
            /\ Cardinality(AtWith("uncount", p))' = Cardinality(AtWith("uncount", p))
        BY <3>1, <3>2, <3>5
      <4>. QED
        BY <2>1, <2>2, <3>1, <3>3, <4>1
    <3>. QED
      BY <3>4, <3>5
  <2>. QED
    BY <1>4, <2>4, <2>5
<1>. QED
  BY <1>5 DEF Counted

(* Steps in which neither a count nor a list moves. *)
LEMMA OthersCounted ==
  ASSUME RequestsAssumption, MemInv, Counted, NEW t \in PoolThreads,
         \/ AttachMemAllocInfo(t)
         \/ \E b \in MemBlocks : Deallocate(t, b)
         \/ AlignedFree(t)
  PROVE  Counted'
<1>0. /\ stage \in [PoolThreads -> {"out", "count", "attach", "release", "uncount"}]
      /\ realAllocSize \in [PoolThreads -> Nat] /\ mAllocCount \in [Pools -> Int]
      /\ mFreeLists \in [Pools -> Seq(MemBlocks)] /\ capacity \in [MemBlocks -> Nat]
      /\ mem \in [PoolThreads -> MemBlocks \cup {NoMem}] /\ NoMem \notin MemBlocks
      /\ \A u \in PoolThreads : Carries(u)
  BY MemTypes DEF MemInv, Sized
<1>1. /\ UNCHANGED <<mFreeLists, mAllocCount>>
      /\ stage[t] \notin {"count", "uncount"} /\ stage'[t] \notin {"count", "uncount"}
      /\ \A u \in PoolThreads : u # t => /\ stage'[u] = stage[u]
                                        /\ realAllocSize'[u] = realAllocSize[u]
  BY <1>0 DEF AttachMemAllocInfo, Deallocate, AlignedFree, IsAt, Move, Back
<1>2. ASSUME NEW p \in Pools
      PROVE  Of(p)' = Of(p)
  <2>1. CASE AlignedFree(t)
    <3>1. /\ stage[t] = "release" /\ realAllocSize[t] > MAX_ALLOC_SIZE
          /\ capacity' = [capacity EXCEPT ![mem[t]] = 0]
      BY <2>1 DEF AlignedFree, IsAt
    <3>2. mem[t] # NoMem /\ Home(mem[t], realAllocSize[t])
      BY <1>0, <3>1 DEF Carries
    <3>3. mem[t] \in MemBlocks /\ capacity[mem[t]] = realAllocSize[t]
      BY <1>0, <3>1, <3>2 DEF Home
    <3>4. p # 0 /\ p # realAllocSize[t]
      BY <1>0, <3>1, PoolSizes, MaxSize
    <3>. QED
      BY <1>0, <3>1, <3>3, <3>4 DEF Of
  <2>2. CASE ~AlignedFree(t)
    <3>1. capacity' = capacity
      BY <2>2 DEF AttachMemAllocInfo, Deallocate
    <3>. QED
      BY <3>1 DEF Of
  <2>. QED
    BY <2>1, <2>2
<1>. QED
  BY <1>1, <1>2, CountFrame

LEMMA CountedInvariance == ASSUME RequestsAssumption PROVE MemorySpec => []Counted
<1>1. ASSUME MemoryInit
      PROVE  Counted
  <2>1. MemInv
    BY <1>1, MemInitially
  <2>2. ASSUME NEW p \in Pools
        PROVE  /\ Of(p) = {} /\ AtWith("count", p) = {} /\ AtWith("uncount", p) = {}
               /\ mAllocCount[p] = 0 /\ Len(mFreeLists[p]) = 0
    <3>1. p # 0
      BY PoolSizes
    <3>. QED
      BY <1>1, <3>1 DEF MemoryInit, Of, AtWith
  <2>3. Cardinality({}) = 0
    BY FS_EmptySet
  <2>4. ASSUME NEW p \in Pools
        PROVE  /\ mAllocCount[p] = 0 /\ Cardinality(Of(p)) = 0 /\ Len(mFreeLists[p]) = 0
               /\ Cardinality(AtWith("count", p)) = 0 /\ Cardinality(AtWith("uncount", p)) = 0
    BY <2>2, <2>3
  <2>5. 0 = 0 - 0 - 0 + 0
    OBVIOUS
  <2>. QED
    BY <2>4, <2>5 DEF Counted
<1>2. ASSUME MemInv, Counted, [MemoryNext]_memoryVars
      PROVE  Counted'
  <2>1. CASE UNCHANGED memoryVars
    BY <1>2, <2>1 DEF memoryVars, Counted, Of, AtWith
  <2>2. CASE MemoryNext
    BY <1>2, <2>2, AllocateCounted, PopCounted, InterlockedCounted, PushCounted, OthersCounted
    DEF MemoryNext
  <2>. QED
    BY <1>2, <2>1, <2>2
<1>. QED
  BY <1>1, <1>2, MemoryInvariance, PTL DEF MemorySpec

(* A block that is not the heap's has one place, one of the heap has none. *)
LEMMA PlacesOf ==
  ASSUME RequestsAssumption, MemInv, NEW b \in MemBlocks
  PROVE  Cardinality(Places(b)) = IF b \in Heap THEN 0 ELSE 1
<1>0. /\ LiveFit /\ ListedFit /\ Apart /\ Somewhere /\ \A t \in PoolThreads : Carries(t)
      /\ NoMem \notin MemBlocks /\ mAllocSize \in [MemBlocks -> Nat]
      /\ capacity \in [MemBlocks -> Nat] /\ realAllocSize \in [PoolThreads -> Nat]
      /\ stage \in [PoolThreads -> {"out", "count", "attach", "release", "uncount"}]
  BY MemTypes DEF MemInv, Sized
<1>1. ASSUME NEW n \in Nat \ {0}, Home(b, n)
      PROVE  capacity[b] # 0
  BY <1>1, BytesOf DEF Home
<1>2. b \in live => capacity[b] # 0
  <2>1. b \in live => mAllocSize[b] \in Nat \ {0} /\ Home(b, mAllocSize[b])
    BY <1>0 DEF LiveFit
  <2>. QED
    BY <1>1, <2>1
<1>3. ASSUME NEW t \in PoolThreads, mem[t] = b
      PROVE  capacity[b] # 0
  <2>1. Carries(t) /\ mem[t] # NoMem
    BY <1>0, <1>3
  <2>2. stage[t] \in {"count", "attach", "release"}
    <3>1. stage[t] \in {"out", "count", "attach", "release", "uncount"}
      BY <1>0
    <3>. QED
      BY <2>1, <3>1 DEF Carries
  <2>3. realAllocSize[t] \in Nat \ {0} /\ Home(b, realAllocSize[t])
    BY <1>0, <1>3, <2>1, <2>2 DEF Carries
  <2>. QED
    BY <1>1, <2>3
<1>4. ASSUME NEW p \in Pools, NEW i \in DOMAIN mFreeLists[p], mFreeLists[p][i] = b
      PROVE  capacity[b] = p /\ capacity[b] # 0
  <2>1. p # 0
    BY PoolSizes
  <2>. QED
    BY <1>0, <1>4, <2>1 DEF ListedFit
<1>5. \A x : x \in Places(b) <=>
               \/ b \in live /\ x = <<"live", b>>
               \/ \E t \in PoolThreads : mem[t] = b /\ x = <<"thread", t>>
               \/ \E p \in Pools : \E i \in DOMAIN mFreeLists[p] :
                    mFreeLists[p][i] = b /\ x = <<"list", p, i>>
  BY DEF Places
<1>6. CASE b \in Heap
  <2>1. capacity[b] = 0
    BY <1>6 DEF Heap
  <2>2. Places(b) = {}
    BY <1>2, <1>3, <1>4, <1>5, <2>1
  <2>. QED
    BY <1>6, <2>2, FS_EmptySet
<1>7. CASE b \notin Heap
  <2>1. capacity[b] # 0
    BY <1>7 DEF Heap
  <2>2. CASE b \in live
    <3>1. /\ \A t \in PoolThreads : mem[t] # b
          /\ \A p \in Pools : \A i \in DOMAIN mFreeLists[p] : mFreeLists[p][i] # b
      BY <1>0, <2>2 DEF Apart
    <3>2. Places(b) = {<<"live", b>>}
      BY <1>5, <2>2, <3>1
    <3>. QED
      BY <1>7, <3>2, FS_Singleton
  <2>3. ASSUME NEW t \in PoolThreads, mem[t] = b
        PROVE  Cardinality(Places(b)) = 1
    <3>1. /\ b \notin live /\ \A u \in PoolThreads : mem[u] = b => u = t
          /\ \A p \in Pools : \A i \in DOMAIN mFreeLists[p] : mFreeLists[p][i] # b
      BY <1>0, <2>3 DEF Apart
    <3>2. Places(b) = {<<"thread", t>>}
      BY <1>5, <2>3, <3>1
    <3>. QED
      BY <3>2, FS_Singleton
  <2>4. ASSUME NEW p \in Pools, NEW i \in DOMAIN mFreeLists[p], mFreeLists[p][i] = b
        PROVE  Cardinality(Places(b)) = 1
    <3>1. b \notin live /\ \A u \in PoolThreads : mem[u] # b
      BY <1>0, <2>4 DEF Apart
    <3>2. ASSUME NEW q \in Pools, NEW j \in DOMAIN mFreeLists[q], mFreeLists[q][j] = b
          PROVE  q = p /\ j = i
      <4>1. q = p
        BY <1>4, <2>4, <3>2
      <4>. QED
        BY <1>0, <2>4, <3>2, <4>1 DEF Apart
    <3>3. Places(b) = {<<"list", p, i>>}
      BY <1>5, <2>4, <3>1, <3>2
    <3>. QED
      BY <3>3, FS_Singleton
  <2>. QED
    BY <1>0, <1>7, <2>1, <2>2, <2>3, <2>4 DEF Somewhere
<1>. QED
  BY <1>6, <1>7

(***************************************************************************)
(* The size-class allocator is sound for every set of threads and of       *)
(* requested sizes: every block it took from the heap is in one place, is  *)
(* as large as its request, goes back to the pool it came from, and no     *)
(* thread ever meets a header that a second Deallocate has cleared; the    *)
(* count of a pool is right up to the threads that are about to correct it.*)
(***************************************************************************)
THEOREM AllocatorIsSound == ASSUME RequestsAssumption PROVE MemorySpec => []BlocksSound
<1>1. ASSUME MemInv, Counted
      PROVE  BlocksSound
  <2>1. OnePlace
    BY <1>1, PlacesOf DEF OnePlace, Counted, Of
  <2>2. BlocksFit
    <3>1. ASSUME NEW b \in live
          PROVE  mAllocSize[b] <= capacity[b]
      <4>1. mAllocSize[b] \in Nat /\ mAllocSize[b] > 0 /\ Home(b, mAllocSize[b])
        BY <1>1, MemTypes DEF MemInv, Sized, LiveFit
      <4>2. CASE mAllocSize[b] > MAX_ALLOC_SIZE
        BY <4>1, <4>2 DEF Home
      <4>3. CASE ~(mAllocSize[b] > MAX_ALLOC_SIZE)
        <5>1. mAllocSize[b] \in 1 .. MAX_ALLOC_SIZE
          BY <4>1, <4>3, MaxSize
        <5>. QED
          BY <4>1, <4>3, <5>1, TableIs DEF Home
      <4>. QED
        BY <4>2, <4>3
    <3>2. \A p \in Pools : \A i \in DOMAIN mFreeLists[p] : capacity[mFreeLists[p][i]] = p
      BY <1>1 DEF MemInv, Sized, ListedFit
    <3>. QED
      BY <3>1, <3>2 DEF BlocksFit
  <2>. QED
    BY <1>1, <2>1, <2>2 DEF BlocksSound, AssertsHold, MemInv
<1>. QED
  BY <1>1, MemoryInvariance, CountedInvariance, PTL

-----------------------------------------------------------------------------
(***************************************************************************)
(* The crash report.  Whatever threads crash together and suspend each     *)
(* other, the one that comes to dump the ring has all the others behind    *)
(* it, and what it finds there is the newest event of every slot, although *)
(* nobody ever locked the ring.                                            *)
(***************************************************************************)
(* Who is no more in a filter's snapshot has been suspended by it. *)
WalkedThrough ==
  /\ snapshot \in [CrashThreads -> SUBSET CrashThreads] /\ suspended \in SUBSET CrashThreads
  /\ doing \in [CrashThreads -> Fields \cup {"run", "filter"}]
  /\ \A t \in CrashThreads : doing[t] = "filter" => CrashThreads \ (snapshot[t] \cup {t}) \subseteq suspended

LEMMA WalkedInvariant == LogSpec => []WalkedThrough
  <1>1. LogInit => WalkedThrough
    BY DEF LogInit, WalkedThrough
  <1>2. ASSUME WalkedThrough, [LogNext]_logVars PROVE WalkedThrough'
    <2> USE DEF WalkedThrough
    <2>1. CASE UNCHANGED logVars
      BY <1>2, <2>1 DEF logVars
    <2>2. ASSUME NEW t \in CrashThreads, Reserve(t) PROVE WalkedThrough'
      BY <1>2, <2>2 DEF Reserve, Fields
    <2>3. ASSUME NEW t \in CrashThreads, ExceptionFilter(t) PROVE WalkedThrough'
      BY <1>2, <2>3 DEF ExceptionFilter
    <2>4. ASSUME NEW t \in CrashThreads, Store(t) PROVE WalkedThrough'
      <3>1. doing[t] \in Fields /\ After(doing[t]) \in {"mMessage", "mThreadId", "run"}
        BY <2>4 DEF Store, Writing, After, Fields
      <3>2. doing' = [doing EXCEPT ![t] = After(doing[t])] /\ UNCHANGED <<snapshot, suspended>>
        BY <2>4 DEF Store
      <3>3. QED
        BY <1>2, <3>1, <3>2 DEF Fields
    <2>5. ASSUME NEW t \in CrashThreads, NEW u \in CrashThreads, SuspendThread(t, u) PROVE WalkedThrough'
      <3>1. /\ suspended' = suspended \cup {u} /\ doing' = doing
            /\ snapshot' = [snapshot EXCEPT ![t] = snapshot[t] \ {u}]
        BY <2>5 DEF SuspendThread
      <3>2. \A v \in CrashThreads : snapshot'[v] = IF v = t THEN snapshot[t] \ {u} ELSE snapshot[v]
        BY <1>2, <3>1
      <3>3. QED
        BY <1>2, <3>1, <3>2
    <2>6. ASSUME NEW t \in CrashThreads, EventLogDumpOut(t) PROVE WalkedThrough'
      BY <1>2, <2>6 DEF EventLogDumpOut
    <2>7. QED
      BY <1>2, <2>1, <2>2, <2>3, <2>4, <2>5, <2>6 DEF LogNext, Proceed
  <1>3. QED
    BY <1>1, <1>2, PTL DEF LogSpec

(***************************************************************************)
(* Nobody writes to the ring while it is dumped, whatever number of        *)
(* threads there are and however many of them crash at the same time.      *)
(***************************************************************************)
THEOREM DumperIsAlone == LogSpec => DumpedAlone
  <1>1. ASSUME WalkedThrough, [LogNext]_logVars, ended' # ended
        PROVE  Cardinality(CrashThreads \ suspended) = 1
    <2>1. PICK t \in CrashThreads : EventLogDumpOut(t)
      BY <1>1 DEF LogNext, Proceed, Reserve, ExceptionFilter, Store, SuspendThread, logVars
    <2>2. t \notin suspended /\ doing[t] = "filter" /\ snapshot[t] = {}
      BY <2>1 DEF EventLogDumpOut, Runs
    <2>3. CrashThreads \ suspended = {t}
      BY <1>1, <2>2 DEF WalkedThrough
    <2>4. QED
      BY <2>3, FS_Singleton
  <1>2. WalkedThrough /\ [LogNext]_logVars
          => [ended' # ended => Cardinality(CrashThreads \ suspended) = 1]_logVars
    BY <1>1
  <1>3. QED
    BY <1>2, WalkedInvariant, PTL DEF LogSpec, DumpedAlone

-----------------------------------------------------------------------------
(***************************************************************************)
(* Slots and events: an event has a slot, and of the last MAX_LOG_SIZE     *)
(* events each has a slot of its own.                                      *)
(***************************************************************************)
LEMMA Remainder ==
  ASSUME NEW N \in Nat \ {0}, NEW a \in Int
  PROVE  a % N \in 0 .. N - 1
OBVIOUS

LEMMA Quotient ==
  ASSUME NEW N \in Nat \ {0}, NEW a \in Int
  PROVE  a \div N \in Int /\ a = N * (a \div N) + (a % N)
OBVIOUS

LEMMA NextMultiple ==
  ASSUME NEW N \in Nat \ {0}, NEW x \in Int, NEW y \in Int, x < y
  PROVE  N * x + N <= N * y
OBVIOUS

LEMMA RemainderIs ==
  ASSUME NEW N \in Nat \ {0}, NEW a \in Int, NEW q \in Int, NEW r \in 0 .. N - 1, a = N * q + r
  PROVE  a % N = r
<1> DEFINE p == a \div N
<1>1. p \in Int /\ a = N * p + (a % N)
  BY Quotient
<1>2. a % N \in 0 .. N - 1
  BY Remainder
<1>. HIDE DEF p
<1>3. N * p \in Int /\ N * q \in Int /\ r \in Int
  BY <1>1
<1>4. ASSUME p < q
      PROVE  FALSE
  <2>1. N * p + N <= N * q
    BY <1>1, <1>4, NextMultiple
  <2>. QED
    BY <1>1, <1>2, <1>3, <2>1
<1>5. ASSUME q < p
      PROVE  FALSE
  <2>1. N * q + N <= N * p
    BY <1>1, <1>5, NextMultiple
  <2>. QED
    BY <1>1, <1>2, <1>3, <2>1
<1>6. p = q
  BY <1>1, <1>4, <1>5
<1>7. N * p = N * q
  BY <1>6
<1>. QED
  BY <1>1, <1>2, <1>3, <1>7

LEMMA SlotOf ==
  ASSUME LogAssumption, NEW e \in Nat
  PROVE  Slot(e) \in Slots /\ Slot(e) <= e
<1> DEFINE N == MAX_LOG_SIZE
<1>1. N \in Nat \ {0}
  BY DEF LogAssumption
<1>2. e % N \in 0 .. N - 1
  BY <1>1, Remainder
<1>3. CASE e < N
  <2>1. e = N * 0 + e /\ e \in 0 .. N - 1
    BY <1>1, <1>3
  <2>2. e % N = e
    BY <1>1, <2>1, RemainderIs
  <2>. QED
    BY <1>2, <2>2 DEF Slot, Slots
<1>4. CASE ~(e < N)
  BY <1>1, <1>2, <1>4 DEF Slot, Slots
<1>. QED
  BY <1>3, <1>4

LEMMA SlotOfSlot ==
  ASSUME LogAssumption, NEW i \in Slots
  PROVE  Slot(i) = i
<1> DEFINE N == MAX_LOG_SIZE
<1>1. N \in Nat \ {0} /\ i \in 0 .. N - 1 /\ i = N * 0 + i
  BY DEF LogAssumption, Slots
<1>. QED
  BY <1>1, RemainderIs DEF Slot

(* A ring further, the slot is the same, and not before. *)
LEMMA RingFurther ==
  ASSUME LogAssumption, NEW e \in Nat
  PROVE  Slot(e + MAX_LOG_SIZE) = Slot(e)
<1> DEFINE N == MAX_LOG_SIZE
           q == e \div N
           r == e % N
<1>1. N \in Nat \ {0}
  BY DEF LogAssumption
<1>2. q \in Int /\ r \in 0 .. N - 1 /\ e = N * q + r
  BY <1>1, Quotient, Remainder
<1>. HIDE DEF q, r
<1>3. e + N = N * (q + 1) + r
  <2>1. N * (q + 1) = N * q + N /\ N * q \in Int
    BY <1>1, <1>2
  <2>. QED
    BY <1>1, <1>2, <2>1
<1>4. (e + N) % N = r
  BY <1>1, <1>2, <1>3, RemainderIs
<1>. QED
  BY <1>4 DEF Slot, r

LEMMA SlotsDiffer ==
  ASSUME LogAssumption, NEW d \in Nat, NEW e \in Nat, d < e, Slot(d) = Slot(e)
  PROVE  d + MAX_LOG_SIZE <= e
<1> DEFINE N == MAX_LOG_SIZE
           p == d \div N
           q == e \div N
           r == d % N
<1>1. N \in Nat \ {0}
  BY DEF LogAssumption
<1>2. /\ p \in Int /\ q \in Int /\ r \in 0 .. N - 1
      /\ d = N * p + r /\ e = N * q + r
  BY <1>1, Quotient, Remainder DEF Slot
<1>. HIDE DEF p, q, r
<1>3. N * p \in Int /\ N * q \in Int
  BY <1>1, <1>2
<1>4. p < q
  <2>1. ASSUME q < p
        PROVE  FALSE
    <3>1. N * q + N <= N * p
      BY <1>1, <1>2, <2>1, NextMultiple
    <3>. QED
      BY <1>1, <1>2, <1>3, <3>1
  <2>2. p # q
    BY <1>2
  <2>. QED
    BY <1>2, <2>1, <2>2
<1>5. N * p + N <= N * q
  BY <1>1, <1>2, <1>4, NextMultiple
<1>. QED
  BY <1>1, <1>2, <1>3, <1>5

(* Of slot i, the only event among the last MAX_LOG_SIZE before g: Newest(i) now. *)
NewestAt(g, i) == g - 1 - ((g - 1 - i) % MAX_LOG_SIZE)

LEMMA NewestIsAt ==
  ASSUME LogAssumption, NEW g \in Nat, NEW i \in Slots, i < g
  PROVE  /\ NewestAt(g, i) \in Nat /\ NewestAt(g, i) < g
         /\ g <= NewestAt(g, i) + MAX_LOG_SIZE
         /\ Slot(NewestAt(g, i)) = i
<1> DEFINE N == MAX_LOG_SIZE
           a == g - 1 - i
           q == a \div N
           r == a % N
<1>1. N \in Nat \ {0} /\ i \in 0 .. N - 1 /\ a \in Nat /\ g \in Nat
  BY DEF LogAssumption, Slots
<1>2. q \in Int /\ r \in 0 .. N - 1 /\ a = N * q + r
  BY <1>1, Quotient, Remainder
<1>3. NewestAt(g, i) = g - 1 - r
  BY DEF NewestAt
<1>. HIDE DEF q, r
<1>4. N * q \in Int
  BY <1>1, <1>2
<1>5. g - 1 - r = N * q + i
  BY <1>1, <1>2, <1>4
<1>6. N * q \in Nat
  <2>1. ASSUME q < 0
        PROVE  FALSE
    <3>1. N * q + N <= N * 0
      BY <1>1, <1>2, <2>1, NextMultiple
    <3>. QED
      BY <1>1, <1>2, <1>4, <3>1
  <2>2. q = 0 \/ 0 < q
    BY <1>2, <2>1
  <2>3. CASE q = 0
    BY <1>1, <2>3
  <2>4. CASE 0 < q
    <3>1. N * 0 + N <= N * q
      BY <1>1, <1>2, <2>4, NextMultiple
    <3>. QED
      BY <1>1, <1>4, <3>1
  <2>. QED
    BY <2>2, <2>3, <2>4
<1>7. g - 1 - r \in Nat /\ g - 1 - r < g /\ g <= (g - 1 - r) + N
  BY <1>1, <1>2, <1>5, <1>6
<1>8. (g - 1 - r) % N = i
  BY <1>1, <1>2, <1>5, <1>7, RemainderIs
<1>. QED
  BY <1>3, <1>7, <1>8 DEF Slot

LEMMA NewestUniqueAt ==
  ASSUME LogAssumption, NEW g \in Nat, NEW i \in Slots, NEW e \in Nat,
         e < g, g <= e + MAX_LOG_SIZE, Slot(e) = i
  PROVE  i < g /\ NewestAt(g, i) = e
<1>1. i <= e /\ i \in Nat /\ MAX_LOG_SIZE \in Nat \ {0}
  BY SlotOf DEF Slots, LogAssumption
<1>2. i < g
  BY <1>1
<1> DEFINE n == NewestAt(g, i)
<1>3. /\ n \in Nat /\ n < g /\ g <= n + MAX_LOG_SIZE
      /\ Slot(n) = i
  BY <1>2, NewestIsAt
<1>. HIDE DEF n
<1>4. ~(n < e)
  <2>1. n < e => n + MAX_LOG_SIZE <= e
    BY <1>3, SlotsDiffer
  <2>. QED
    BY <1>1, <1>3, <2>1
<1>5. ~(e < n)
  <2>1. e < n => e + MAX_LOG_SIZE <= n
    BY <1>3, SlotsDiffer
  <2>. QED
    BY <1>1, <1>3, <2>1
<1>. QED
  BY <1>2, <1>3, <1>4, <1>5 DEF n

LEMMA NewestNow == \A i : Newest(i) = NewestAt(gCurrentLogIndex, i)
BY DEF Newest, NewestAt

-----------------------------------------------------------------------------
(***************************************************************************)
(* The ring.  A slot in which two threads never met has one writer at most *)
(* (OneWriter), who writes the newest event of it (WritesNewest).          *)
(***************************************************************************)
Typed == LogTypeOK /\ \A t \in Writing : index[t] # None

NotReached ==
  \A i \in Slots, f \in Fields : gCurrentLogIndex <= i => gLogEvents[i][f] = None

OneWriter ==
  \A t, u \in Writing : t # u /\ Slot(index[t]) = Slot(index[u]) => Slot(index[t]) \in lapped

WritesNewest ==
  \A t \in Writing : Slot(index[t]) \notin lapped => index[t] = Newest(Slot(index[t]))

Exact ==
  \A i \in Slots \ lapped, f \in Fields :
    i < gCurrentLogIndex =>
      gLogEvents[i][f] = IF f \in Missing(i) THEN Previous(i) ELSE Newest(i)

Reported == ended => report = Rows

LogInv == Typed /\ NotReached /\ OneWriter /\ WritesNewest /\ Exact /\ Reported

LEMMA Numbers ==
  ASSUME LogAssumption, LogInv
  PROVE  /\ gCurrentLogIndex \in Nat
         /\ MAX_LOG_SIZE \in Nat \ {0}
         /\ \A t \in Writing : /\ t \in CrashThreads /\ index[t] \in Nat /\ index[t] < gCurrentLogIndex
                               /\ Slot(index[t]) \in Slots
                               /\ Slot(index[t]) < gCurrentLogIndex
<1>1. gCurrentLogIndex \in Nat /\ MAX_LOG_SIZE \in Nat \ {0}
  BY DEF LogAssumption, LogInv, Typed, LogTypeOK
<1>2. ASSUME NEW t \in Writing
      PROVE  /\ t \in CrashThreads /\ index[t] \in Nat /\ index[t] < gCurrentLogIndex
             /\ Slot(index[t]) \in Slots
             /\ Slot(index[t]) < gCurrentLogIndex
  <2>1. t \in CrashThreads
    BY DEF Writing
  <2>2. index[t] \in 0 .. gCurrentLogIndex - 1
    BY <2>1 DEF LogInv, Typed, LogTypeOK, Events
  <2>3. index[t] \in Nat /\ index[t] < gCurrentLogIndex
    BY <1>1, <2>2
  <2>4. Slot(index[t]) \in Slots /\ Slot(index[t]) <= index[t]
    BY <2>3, SlotOf
  <2>5. Slot(index[t]) \in Int
    BY <1>1, <2>4 DEF Slots
  <2>. QED
    BY <1>1, <2>1, <2>3, <2>4, <2>5
<1>. QED
  BY <1>1, <1>2

LEMMA Orders ==
  /\ Order["mAdditionalInfo"] = 1 /\ Order["mMessage"] = 2 /\ Order["mThreadId"] = 3
  /\ \A f \in Fields : Order[f] \in Int
BY DEF Order, Fields

(* The fields that the only writer of a slot has still to store. *)
LEMMA MissingOf ==
  ASSUME LogAssumption, LogInv, NEW t \in Writing, Slot(index[t]) \notin lapped
  PROVE  Missing(Slot(index[t])) = {f \in Fields : Order[f] >= Order[doing[t]]}
<1>1. \A u \in Writing : Slot(index[u]) = Slot(index[t]) => u = t
  BY DEF LogInv, OneWriter
<1>. QED
  BY <1>1 DEF Missing

(* Steps that touch neither the ring nor a writer. *)
LEMMA LogFrame ==
  ASSUME LogAssumption, LogInv, UNCHANGED <<gLogEvents, gCurrentLogIndex, index, lapped>>,
         doing' \in [CrashThreads -> Fields \cup {"run", "filter"}],
         \A t \in CrashThreads : doing[t] \in Fields \/ doing'[t] \in Fields => doing'[t] = doing[t],
         suspended' \in SUBSET CrashThreads, snapshot' \in [CrashThreads -> SUBSET CrashThreads],
         ended' \in BOOLEAN, Reported'
  PROVE  LogInv'
<1>1. Writing' = Writing /\ \A t \in Writing : doing'[t] = doing[t]
  BY DEF Writing
<1>2. Typed'
  BY <1>1 DEF LogInv, Typed, LogTypeOK, Events
<1>3. NotReached' /\ OneWriter'
  BY <1>1 DEF LogInv, NotReached, OneWriter, Slot
<1>4. WritesNewest'
  BY <1>1 DEF LogInv, WritesNewest, Newest, Slot
<1>5. Exact'
  <2>1. \A i \in Slots : Newest(i)' = Newest(i) /\ Previous(i)' = Previous(i)
    BY DEF Newest, Previous
  <2>2. \A i \in Slots : Missing(i)' = Missing(i)
    BY <1>1 DEF Missing, Slot
  <2>. QED
    BY <2>1, <2>2 DEF LogInv, Exact
<1>. QED
  BY <1>2, <1>3, <1>4, <1>5 DEF LogInv

LEMMA LogInitially == ASSUME LogAssumption, LogInit PROVE LogInv
<1>1. Writing = {}
  BY DEF LogInit, Writing, Fields
<1>2. Typed
  <2>1. gLogEvents \in [Slots -> [Fields -> Events \cup {None}]]
    BY DEF LogInit
  <2>2. gCurrentLogIndex \in 0 .. MaxEvents
    BY DEF LogInit, LogAssumption
  <2>3. ended \in BOOLEAN
    BY DEF LogInit
  <2>. QED
    BY <1>1, <2>1, <2>2, <2>3 DEF LogInit, Typed, LogTypeOK
<1>3. NotReached
  BY DEF LogInit, NotReached
<1>4. OneWriter /\ WritesNewest
  BY <1>1 DEF OneWriter, WritesNewest
<1>5. Exact /\ Reported
  BY DEF LogInit, Exact, Slots, Reported
<1>. QED
  BY <1>2, <1>3, <1>4, <1>5 DEF LogInv

LEMMA ReserveStep == ASSUME LogAssumption, LogInv, NEW t \in CrashThreads, Reserve(t) PROVE LogInv'
<1> DEFINE g == gCurrentLogIndex
           s == Slot(g)
<1>1. /\ doing[t] = "run" /\ g < MaxEvents /\ ~ended
      /\ index' = [index EXCEPT ![t] = g] /\ g' = g + 1
      /\ doing' = [doing EXCEPT ![t] = "mAdditionalInfo"]
      /\ lapped' = lapped \cup {Slot(index[u]) : u \in {v \in Writing : Slot(index[v]) = s}}
      /\ UNCHANGED <<gLogEvents, suspended, snapshot, report, ended>>
  BY DEF Reserve, Runs
<1>2. /\ g \in Nat /\ MAX_LOG_SIZE \in Nat \ {0} /\ g \in 0 .. MaxEvents
      /\ doing \in [CrashThreads -> Fields \cup {"run", "filter"}]
      /\ index \in [CrashThreads -> Events \cup {None}]
  BY Numbers DEF LogInv, Typed, LogTypeOK
<1>3. s \in Slots /\ s <= g /\ s \in Nat
  BY <1>2, SlotOf DEF Slots
<1>4. /\ "run" \notin Fields /\ "mAdditionalInfo" \in Fields
      /\ t \notin Writing
  BY <1>1 DEF Fields, Writing
<1>5. /\ Writing' = Writing \cup {t}
      /\ \A u \in Writing : u # t /\ doing'[u] = doing[u] /\ index'[u] = index[u]
      /\ doing'[t] = "mAdditionalInfo" /\ index'[t] = g
  BY <1>1, <1>2, <1>4 DEF Writing
<1>6. /\ lapped \subseteq lapped' /\ lapped' \subseteq lapped \cup {s}
      /\ \A u \in Writing : Slot(index[u]) = s => s \in lapped'
  BY <1>1
<1>7. \A i \in Slots : i # s => Missing(i)' = Missing(i)
  BY <1>5 DEF Missing, Slot
<1>8. ASSUME NEW i \in Slots, i # s, i < g
      PROVE  NewestAt(g', i) = NewestAt(g, i)
  <2> DEFINE n == NewestAt(g, i)
  <2>1. n \in Nat /\ n < g /\ g <= n + MAX_LOG_SIZE /\ Slot(n) = i
    BY <1>2, <1>8, NewestIsAt
  <2>. HIDE DEF n
  <2>2. g # n + MAX_LOG_SIZE
    BY <1>8, <2>1, RingFurther
  <2>3. g' \in Nat /\ n < g' /\ g' <= n + MAX_LOG_SIZE
    BY <1>1, <1>2, <2>1, <2>2
  <2>4. NewestAt(g', i) = n
    BY <2>1, <2>3, NewestUniqueAt
  <2>. QED
    BY <2>4 DEF n
<1>9. NewestAt(g', s) = g
  <2>1. g < g' /\ g' <= g + MAX_LOG_SIZE /\ g' \in Nat
    BY <1>1, <1>2
  <2>. QED
    BY <1>2, <1>3, <2>1, NewestUniqueAt
<1>. HIDE DEF s
<1>10. Events \subseteq Events' /\ g \in Events'
  <2>1. ASSUME NEW e \in Events
        PROVE  e \in Events'
    BY <1>1, <1>2, <2>1 DEF Events
  <2>2. g \in Events'
    BY <1>1, <1>2 DEF Events
  <2>. QED
    BY <2>1, <2>2
<1>11. Typed'
  <2>1. gLogEvents' \in [Slots -> [Fields -> Events' \cup {None}]]
    <3>1. gLogEvents' = gLogEvents /\ gLogEvents \in [Slots -> [Fields -> Events \cup {None}]]
      BY <1>1 DEF LogInv, Typed, LogTypeOK
    <3>2. Events \cup {None} \subseteq Events' \cup {None}
      BY <1>10
    <3>3. [Fields -> Events \cup {None}] \subseteq [Fields -> Events' \cup {None}]
      BY <3>2
    <3>. QED
      BY <3>1, <3>3
  <2>2. gCurrentLogIndex' \in 0 .. MaxEvents
    BY <1>1, <1>2 DEF LogAssumption
  <2>3. doing' \in [CrashThreads -> Fields \cup {"run", "filter"}]
    BY <1>1, <1>2, <1>4
  <2>4. index' \in [CrashThreads -> Events' \cup {None}]
    BY <1>1, <1>2, <1>10
  <2>5. lapped' \in SUBSET Slots
    BY <1>3, <1>6 DEF LogInv, Typed, LogTypeOK
  <2>6. \A u \in Writing' : index'[u] # None
    BY <1>2, <1>5 DEF LogInv, Typed, None
  <2>. QED
    BY <1>1, <2>1, <2>2, <2>3, <2>4, <2>5, <2>6 DEF LogInv, Typed, LogTypeOK
<1>12. NotReached'
  BY <1>1, <1>2 DEF LogInv, NotReached, Slots
<1>13. OneWriter'
  <2>. SUFFICES ASSUME NEW u \in Writing', NEW v \in Writing', u # v,
                       Slot(index'[u]) = Slot(index'[v])
                PROVE  Slot(index'[u]) \in lapped'
    BY DEF OneWriter, Slot
  <2>1. CASE u # t /\ v # t
    BY <1>5, <1>6, <2>1 DEF LogInv, OneWriter
  <2>2. CASE u = t
    BY <1>5, <1>6, <2>2 DEF s
  <2>3. CASE v = t
    BY <1>5, <1>6, <2>3 DEF s
  <2>. QED
    BY <2>1, <2>2, <2>3
<1>14. WritesNewest'
  <2>. SUFFICES ASSUME NEW u \in Writing', Slot(index'[u]) \notin lapped'
                PROVE  index'[u] = NewestAt(g', Slot(index'[u]))
    BY DEF WritesNewest, Slot, Newest, NewestAt
  <2>1. CASE u = t
    BY <1>5, <1>9, <2>1 DEF s
  <2>2. CASE u # t
    <3>1. u \in Writing /\ index'[u] = index[u] /\ Slot(index[u]) # s
      BY <1>5, <1>6, <2>2
    <3>2. Slot(index[u]) \in Slots /\ Slot(index[u]) < gCurrentLogIndex
      BY <3>1, Numbers
    <3>3. index[u] = NewestAt(g, Slot(index[u]))
      BY <1>6, <3>1, NewestNow DEF LogInv, WritesNewest
    <3>. QED
      BY <1>8, <3>1, <3>2, <3>3
  <2>. QED
    BY <2>1, <2>2
<1>15. Exact'
  <2>. SUFFICES ASSUME NEW i \in Slots \ lapped', NEW f \in Fields, i < g'
                PROVE  gLogEvents'[i][f] = IF f \in Missing(i)' THEN Previous(i)' ELSE Newest(i)'
    BY DEF Exact
  <2>01. Newest(i)' = NewestAt(g', i)
    BY DEF Newest, NewestAt
  <2>0. i \in Slots /\ i \notin lapped /\ i \in Nat
    BY <1>2, <1>6 DEF Slots
  <2>1. CASE i # s
    <3>1. i < g
      <4>1. i # g
        BY <2>0, <2>1, SlotOfSlot DEF s
      <4>. QED
        BY <1>1, <1>2, <2>0, <4>1
    <3>2. Newest(i)' = Newest(i) /\ Missing(i)' = Missing(i)
      BY <1>7, <1>8, <2>0, <2>01, <2>1, <3>1, NewestNow
    <3>3. Previous(i)' = Previous(i)
      BY <3>2 DEF Previous
    <3>4. gLogEvents[i][f] = IF f \in Missing(i) THEN Previous(i) ELSE Newest(i)
      BY <2>0, <3>1 DEF LogInv, Exact
    <3>. QED
      BY <1>1, <3>2, <3>3, <3>4
  <2>2. CASE i = s
    <3>1. \A u \in Writing : Slot(index[u]) # s
      BY <1>6, <2>2
    <3>2. f \in Missing(i)'
      <4>1. t \in Writing' /\ Slot(index'[t]) = s /\ doing'[t] = "mAdditionalInfo"
        BY <1>5 DEF s
      <4>2. Order[f] >= Order["mAdditionalInfo"]
        BY Orders DEF Fields
      <4>. QED
        BY <2>2, <4>1, <4>2 DEF Missing, Slot
    <3>3. Previous(i)' = IF g - MAX_LOG_SIZE < 0 THEN None ELSE g - MAX_LOG_SIZE
      BY <1>9, <2>01, <2>2 DEF Previous
    <3>4. Missing(i) = {}
      BY <2>2, <3>1 DEF Missing
    <3>5. CASE s < g
      <4>1. Slot(s) = s
        BY <1>3, SlotOfSlot
      <4>2. s + MAX_LOG_SIZE <= g
        BY <1>2, <1>3, <3>5, <4>1, SlotsDiffer DEF s
      <4>3. /\ g - MAX_LOG_SIZE \in Nat /\ g - MAX_LOG_SIZE < g
            /\ (g - MAX_LOG_SIZE) + MAX_LOG_SIZE = g
        BY <1>2, <1>3, <4>2
      <4>4. Slot(g - MAX_LOG_SIZE) = s
        BY <4>3, RingFurther DEF s
      <4>5. Newest(s) = g - MAX_LOG_SIZE
        BY <1>2, <1>3, <4>3, <4>4, NewestUniqueAt, NewestNow
      <4>6. gLogEvents[i][f] = Newest(i)
        BY <2>0, <2>2, <3>4, <3>5 DEF LogInv, Exact
      <4>. QED
        BY <1>1, <1>2, <2>2, <3>2, <3>3, <4>3, <4>5, <4>6
    <3>6. CASE s = g
      <4>1. g < MAX_LOG_SIZE
        BY <1>2, <1>3, <3>6 DEF Slots
      <4>2. gLogEvents[i][f] = None
        BY <1>2, <2>0, <2>2, <3>6 DEF LogInv, NotReached
      <4>. QED
        BY <1>1, <1>2, <3>2, <3>3, <4>1, <4>2
    <3>. QED
      BY <1>2, <1>3, <3>5, <3>6
  <2>. QED
    BY <2>1, <2>2
<1>16. Reported'
  BY <1>1 DEF Reported
<1>. QED
  BY <1>11, <1>12, <1>13, <1>14, <1>15, <1>16 DEF LogInv

LEMMA StoreStep == ASSUME LogAssumption, LogInv, NEW t \in CrashThreads, Store(t) PROVE LogInv'
<1> DEFINE g == gCurrentLogIndex
           e == index[t]
           h == doing[t]
           s == Slot(e)
<1>1. /\ t \in Writing /\ h \in Fields
      /\ gLogEvents' = [gLogEvents EXCEPT ![s][h] = e]
      /\ doing' = [doing EXCEPT ![t] = After(h)]
      /\ index' = [index EXCEPT ![t] = IF doing'[t] = "run" THEN None ELSE e]
      /\ ~ended
      /\ UNCHANGED <<gCurrentLogIndex, suspended, snapshot, report, ended, lapped>>
  BY DEF Store, Reserved, Writing, Runs
<1>2. /\ g \in Nat /\ MAX_LOG_SIZE \in Nat \ {0}
      /\ e \in Nat /\ e < g /\ s \in Slots /\ s < g /\ e \in Events /\ e # None
  <2>1. /\ g \in Nat /\ MAX_LOG_SIZE \in Nat \ {0}
        /\ e \in Nat /\ e < g /\ s \in Slots /\ s < g
    BY <1>1, Numbers
  <2>2. e \in Events /\ e # None
    BY <2>1 DEF Events, None
  <2>. QED
    BY <2>1, <2>2
<1>3. /\ gLogEvents \in [Slots -> [Fields -> Events \cup {None}]]
      /\ doing \in [CrashThreads -> Fields \cup {"run", "filter"}]
      /\ index \in [CrashThreads -> Events \cup {None}]
  BY DEF LogInv, Typed, LogTypeOK
<1>4. /\ After(h) \in Fields \cup {"run"}
      /\ \A f \in Fields :
           After(h) \in Fields => (Order[f] >= Order[After(h)] <=> Order[f] > Order[h])
      /\ \A f \in Fields : After(h) = "run" => ~(Order[f] > Order[h])
      /\ \A f \in Fields : f # h => (Order[f] >= Order[h] <=> Order[f] > Order[h])
      /\ ~(Order[h] > Order[h]) /\ Order[h] >= Order[h]
      /\ "run" \notin Fields
  <2>1. h = "mAdditionalInfo" \/ h = "mMessage" \/ h = "mThreadId"
    BY <1>1 DEF Fields
  <2>2. "run" \notin Fields /\ "mMessage" \in Fields /\ "mThreadId" \in Fields
    BY DEF Fields
  <2>3. CASE h = "mAdditionalInfo"
    <3>1. After(h) = "mMessage"
      BY <2>3 DEF After
    <3>. QED
      BY <2>2, <2>3, <3>1, Orders DEF Fields
  <2>4. CASE h = "mMessage"
    <3>1. After(h) = "mThreadId"
      BY <2>4 DEF After
    <3>. QED
      BY <2>2, <2>4, <3>1, Orders DEF Fields
  <2>5. CASE h = "mThreadId"
    <3>1. After(h) = "run"
      BY <2>5 DEF After
    <3>. QED
      BY <2>2, <2>5, <3>1, Orders DEF Fields
  <2>. QED
    BY <2>1, <2>3, <2>4, <2>5
<1>5. /\ doing'[t] = After(h)
      /\ \A u \in CrashThreads : u # t => doing'[u] = doing[u] /\ index'[u] = index[u]
      /\ index'[t] = IF After(h) = "run" THEN None ELSE e
  BY <1>1, <1>3
<1>6. /\ \A u \in CrashThreads : u # t => (u \in Writing' <=> u \in Writing)
      /\ t \in Writing' <=> After(h) \in Fields
      /\ Writing' \subseteq Writing
      /\ \A u \in Writing' : index'[u] = index[u]
  BY <1>1, <1>4, <1>5 DEF Writing
<1>7. /\ gLogEvents'[s][h] = e
      /\ \A f \in Fields : f # h => gLogEvents'[s][f] = gLogEvents[s][f]
      /\ \A i \in Slots : i # s => gLogEvents'[i] = gLogEvents[i]
      /\ gLogEvents' \in [Slots -> [Fields -> Events \cup {None}]]
  <2>1. gLogEvents' = [gLogEvents EXCEPT ![s] = [gLogEvents[s] EXCEPT ![h] = e]]
    BY <1>1
  <2>2. gLogEvents[s] \in [Fields -> Events \cup {None}]
    BY <1>2, <1>3
  <2> DEFINE row == [gLogEvents[s] EXCEPT ![h] = e]
  <2>3. /\ row \in [Fields -> Events \cup {None}] /\ row[h] = e
        /\ \A f \in Fields : f # h => row[f] = gLogEvents[s][f]
    BY <1>1, <1>2, <2>2
  <2>. HIDE DEF row, s, g, e, h
  <2>4. gLogEvents' = [gLogEvents EXCEPT ![s] = row]
    BY <2>1 DEF row
  <2>5. /\ gLogEvents'[s] = row
        /\ \A i \in Slots : i # s => gLogEvents'[i] = gLogEvents[i]
        /\ gLogEvents' \in [Slots -> [Fields -> Events \cup {None}]]
    BY <1>2, <1>3, <2>3, <2>4
  <2>. QED
    BY <2>3, <2>5
<1>8. Events' = Events
  BY <1>1 DEF Events
<1>9. /\ \A i \in Slots : Newest(i)' = Newest(i) /\ Previous(i)' = Previous(i)
      /\ \A i \in Slots : i # s => Missing(i)' = Missing(i)
  <2>1. \A i \in Slots : Newest(i)' = Newest(i) /\ Previous(i)' = Previous(i)
    BY <1>1 DEF Newest, Previous
  <2>2. ASSUME NEW i \in Slots, i # s, NEW f \in Fields
        PROVE  f \in Missing(i)' <=> f \in Missing(i)
    <3>1. ASSUME NEW u \in CrashThreads
          PROVE  (u \in Writing' /\ Slot(index'[u]) = i) <=> (u \in Writing /\ Slot(index[u]) = i)
      BY <1>1, <1>6, <2>2
    <3>2. ASSUME NEW u \in Writing, Slot(index[u]) = i
          PROVE  doing'[u] = doing[u] /\ u \in CrashThreads
      BY <1>5, <2>2, <3>2 DEF Writing
    <3>3. Writing \subseteq CrashThreads /\ Writing' \subseteq CrashThreads
      BY <1>6 DEF Writing
    <3>. QED
      BY <3>1, <3>2, <3>3 DEF Missing, Slot
  <2>3. ASSUME NEW i \in Slots
        PROVE  Missing(i) \subseteq Fields /\ Missing(i)' \subseteq Fields
    BY DEF Missing
  <2>4. \A i \in Slots : i # s => Missing(i)' = Missing(i)
    BY <2>2, <2>3
  <2>. QED
    BY <2>1, <2>4
<1>10. ASSUME NEW i \in Slots \ lapped, i = s
       PROVE  /\ e = Newest(i)
              /\ Missing(i) = {f \in Fields : Order[f] >= Order[h]}
              /\ Missing(i)' = {f \in Fields : Order[f] > Order[h]}
  <2>1. e = Newest(i)
    BY <1>1, <1>10 DEF LogInv, WritesNewest
  <2>2. Missing(i) = {f \in Fields : Order[f] >= Order[h]}
    BY <1>1, <1>10, MissingOf
  <2>3. \A u \in Writing : Slot(index[u]) = i => u = t
    BY <1>1, <1>10 DEF LogInv, OneWriter
  <2>4. \A u \in Writing' : Slot(index'[u]) = i => u = t
    BY <1>6, <2>3
  <2>5. CASE After(h) \in Fields
    <3>1. t \in Writing' /\ Slot(index'[t]) = i /\ doing'[t] = After(h)
      BY <1>10, <1>5, <1>6, <2>5
    <3>2. \A f \in Fields : f \in Missing(i)' <=> Order[f] >= Order[After(h)]
      BY <2>4, <3>1 DEF Missing, Slot
    <3>3. Missing(i)' \subseteq Fields
      BY DEF Missing
    <3>4. \A f \in Fields : f \in Missing(i)' <=> Order[f] > Order[h]
      BY <1>4, <2>5, <3>2
    <3>5. Missing(i)' = {f \in Fields : Order[f] > Order[h]}
      BY <3>3, <3>4
    <3>. QED
      BY <2>1, <2>2, <3>5
  <2>6. CASE After(h) = "run"
    <3>1. \A u \in Writing' : Slot(index'[u]) # i
      BY <1>4, <1>6, <2>4, <2>6
    <3>2. Missing(i)' = {}
      BY <3>1 DEF Missing, Slot
    <3>3. {f \in Fields : Order[f] > Order[h]} = {}
      BY <1>4, <2>6
    <3>. QED
      BY <2>1, <2>2, <3>2, <3>3
  <2>. QED
    BY <1>4, <2>5, <2>6
<1>. HIDE DEF s, g, e, h
<1>11. Typed'
  <2>1. gLogEvents' \in [Slots -> [Fields -> Events' \cup {None}]]
    BY <1>7, <1>8
  <2>2. doing' \in [CrashThreads -> Fields \cup {"run", "filter"}]
    BY <1>1, <1>3, <1>4
  <2>3. index' \in [CrashThreads -> Events' \cup {None}]
    BY <1>1, <1>2, <1>3, <1>8
  <2>4. \A u \in Writing' : index'[u] # None
    BY <1>6 DEF LogInv, Typed
  <2>. QED
    BY <1>1, <2>1, <2>2, <2>3, <2>4 DEF LogInv, Typed, LogTypeOK
<1>12. NotReached'
  <2>. SUFFICES ASSUME NEW i \in Slots, NEW f \in Fields, g <= i
                PROVE  gLogEvents'[i][f] = None
    BY <1>1 DEF NotReached, g
  <2>1. i # s
    BY <1>2 DEF Slots
  <2>. QED
    BY <1>7, <2>1 DEF LogInv, NotReached, g
<1>13. OneWriter'
  BY <1>1, <1>6 DEF LogInv, OneWriter, Slot
<1>14. WritesNewest'
  <2>. SUFFICES ASSUME NEW u \in Writing', Slot(index'[u]) \notin lapped'
                PROVE  index'[u] = NewestAt(g', Slot(index'[u]))
    BY DEF WritesNewest, Slot, Newest, NewestAt, g
  <2>1. u \in Writing /\ index'[u] = index[u] /\ g' = g /\ lapped' = lapped
    BY <1>1, <1>6 DEF g
  <2>. QED
    BY <2>1, NewestNow DEF LogInv, WritesNewest, g
<1>15. Exact'
  <2>. SUFFICES ASSUME NEW i \in Slots \ lapped', NEW f \in Fields, i < g
                PROVE  gLogEvents'[i][f] = IF f \in Missing(i)' THEN Previous(i)' ELSE Newest(i)'
    BY <1>1 DEF Exact, g
  <2>1. i \in Slots /\ i \notin lapped
    BY <1>1
  <2>2. gLogEvents[i][f] = IF f \in Missing(i) THEN Previous(i) ELSE Newest(i)
    BY <2>1 DEF LogInv, Exact, g
  <2>3. CASE i # s
    BY <1>7, <1>9, <2>1, <2>2, <2>3
  <2>4. CASE i = s /\ f = h
    <3>1. f \notin Missing(i)' /\ e = Newest(i)
      BY <1>4, <1>10, <2>1, <2>4
    <3>. QED
      BY <1>7, <1>9, <2>1, <2>4, <3>1
  <2>5. CASE i = s /\ f # h
    <3>1. f \in Missing(i)' <=> f \in Missing(i)
      BY <1>4, <1>10, <2>1, <2>5
    <3>2. gLogEvents'[i][f] = gLogEvents[i][f]
      BY <1>7, <2>5
    <3>. QED
      BY <1>9, <2>1, <2>2, <3>1, <3>2
  <2>. QED
    BY <2>3, <2>4, <2>5
<1>16. Reported'
  BY <1>1 DEF Reported
<1>. QED
  BY <1>11, <1>12, <1>13, <1>14, <1>15, <1>16 DEF LogInv

LEMMA FilterStep ==
  ASSUME LogAssumption, LogInv, NEW t \in CrashThreads, ExceptionFilter(t)
  PROVE  LogInv'
<1>1. /\ doing[t] = "run" /\ doing' = [doing EXCEPT ![t] = "filter"]
      /\ snapshot' = [snapshot EXCEPT ![t] = CrashThreads \ {t}]
      /\ UNCHANGED <<gLogEvents, gCurrentLogIndex, index, suspended, report, ended, lapped>>
      /\ ~ended
  BY DEF ExceptionFilter, Runs
<1>2. doing' \in [CrashThreads -> Fields \cup {"run", "filter"}]
  BY <1>1 DEF LogInv, Typed, LogTypeOK
<1>3. \A u \in CrashThreads : doing[u] \in Fields \/ doing'[u] \in Fields => doing'[u] = doing[u]
  BY <1>1 DEF LogInv, Typed, LogTypeOK, Fields
<1>4. suspended' \in SUBSET CrashThreads /\ snapshot' \in [CrashThreads -> SUBSET CrashThreads]
  BY <1>1 DEF LogInv, Typed, LogTypeOK
<1>5. ended' \in BOOLEAN /\ Reported'
  BY <1>1 DEF LogInv, Typed, LogTypeOK, Reported
<1>. QED
  BY <1>1, <1>2, <1>3, <1>4, <1>5, LogFrame

LEMMA SuspendStep ==
  ASSUME LogAssumption, LogInv, NEW t \in CrashThreads, NEW u \in CrashThreads, SuspendThread(t, u)
  PROVE  LogInv'
<1>1. /\ suspended' = suspended \cup {u}
      /\ snapshot' = [snapshot EXCEPT ![t] = snapshot[t] \ {u}]
      /\ UNCHANGED <<gLogEvents, gCurrentLogIndex, doing, index, report, ended, lapped>>
      /\ ~ended
  BY DEF SuspendThread, Runs
<1>2. /\ doing' \in [CrashThreads -> Fields \cup {"run", "filter"}]
      /\ \A v \in CrashThreads : doing[v] \in Fields \/ doing'[v] \in Fields => doing'[v] = doing[v]
  BY <1>1 DEF LogInv, Typed, LogTypeOK
<1>3. suspended' \in SUBSET CrashThreads /\ snapshot' \in [CrashThreads -> SUBSET CrashThreads]
  BY <1>1 DEF LogInv, Typed, LogTypeOK
<1>4. ended' \in BOOLEAN /\ Reported'
  BY <1>1 DEF LogInv, Typed, LogTypeOK, Reported
<1>. QED
  BY <1>1, <1>2, <1>3, <1>4, LogFrame

LEMMA DumpStep ==
  ASSUME LogAssumption, LogInv, NEW t \in CrashThreads, EventLogDumpOut(t)
  PROVE  LogInv'
<1>1. /\ report' = Rows /\ ended' = TRUE
      /\ UNCHANGED <<gLogEvents, gCurrentLogIndex, doing, index, suspended, snapshot, lapped>>
  BY DEF EventLogDumpOut
<1>2. /\ doing' \in [CrashThreads -> Fields \cup {"run", "filter"}]
      /\ \A v \in CrashThreads : doing[v] \in Fields \/ doing'[v] \in Fields => doing'[v] = doing[v]
  BY <1>1 DEF LogInv, Typed, LogTypeOK
<1>3. suspended' \in SUBSET CrashThreads /\ snapshot' \in [CrashThreads -> SUBSET CrashThreads]
  BY <1>1 DEF LogInv, Typed, LogTypeOK
<1>4. ended' \in BOOLEAN
  BY <1>1
<1>5. Reported'
  BY <1>1 DEF Reported, Rows, LogCount, Slot
<1>. QED
  BY <1>1, <1>2, <1>3, <1>4, <1>5, LogFrame

LEMMA LogInvariance == ASSUME LogAssumption PROVE LogSpec => []LogInv
<1>1. LogInit => LogInv
  BY LogInitially
<1>2. ASSUME LogInv, [LogNext]_logVars PROVE LogInv'
  <2>1. CASE UNCHANGED logVars
    <3>1. UNCHANGED <<gLogEvents, gCurrentLogIndex, doing, index, suspended, snapshot, report, ended,
                      lapped>>
      BY <2>1 DEF logVars
    <3>2. /\ doing' \in [CrashThreads -> Fields \cup {"run", "filter"}]
          /\ \A v \in CrashThreads : doing[v] \in Fields \/ doing'[v] \in Fields => doing'[v] = doing[v]
      BY <1>2, <3>1 DEF LogInv, Typed, LogTypeOK
    <3>3. suspended' \in SUBSET CrashThreads /\ snapshot' \in [CrashThreads -> SUBSET CrashThreads]
      BY <1>2, <3>1 DEF LogInv, Typed, LogTypeOK
    <3>4. ended' \in BOOLEAN
      BY <1>2, <3>1 DEF LogInv, Typed, LogTypeOK
    <3>5. Reported'
      BY <1>2, <3>1 DEF LogInv, Reported, Rows, LogCount, Slot
    <3>. QED
      BY <1>2, <3>1, <3>2, <3>3, <3>4, <3>5, LogFrame
  <2>2. CASE LogNext
    BY <1>2, <2>2, ReserveStep, StoreStep, FilterStep, SuspendStep, DumpStep DEF LogNext, Proceed
  <2>. QED
    BY <1>2, <2>1, <2>2
<1>. QED
  BY <1>1, <1>2, PTL DEF LogSpec

-----------------------------------------------------------------------------
(***************************************************************************)
(* Although nothing locks the ring, every slot in which two threads never  *)
(* met holds its newest event, but for the fields its writer has not come  *)
(* to, and those are of the event one ring before: gCurrentLogIndex is     *)
(* incremented with an interlock, so that two writers of one slot are a    *)
(* whole ring apart.                                                       *)
(***************************************************************************)
THEOREM SlotsStayExact == ASSUME LogAssumption PROVE LogSpec => []SlotsExact
<1>1. LogInv => SlotsExact
  BY DEF LogInv, Typed, Exact, SlotsExact
<1>. QED
  BY <1>1, LogInvariance, PTL

(***************************************************************************)
(* The report of a crash contains every event that was finished before it, *)
(* is younger than one ring and lies in a slot where two threads never     *)
(* met; and until the ring wraps the report tells them newest first.       *)
(***************************************************************************)
THEOREM ReportIsComplete == ASSUME LogAssumption PROVE LogSpec => []ReportTellsAll
<1>1. ASSUME LogInv
      PROVE  ReportTellsAll
  <2> DEFINE g == gCurrentLogIndex
             N == MAX_LOG_SIZE
  <2>. SUFFICES ASSUME ended, NEW e \in Events, g - e <= N, Finished(e), Slot(e) \notin lapped
                PROVE  \E i \in DOMAIN report : report[i] = Row(e) /\ (g <= N => i = g - e)
    BY DEF ReportTellsAll
  <2> DEFINE s == Slot(e)
  <2>1. g \in Nat /\ N \in Nat \ {0} /\ e \in Nat /\ e < g /\ g <= e + N
    BY <1>1, Numbers DEF Events
  <2>2. s \in Slots /\ s <= e /\ s \in Nat /\ s < N
    BY <2>1, SlotOf DEF Slots
  <2>3. s < g /\ Newest(s) = e
    BY <2>1, <2>2, NewestUniqueAt, NewestNow
  <2>4. Missing(s) = {}
    <3>1. ASSUME NEW t \in Writing, Slot(index[t]) = s
          PROVE  FALSE
      <4>1. index[t] = e
        BY <1>1, <2>3, <3>1 DEF LogInv, WritesNewest
      <4>. QED
        BY <4>1 DEF Finished, Writing
    <3>. QED
      BY <3>1 DEF Missing
  <2>5. gLogEvents[s] = Row(e)
    <3>1. \A f \in Fields : gLogEvents[s][f] = e
      BY <1>1, <2>2, <2>3, <2>4 DEF LogInv, Exact
    <3>2. gLogEvents[s] \in [Fields -> Events \cup {None}]
      BY <1>1, <2>2 DEF LogInv, Typed, LogTypeOK
    <3>. QED
      BY <3>1, <3>2 DEF Row
  <2>6. report = Rows
    BY <1>1 DEF LogInv, Reported
  <2>. HIDE DEF s
  <2>7. CASE g < N
    <3>1. LogCount = g
      BY <2>7 DEF LogCount
    <3>2. e = s
      <4>1. e \in Slots
        BY <2>1, <2>7 DEF Slots
      <4>. QED
        BY <4>1, SlotOfSlot DEF s
    <3>3. g - e \in 1 .. LogCount /\ LogCount - (g - e) = e
      BY <2>1, <3>1
    <3>4. Rows[g - e] = gLogEvents[Slot(e)] /\ g - e \in DOMAIN Rows
      BY <3>3 DEF Rows
    <3>. QED
      BY <2>5, <2>6, <3>4 DEF s
  <2>8. CASE ~(g < N)
    <3>1. LogCount = N
      BY <2>8 DEF LogCount
    <3> DEFINE i == N - s
    <3>2. i \in 1 .. LogCount /\ LogCount - i = s
      BY <2>1, <2>2, <3>1
    <3>3. Rows[i] = gLogEvents[Slot(s)] /\ i \in DOMAIN Rows
      BY <3>2 DEF Rows
    <3>4. Slot(s) = s
      BY <2>2, SlotOfSlot
    <3>5. g <= N => i = g - e
      <4>1. g <= N => e \in Slots
        BY <2>1, <2>8 DEF Slots
      <4>2. g <= N => e = s
        BY <4>1, SlotOfSlot DEF s
      <4>. QED
        BY <2>1, <2>8, <4>2
    <3>. QED
      BY <2>5, <2>6, <3>3, <3>4, <3>5
  <2>. QED
    BY <2>7, <2>8
<1>. QED
  BY <1>1, LogInvariance, PTL
=============================================================================
