----------------------------- MODULE ClientBuffer -----------------------------
(***************************************************************************)
(* The YaMang client's own CircularBuffer (YaMangClient/CircularBuffer.h   *)
(* and .cpp; "the server's and the client's differ", line 4): a ring.      *)
(* What reaches its end goes on at its start, and a call that crosses the  *)
(* end is split into two copies.  NetworkManager keeps one for what it     *)
(* receives and one for what it has to send.                               *)
(*                                                                         *)
(* A call that is refused returns false and changes nothing, so it is no   *)
(* step.  The names differ from those of the session's buffer: both        *)
(* modules are extended by the one that checks them.                       *)
(***************************************************************************)
EXTENDS Integers, Sequences

CONSTANTS m_Capacity,
          Char        (* the values a stored byte can take *)

ASSUME RingAssumption == m_Capacity \in Nat \ {0}

VARIABLES m_Data, m_BeginIndex, m_EndIndex, m_CurrentSize

ringVars == <<m_Data, m_BeginIndex, m_EndIndex, m_CurrentSize>>

Cells == 0 .. m_Capacity - 1

(* The sizes callers pass.  A failed recv or send passes (size_t)-1, which *)
(* m_Capacity + 1 stands for with every other size beyond the capacity.    *)
Sizes == 0 .. m_Capacity + 1

(* The part of a call of that size that lies before the end of the ring.   *)
BeforeEnd(index, bytes) ==
  IF bytes <= m_Capacity - index THEN bytes ELSE m_Capacity - index

(* Mutant: an index that reaches the end of the ring stays there. *)
AdvanceToTheEnd(index, bytes) ==
  IF bytes <= m_Capacity - index THEN index + bytes
                                 ELSE bytes - (m_Capacity - index)

Advance(index, bytes) ==
  CASE bytes < m_Capacity - index -> index + bytes
    [] bytes = m_Capacity - index -> 0
    [] bytes > m_Capacity - index -> bytes - (m_Capacity - index)

(* Mutant: the second copy starts again at the first byte of the data. *)
WrittenFromStart(data) ==
  LET size1 == BeforeEnd(m_EndIndex, Len(data))
  IN  [c \in Cells |->
         CASE c \in m_EndIndex .. m_EndIndex + size1 - 1 -> data[c - m_EndIndex + 1]
           [] c \in 0 .. Len(data) - size1 - 1           -> data[c + 1]
           [] OTHER                                      -> m_Data[c]]

(* The memory after the one or two copies of a Write. *)
Written(data) ==
  LET size1 == BeforeEnd(m_EndIndex, Len(data))
  IN  [c \in Cells |->
         CASE c \in m_EndIndex .. m_EndIndex + size1 - 1 -> data[c - m_EndIndex + 1]
           [] c \in 0 .. Len(data) - size1 - 1           -> data[size1 + c + 1]
           [] OTHER                                      -> m_Data[c]]

(* The one or two copies a Peek or a Read makes to its caller. *)
Peeked(bytes) ==
  LET size1 == BeforeEnd(m_BeginIndex, bytes)
  IN  [i \in 1 .. bytes |-> IF i <= size1 THEN m_Data[m_BeginIndex + i - 1]
                                          ELSE m_Data[i - size1 - 1]]

-----------------------------------------------------------------------------
RingInit ==
  /\ m_Data \in [Cells -> Char]     (* new char[capacity] is left as it is *)
  /\ m_BeginIndex = 0 /\ m_EndIndex = 0 /\ m_CurrentSize = 0

RingWrite(data) ==
  /\ Len(data) # 0 /\ Len(data) <= m_Capacity - m_CurrentSize
  /\ m_Data' = Written(data)
  /\ m_EndIndex' = Advance(m_EndIndex, Len(data))
  /\ m_CurrentSize' = m_CurrentSize + Len(data)
  /\ UNCHANGED m_BeginIndex

(* The caller receives Peeked(bytes). *)
RingRead(bytes) ==
  /\ bytes # 0 /\ bytes <= m_CurrentSize
  /\ m_BeginIndex' = Advance(m_BeginIndex, bytes)
  /\ m_CurrentSize' = m_CurrentSize - bytes
  /\ UNCHANGED <<m_Data, m_EndIndex>>

(* What send() has taken, after a Peek at everything.  In the split case   *)
(* the index is computed in one sum.                                       *)
RingConsume(bytes) ==
  /\ bytes # 0 /\ bytes <= m_CurrentSize
  /\ m_BeginIndex' = IF bytes <= m_Capacity - m_BeginIndex
                     THEN Advance(m_BeginIndex, bytes)
                     ELSE bytes + m_BeginIndex - m_Capacity
  /\ m_CurrentSize' = m_CurrentSize - bytes
  /\ UNCHANGED <<m_Data, m_EndIndex>>

RingReset ==
  /\ m_BeginIndex' = 0 /\ m_EndIndex' = 0 /\ m_CurrentSize' = 0
  /\ UNCHANGED m_Data

RingNext ==
  \/ \E n \in Sizes : \E data \in [1 .. n -> Char] : RingWrite(data)
  \/ \E bytes \in Sizes : RingRead(bytes) \/ RingConsume(bytes)
  \/ RingReset

RingSpec == RingInit /\ [][RingNext]_ringVars

-----------------------------------------------------------------------------
RingTypeOK ==
  /\ m_Data \in [Cells -> Char]
  /\ m_BeginIndex \in Cells /\ m_EndIndex \in Cells
  /\ m_CurrentSize \in 0 .. m_Capacity

(* The cell k cells after the start of the ring's memory. *)
Cell(k) == IF k < m_Capacity THEN k ELSE k - m_Capacity

(* What is stored, oldest byte first. *)
RingContents ==
  [i \in 1 .. m_CurrentSize |-> m_Data[Cell(m_BeginIndex + i - 1)]]

EndAfterLast == m_EndIndex = Cell(m_BeginIndex + m_CurrentSize)

(***************************************************************************)
(* Three variables describe the ring redundantly.  They stay in agreement  *)
(* through every wrap and split, a full ring included, where the two       *)
(* indices are equal as they are in an empty one: so no copy leaves the    *)
(* memory, the subtractions of size_t never wrap (a failed recv or send,   *)
(* whose -1 becomes the largest size, is refused), and a Peek at n bytes,  *)
(* split or not, returns the n oldest.                                     *)
(***************************************************************************)
RingSound ==
  /\ RingTypeOK
  /\ EndAfterLast
  /\ \A n \in 0 .. m_CurrentSize : Peeked(n) = SubSeq(RingContents, 1, n)

Fifo == INSTANCE ByteQueue WITH queue <- RingContents, Capacity <- m_Capacity

(* What a Write appends are the bytes it was given. *)
WritesAppend ==
  [][m_CurrentSize' > m_CurrentSize =>
       \A data \in [1 .. m_CurrentSize' - m_CurrentSize -> Char] :
         RingWrite(data) => RingContents' = RingContents \o data]_ringVars

(***************************************************************************)
(* Refinement: however the calls are split, the client's ring is the same  *)
(* bounded queue of bytes as the session's two-region buffer, and the      *)
(* queue's next bytes are those that were written.                         *)
(***************************************************************************)
RingIsFifo == Fifo!Spec /\ WritesAppend
=============================================================================
