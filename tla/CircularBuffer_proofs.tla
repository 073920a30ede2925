------------------------ MODULE CircularBuffer_proofs ------------------------
(***************************************************************************)
(* Proofs about CircularBuffer, for every capacity and every set of bytes. *)
(***************************************************************************)
EXTENDS CircularBuffer, TLAPS

(* TypeOK and RegionsOK of a buffer b, and the reason why B was opened:    *)
(* the room after A was, and stays, smaller than the room before it.       *)
BufferOK(b) ==
  /\ b \in [mem : [0 .. Capacity - 1 -> Byte], aPtr : 0 .. Capacity,
            aSize : 0 .. Capacity, bPtr : {Null, 0}, bSize : 0 .. Capacity]
  /\ b.aPtr + b.aSize <= Capacity
  /\ b.bSize <= b.aPtr
  /\ b.bPtr = Null => b.bSize = 0
  /\ b.aSize = 0 => b.bPtr = Null /\ b.aPtr = 0
  /\ b.bPtr # Null => GetAFreeSpace(b) < GetSpaceBeforeA(b)

(* Opening region B, when GetFreeSpaceSize does, is harmless. *)
LEMMA AfterSizingOK ==
  ASSUME NEW b, BufferOK(b)
  PROVE  BufferOK(AfterSizing(b))
<1>1. CASE AfterSizing(b) = b
  BY <1>1
<1>2. CASE AfterSizing(b) # b
  <2>1. /\ b.bPtr = Null /\ GetAFreeSpace(b) < GetSpaceBeforeA(b)
        /\ AfterSizing(b) = [b EXCEPT !.bPtr = 0]
    BY <1>2 DEF AfterSizing, AllocateB
  <2> DEFINE c == [b EXCEPT !.bPtr = 0]
  <2>2. /\ c.aPtr = b.aPtr /\ c.aSize = b.aSize /\ c.bSize = b.bSize
        /\ c.bPtr = 0 /\ c.mem = b.mem
    BY DEF BufferOK
  <2>. QED
    BY <2>1, <2>2, CapacityAssumption
    DEF BufferOK, Null, GetAFreeSpace, GetSpaceBeforeA
<1>. QED
  BY <1>1, <1>2

(* Sizing leaves regions A and B where they are. *)
LEMMA AfterSizingKeeps ==
  ASSUME NEW b, BufferOK(b)
  PROVE  LET c == AfterSizing(b)
         IN  /\ c.mem = b.mem /\ c.aPtr = b.aPtr
             /\ c.aSize = b.aSize /\ c.bSize = b.bSize
BY DEF BufferOK, AfterSizing, AllocateB

(* What the size returned promises about the region that is written to. *)
LEMMA FreeSpaceFits ==
  ASSUME NEW b, BufferOK(b)
  PROVE  LET c == AfterSizing(b)
         IN  /\ FreeSpace(b) \in Nat
             /\ c.bPtr = Null => FreeSpace(b) = Capacity - b.aPtr - b.aSize
             /\ c.bPtr # Null => FreeSpace(b) = b.aPtr - b.bSize
<1> DEFINE c == AfterSizing(b)
<1>1. BufferOK(c)
  BY AfterSizingOK
<1>2. c.aPtr = b.aPtr /\ c.aSize = b.aSize /\ c.bSize = b.bSize
  BY AfterSizingKeeps
<1>3. FreeSpace(b) = IF c.bPtr # Null THEN GetBFreeSpace(c) ELSE GetAFreeSpace(c)
  BY DEF FreeSpace
<1>. HIDE DEF c
<1>4. /\ FreeSpace(b) \in Nat
      /\ c.bPtr = Null => FreeSpace(b) = Capacity - b.aPtr - b.aSize
      /\ c.bPtr # Null => FreeSpace(b) = b.aPtr - b.bSize
  BY <1>1, <1>2, <1>3, CapacityAssumption
  DEF BufferOK, GetBFreeSpace, GetAFreeSpace, Null
<1>. QED
  BY <1>4 DEF c

(***************************************************************************)
(* What a write that fits leaves in the buffer, and that it fits: the      *)
(* bytes go behind those of the region that is being filled.               *)
(***************************************************************************)
WrittenAt(b) == IF AfterSizing(b).bPtr = Null THEN b.aPtr + b.aSize ELSE b.bSize

LEMMA WriteFits ==
  ASSUME NEW b, BufferOK(b), NEW n \in Nat, NEW data \in [1 .. n -> Byte],
         ~(FreeSpace(b) < Len(data))
  PROVE  LET c == AfterSizing(b)
             e == Write(b, data)
             at == WrittenAt(b)
         IN  /\ e = [mem |-> [i \in 0 .. Capacity - 1 |->
                                IF i \in at .. at + n - 1
                                THEN data[i - at + 1] ELSE b.mem[i]],
                     aPtr |-> b.aPtr,
                     aSize |-> IF c.bPtr = Null THEN b.aSize + n ELSE b.aSize,
                     bPtr |-> c.bPtr,
                     bSize |-> IF c.bPtr = Null THEN b.bSize ELSE b.bSize + n]
             /\ c.bPtr = Null => b.aPtr + b.aSize + n <= Capacity
             /\ c.bPtr # Null => b.bSize + n <= b.aPtr
<1> DEFINE c == AfterSizing(b)
           at == WrittenAt(b)
           mem == [i \in 0 .. Capacity - 1 |->
                     IF i \in at .. at + n - 1 THEN data[i - at + 1] ELSE b.mem[i]]
           d == Copy(c, data)
<1>1. BufferOK(c)
  BY AfterSizingOK
<1>2. c.mem = b.mem /\ c.aPtr = b.aPtr /\ c.aSize = b.aSize /\ c.bSize = b.bSize
  BY AfterSizingKeeps
<1>3. Len(data) = n
  OBVIOUS
<1>4. /\ FreeSpace(b) \in Nat
      /\ c.bPtr = Null => FreeSpace(b) = Capacity - b.aPtr - b.aSize
      /\ c.bPtr # Null => FreeSpace(b) = b.aPtr - b.bSize
  BY FreeSpaceFits
<1>5. Write(b, data) = Commit(d, n)
  BY <1>3 DEF Write
<1>6. at = IF c.bPtr = Null THEN b.aPtr + b.aSize ELSE b.bSize
  BY DEF WrittenAt
<1>7. GetBuffer(c) = at
  <2>. HIDE DEF c, at
  <2>. QED
    BY <1>1, <1>2, <1>6, CapacityAssumption DEF GetBuffer, BufferOK, Null
<1>8. d = [c EXCEPT !.mem = mem]
  <2>1. d = [c EXCEPT !.mem = [i \in 0 .. Capacity - 1 |->
                                 IF i \in GetBuffer(c) .. GetBuffer(c) + Len(data) - 1
                                 THEN data[i - GetBuffer(c) + 1] ELSE c.mem[i]]]
    BY DEF Copy
  <2>. HIDE DEF c, d, at
  <2>. QED
    BY <1>2, <1>3, <1>7, <2>1
<1>. HIDE DEF c, d, at, mem
<1>9. d = [mem |-> mem, aPtr |-> b.aPtr, aSize |-> b.aSize,
           bPtr |-> c.bPtr, bSize |-> b.bSize]
  BY <1>1, <1>2, <1>8 DEF BufferOK
<1>10. Write(b, data) =
         [mem |-> mem, aPtr |-> b.aPtr,
          aSize |-> IF c.bPtr = Null THEN b.aSize + n ELSE b.aSize,
          bPtr |-> c.bPtr,
          bSize |-> IF c.bPtr = Null THEN b.bSize ELSE b.bSize + n]
  <2>1. CASE c.bPtr = Null
    <3>1. Write(b, data) = [d EXCEPT !.aSize = d.aSize + n]
      BY <1>5, <1>9, <2>1 DEF Commit
    <3>. QED
      BY <1>9, <2>1, <3>1
  <2>2. CASE c.bPtr # Null
    <3>1. Write(b, data) = [d EXCEPT !.bSize = d.bSize + n]
      BY <1>5, <1>9, <2>2 DEF Commit
    <3>. QED
      BY <1>9, <2>2, <3>1
  <2>. QED
    BY <2>1, <2>2
<1>11. /\ c.bPtr = Null => b.aPtr + b.aSize + n <= Capacity
       /\ c.bPtr # Null => b.bSize + n <= b.aPtr
  BY <1>1, <1>2, <1>3, <1>4, CapacityAssumption DEF BufferOK
<1>. QED
  BY <1>10, <1>11 DEF c, at, mem

(***************************************************************************)
(* A write keeps the buffer well formed.                                   *)
(***************************************************************************)
LEMMA WriteOK ==
  ASSUME NEW b, BufferOK(b), NEW n \in Nat, NEW data \in [1 .. n -> Byte]
  PROVE  BufferOK(Write(b, data))
<1> DEFINE c == AfterSizing(b)
           e == Write(b, data)
           at == WrittenAt(b)
           mem == [i \in 0 .. Capacity - 1 |->
                     IF i \in at .. at + n - 1 THEN data[i - at + 1] ELSE b.mem[i]]
<1>1. BufferOK(c) /\ c.aPtr = b.aPtr /\ c.aSize = b.aSize /\ c.bSize = b.bSize
  BY AfterSizingOK, AfterSizingKeeps
<1>2. CASE FreeSpace(b) < Len(data)
  BY <1>1, <1>2 DEF Write
<1>3. CASE ~(FreeSpace(b) < Len(data))
  <2>1. /\ e = [mem |-> mem, aPtr |-> b.aPtr,
                aSize |-> IF c.bPtr = Null THEN b.aSize + n ELSE b.aSize,
                bPtr |-> c.bPtr,
                bSize |-> IF c.bPtr = Null THEN b.bSize ELSE b.bSize + n]
        /\ c.bPtr = Null => b.aPtr + b.aSize + n <= Capacity
        /\ c.bPtr # Null => b.bSize + n <= b.aPtr
    BY <1>3, WriteFits
  <2>2. mem \in [0 .. Capacity - 1 -> Byte]
    <3>1. at \in Int
      BY CapacityAssumption DEF WrittenAt, BufferOK
    <3>. HIDE DEF at
    <3>2. SUFFICES ASSUME NEW i \in 0 .. Capacity - 1
                   PROVE  (IF i \in at .. at + n - 1
                           THEN data[i - at + 1] ELSE b.mem[i]) \in Byte
      OBVIOUS
    <3>3. b.mem[i] \in Byte
      BY DEF BufferOK
    <3>4. i \in at .. at + n - 1 => data[i - at + 1] \in Byte
      BY <3>1, CapacityAssumption
    <3>. QED
      BY <3>3, <3>4
  <2>. HIDE DEF c, e, mem
  <2>3. ASSUME c.bPtr = Null
        PROVE  BufferOK(e)
    BY <1>1, <2>1, <2>2, <2>3, CapacityAssumption DEF BufferOK
  <2>4. ASSUME c.bPtr # Null
        PROVE  BufferOK(e)
    BY <1>1, <2>1, <2>2, <2>4, CapacityAssumption
    DEF BufferOK, GetAFreeSpace, GetSpaceBeforeA
  <2>. QED
    BY <2>3, <2>4 DEF e
<1>. QED
  BY <1>2, <1>3

(***************************************************************************)
(* What the first half of Remove drops from each region: nothing from B    *)
(* while A has bytes left.                                                 *)
(***************************************************************************)
ARemove(b, len) == Min2(len, b.aSize)
BRemove(b, len) == Min2(len - ARemove(b, len), b.bSize)

LEMMA DropFromAThenB ==
  ASSUME NEW b, BufferOK(b), NEW len \in Nat
  PROVE  LET ar == ARemove(b, len)
             br == BRemove(b, len)
         IN  /\ Drop(b, len) =
                  [mem |-> b.mem, aPtr |-> b.aPtr + ar, aSize |-> b.aSize - ar,
                   bPtr |-> b.bPtr + br, bSize |-> b.bSize - br]
             /\ ar \in Nat /\ ar <= b.aSize /\ br \in Nat /\ br <= b.bSize
             /\ ar < b.aSize => br = 0
             /\ ar + br <= len
             /\ ar + br < len => ar = b.aSize /\ br = b.bSize
             /\ br > 0 => b.bPtr = 0
<1> DEFINE ar == ARemove(b, len)
           br == BRemove(b, len)
           d == Drop(b, len)
<1>1. b.aSize \in Nat /\ b.bSize \in Nat /\ (b.bSize > 0 => b.bPtr = 0)
  BY CapacityAssumption DEF BufferOK
<1>2. /\ ar \in Nat /\ ar <= b.aSize /\ br \in Nat /\ br <= b.bSize
      /\ ar < b.aSize => br = 0
      /\ ar + br <= len
      /\ ar + br < len => ar = b.aSize /\ br = b.bSize
      /\ br > 0 => b.bPtr = 0
  BY <1>1 DEF ARemove, BRemove, Min2
<1>3. d = [b EXCEPT !.aSize = b.aSize - ar, !.aPtr = b.aPtr + ar,
                    !.bSize = b.bSize - br, !.bPtr = b.bPtr + br]
  BY DEF Drop, ARemove, BRemove
<1>. HIDE DEF ar, br, d
<1>4. d = [mem |-> b.mem, aPtr |-> b.aPtr + ar, aSize |-> b.aSize - ar,
           bPtr |-> b.bPtr + br, bSize |-> b.bSize - br]
  BY <1>3 DEF BufferOK
<1>. QED
  BY <1>2, <1>4 DEF ar, br, d

(***************************************************************************)
(* The k-th byte a reader will get, and its place in a well-formed buffer. *)
(***************************************************************************)
ByteAt(b, k) == IF k <= b.aSize THEN b.mem[b.aPtr + k - 1]
                                ELSE b.mem[b.bPtr + k - b.aSize - 1]

LEMMA ContentsByByte ==
  ASSUME NEW b, BufferOK(b)
  PROVE  /\ Contents(b) \in Seq(Byte)
         /\ Len(Contents(b)) = GetStoredSize(b)
         /\ GetStoredSize(b) \in 0 .. Capacity
         /\ \A k \in 1 .. GetStoredSize(b) : Contents(b)[k] = ByteAt(b, k)
<1> DEFINE A == [i \in 1 .. b.aSize |-> b.mem[b.aPtr + i - 1]]
           B == [i \in 1 .. b.bSize |-> b.mem[b.bPtr + i - 1]]
<1>1. /\ b.aSize \in Nat /\ b.bSize \in Nat /\ b.aPtr \in Nat
      /\ b.bSize > 0 => b.bPtr = 0
      /\ b.aPtr + b.aSize <= Capacity /\ b.bSize <= b.aPtr
      /\ b.mem \in [0 .. Capacity - 1 -> Byte]
  BY CapacityAssumption DEF BufferOK
<1>2. A \in Seq(Byte) /\ Len(A) = b.aSize
  <2>1. \A i \in 1 .. b.aSize : b.mem[b.aPtr + i - 1] \in Byte
    BY <1>1, CapacityAssumption
  <2>2. A \in [1 .. b.aSize -> Byte]
    BY <2>1
  <2>. HIDE DEF A
  <2>. QED
    BY <1>1, <2>2
<1>3. B \in Seq(Byte) /\ Len(B) = b.bSize
  <2>1. \A i \in 1 .. b.bSize : b.mem[b.bPtr + i - 1] \in Byte
    BY <1>1, CapacityAssumption
  <2>2. B \in [1 .. b.bSize -> Byte]
    BY <2>1
  <2>. HIDE DEF B
  <2>. QED
    BY <1>1, <2>2
<1>4. \A i \in 1 .. b.aSize : A[i] = b.mem[b.aPtr + i - 1]
  OBVIOUS
<1>5. \A i \in 1 .. b.bSize : B[i] = b.mem[b.bPtr + i - 1]
  OBVIOUS
<1>6. Contents(b) = A \o B
  BY DEF Contents
<1>. HIDE DEF A, B
<1>7. /\ A \o B \in Seq(Byte) /\ Len(A \o B) = b.aSize + b.bSize
      /\ \A k \in 1 .. b.aSize + b.bSize :
           (A \o B)[k] = IF k <= b.aSize THEN A[k] ELSE B[k - b.aSize]
  BY <1>1, <1>2, <1>3, SMTT(60)
<1>8. \A k \in 1 .. b.aSize + b.bSize : (A \o B)[k] = ByteAt(b, k)
  <2>. TAKE k \in 1 .. b.aSize + b.bSize
  <2>1. CASE k <= b.aSize
    BY <1>1, <1>4, <1>7, <2>1 DEF ByteAt
  <2>2. CASE ~(k <= b.aSize)
    <3>1. k - b.aSize \in 1 .. b.bSize
      BY <1>1, <2>2
    <3>2. B[k - b.aSize] = b.mem[b.bPtr + (k - b.aSize) - 1]
      BY <1>5, <3>1
    <3>3. b.bPtr + (k - b.aSize) - 1 = b.bPtr + k - b.aSize - 1
      BY <1>1, <3>1
    <3>. QED
      BY <1>7, <2>2, <3>2, <3>3 DEF ByteAt
  <2>. QED
    BY <2>1, <2>2
<1>. QED
  BY <1>1, <1>6, <1>7, <1>8, CapacityAssumption, SMTT(60) DEF GetStoredSize

(* How much Remove removes from the two regions together. *)
Removed(b, len) == ARemove(b, len) + BRemove(b, len)

(* Remove never removes more than is stored and, unless the buffer is empty, something. *)
LEMMA RemovedSize ==
  ASSUME NEW b, BufferOK(b), NEW len \in Nat \ {0}
  PROVE  /\ Removed(b, len) \in Nat
         /\ Removed(b, len) <= GetStoredSize(b)
         /\ GetStoredSize(b) > 0 => Removed(b, len) > 0
<1> DEFINE ar == ARemove(b, len)
           br == BRemove(b, len)
<1>1. b.aSize \in Nat /\ b.bSize \in Nat
  BY CapacityAssumption DEF BufferOK
<1>2. /\ ar \in Nat /\ ar <= b.aSize /\ br \in Nat /\ br <= b.bSize
      /\ ar + br < len => ar = b.aSize /\ br = b.bSize
  BY DropFromAThenB
<1>. HIDE DEF ar, br
<1>3. /\ ar + br \in Nat /\ ar + br <= b.aSize + b.bSize
      /\ b.aSize + b.bSize > 0 => ar + br > 0
  BY <1>1, <1>2
<1>. QED
  BY <1>3 DEF Removed, GetStoredSize, ar, br

(***************************************************************************)
(* CircularBuffer::Remove, however much it is asked to remove: the buffer  *)
(* stays well formed, what goes is the front, and the rest keeps its order.*)
(***************************************************************************)
LEMMA RemoveOK ==
  ASSUME NEW b, BufferOK(b), NEW len \in Nat
  PROVE  LET e == Remove(b, len)
         IN  /\ BufferOK(e)
             /\ GetStoredSize(e) = GetStoredSize(b) - Removed(b, len)
             /\ \A k \in 1 .. GetStoredSize(e) :
                  ByteAt(e, k) = ByteAt(b, Removed(b, len) + k)
<1> DEFINE d == Drop(b, len)
           e == Remove(b, len)
           ar == ARemove(b, len)
           br == BRemove(b, len)
<1>1. /\ b.aSize \in Nat /\ b.bSize \in Nat /\ b.aPtr \in Nat /\ b.bPtr \in {Null, 0}
      /\ b.mem \in [0 .. Capacity - 1 -> Byte]
      /\ b.aPtr + b.aSize <= Capacity /\ b.bSize <= b.aPtr
      /\ b.bPtr = Null => b.bSize = 0
      /\ b.bPtr # Null => Capacity - b.aPtr - b.aSize < b.aPtr
  BY CapacityAssumption DEF BufferOK, GetAFreeSpace, GetSpaceBeforeA
<1>2. /\ d = [mem |-> b.mem, aPtr |-> b.aPtr + ar, aSize |-> b.aSize - ar,
              bPtr |-> b.bPtr + br, bSize |-> b.bSize - br]
      /\ ar \in Nat /\ ar <= b.aSize /\ br \in Nat /\ br <= b.bSize
      /\ ar < b.aSize => br = 0
      /\ br > 0 => b.bPtr = 0
  BY DropFromAThenB
<1>3. Removed(b, len) = ar + br
  BY DEF Removed
<1>4. /\ d.aSize > 0 => e = d
      /\ d.aSize = 0 /\ d.bSize > 0 => e = SwitchToB(d)
      /\ d.aSize = 0 /\ d.bSize = 0 => e = Empty(d)
  BY DEF Remove
<1>. HIDE DEF d, e, ar, br
<1>5. ASSUME d.aSize > 0
      PROVE  /\ BufferOK(e)
             /\ GetStoredSize(e) = GetStoredSize(b) - (ar + br)
             /\ \A k \in 1 .. GetStoredSize(e) : ByteAt(e, k) = ByteAt(b, (ar + br) + k)
  <2>1. br = 0 /\ e = [mem |-> b.mem, aPtr |-> b.aPtr + ar, aSize |-> b.aSize - ar,
                       bPtr |-> b.bPtr, bSize |-> b.bSize]
    BY <1>1, <1>2, <1>4, <1>5 DEF Null
  <2>2. BufferOK(e)
    BY <1>1, <1>2, <1>5, <2>1, CapacityAssumption, SMTT(60)
    DEF BufferOK, GetAFreeSpace, GetSpaceBeforeA
  <2>3. GetStoredSize(e) = GetStoredSize(b) - (ar + br)
    BY <1>1, <1>2, <2>1 DEF GetStoredSize
  <2>4. ASSUME NEW k \in 1 .. GetStoredSize(e)
        PROVE  ByteAt(e, k) = ByteAt(b, (ar + br) + k)
    <3>1. k \in Nat /\ (ar + br) + k = ar + k
      BY <1>2, <2>1, <2>3, <1>1
    <3>2. /\ b.aPtr + ar + k - 1 = b.aPtr + (ar + k) - 1
          /\ b.bPtr + k - (b.aSize - ar) - 1 = b.bPtr + (ar + k) - b.aSize - 1
          /\ k <= b.aSize - ar <=> ar + k <= b.aSize
      BY <1>1, <1>2, <3>1, SMTT(60) DEF Null
    <3>. QED
      BY <2>1, <3>1, <3>2 DEF ByteAt
  <2>. QED
    BY <2>2, <2>3, <2>4
<1>6. ASSUME ~(d.aSize > 0), d.bSize > 0
      PROVE  /\ BufferOK(e)
             /\ GetStoredSize(e) = GetStoredSize(b) - (ar + br)
             /\ \A k \in 1 .. GetStoredSize(e) : ByteAt(e, k) = ByteAt(b, (ar + br) + k)
  <2> DEFINE mem == [i \in 0 .. Capacity - 1 |->
                       IF i < d.bSize THEN d.mem[d.bPtr + i] ELSE d.mem[i]]
  <2>1. d.aSize = 0 /\ ar = b.aSize /\ b.bPtr = 0
    BY <1>1, <1>2, <1>6
  <2>2. e = [mem |-> mem, aPtr |-> 0, aSize |-> d.bSize, bPtr |-> Null, bSize |-> 0]
    BY <1>4, <1>6, <2>1 DEF SwitchToB
  <2>3. /\ d.mem = b.mem /\ d.bPtr = br /\ d.bSize = b.bSize - br
        /\ d.bSize \in 0 .. Capacity /\ br + d.bSize <= Capacity
    <3>1. d.mem = b.mem /\ d.bPtr = b.bPtr + br /\ d.bSize = b.bSize - br
      BY <1>2
    <3>2. b.bPtr + br = br /\ b.bSize <= Capacity
      BY <1>1, <1>2, <2>1, CapacityAssumption
    <3>. QED
      BY <1>1, <1>2, <3>1, <3>2, CapacityAssumption
  <2>4. mem \in [0 .. Capacity - 1 -> Byte]
    <3>. SUFFICES ASSUME NEW i \in 0 .. Capacity - 1
                  PROVE  (IF i < d.bSize THEN d.mem[d.bPtr + i] ELSE d.mem[i]) \in Byte
      OBVIOUS
    <3>1. i < d.bSize => d.bPtr + i \in 0 .. Capacity - 1
      <4>1. br \in Nat
        BY <1>2
      <4>. QED
        BY <2>3, <4>1, CapacityAssumption
    <3>. QED
      BY <1>1, <2>3, <3>1
  <2>5. \A i \in 0 .. d.bSize - 1 : mem[i] = b.mem[br + i]
    BY <2>3, CapacityAssumption
  <2>. HIDE DEF mem
  <2>6. BufferOK(e)
    BY <1>6, <2>2, <2>3, <2>4, CapacityAssumption
    DEF BufferOK, GetAFreeSpace, GetSpaceBeforeA, Null
  <2>7. GetStoredSize(e) = GetStoredSize(b) - (ar + br) /\ GetStoredSize(e) = d.bSize
    BY <1>1, <1>2, <2>1, <2>2, <2>3 DEF GetStoredSize
  <2>8. ASSUME NEW k \in 1 .. GetStoredSize(e)
        PROVE  ByteAt(e, k) = ByteAt(b, (ar + br) + k)
    <3>1. k \in 1 .. d.bSize /\ k <= e.aSize /\ k - 1 \in 0 .. d.bSize - 1
      BY <2>2, <2>3, <2>7
    <3>2. ByteAt(e, k) = mem[k - 1]
      BY <2>2, <3>1 DEF ByteAt
    <3>3. mem[k - 1] = b.mem[br + (k - 1)]
      BY <2>5, <3>1
    <3>4. ~((ar + br) + k <= b.aSize) /\ b.bPtr + ((ar + br) + k) - b.aSize - 1 = br + (k - 1)
      <4>1. b.bPtr = 0 /\ ar = b.aSize /\ b.aSize \in Nat /\ br \in Nat
        BY <1>1, <1>2, <2>1
      <4>2. k \in Int /\ k >= 1
        BY <2>3, <3>1
      <4>. QED
        BY <4>1, <4>2
    <3>. QED
      BY <3>2, <3>3, <3>4 DEF ByteAt
  <2>. QED
    BY <2>6, <2>7, <2>8
<1>7. ASSUME ~(d.aSize > 0), ~(d.bSize > 0)
      PROVE  /\ BufferOK(e)
             /\ GetStoredSize(e) = GetStoredSize(b) - (ar + br)
             /\ \A k \in 1 .. GetStoredSize(e) : ByteAt(e, k) = ByteAt(b, (ar + br) + k)
  <2>1. d.aSize = 0 /\ d.bSize = 0 /\ ar = b.aSize /\ br = b.bSize
    BY <1>1, <1>2, <1>7
  <2>2. e = [d EXCEPT !.aPtr = 0, !.aSize = 0, !.bPtr = Null, !.bSize = 0]
    BY <1>4, <2>1 DEF Empty
  <2>3. e = [mem |-> b.mem, aPtr |-> 0, aSize |-> 0, bPtr |-> Null, bSize |-> 0]
    BY <1>2, <2>2
  <2>4. BufferOK(e)
    BY <1>1, <2>3, CapacityAssumption
    DEF BufferOK, GetAFreeSpace, GetSpaceBeforeA, Null
  <2>5. GetStoredSize(e) = GetStoredSize(b) - (ar + br) /\ GetStoredSize(e) = 0
    BY <1>1, <2>1, <2>3 DEF GetStoredSize
  <2>. QED
    BY <2>4, <2>5
<1>. QED
  BY <1>3, <1>5, <1>6, <1>7 DEF e, ar, br

(***************************************************************************)
(* A write, refused or not, leaves the bytes a reader has still to get     *)
(* where they are, and region A where it is.                               *)
(***************************************************************************)
LEMMA WriteAppends ==
  ASSUME NEW b, BufferOK(b), NEW n \in Nat, NEW data \in [1 .. n -> Byte]
  PROVE  LET e == Write(b, data)
         IN  /\ e.aPtr = b.aPtr
             /\ b.aSize > 0 => e.aSize >= b.aSize
             /\ \A i \in 0 .. b.aSize - 1 : e.mem[b.aPtr + i] = b.mem[b.aPtr + i]
             /\ \/ /\ GetStoredSize(e) = GetStoredSize(b)
                   /\ e.aSize = b.aSize /\ e.mem = b.mem
                   /\ e.bPtr = b.bPtr \/ b.bSize = 0
                   /\ e.bSize = b.bSize
                \/ GetStoredSize(e) = GetStoredSize(b) + n
             /\ \A k \in 1 .. GetStoredSize(b) : ByteAt(e, k) = ByteAt(b, k)
<1> DEFINE c == AfterSizing(b)
           e == Write(b, data)
           at == WrittenAt(b)
           mem == [i \in 0 .. Capacity - 1 |->
                     IF i \in at .. at + n - 1 THEN data[i - at + 1] ELSE b.mem[i]]
<1>1. /\ b.aSize \in Nat /\ b.bSize \in Nat /\ b.aPtr \in Nat /\ b.bPtr \in {Null, 0}
      /\ b.aPtr + b.aSize <= Capacity /\ b.bSize <= b.aPtr /\ Capacity \in Nat
      /\ b.bSize > 0 => b.bPtr = 0
      /\ b.aSize = 0 => b.bSize = 0
  BY CapacityAssumption DEF BufferOK
<1>2. /\ c.mem = b.mem /\ c.aPtr = b.aPtr /\ c.aSize = b.aSize /\ c.bSize = b.bSize
      /\ c.bPtr \in {Null, 0}
  BY AfterSizingOK, AfterSizingKeeps DEF BufferOK
<1>3. /\ b.bPtr # Null => c.bPtr = b.bPtr
      /\ c.bPtr = Null => b.bPtr = Null
  BY DEF AfterSizing, AllocateB, BufferOK, Null
<1>4. CASE FreeSpace(b) < Len(data)
  <2>1. e = c
    BY <1>4 DEF Write
  <2>. HIDE DEF c, e
  <2>2. \A k \in 1 .. GetStoredSize(b) : ByteAt(e, k) = ByteAt(b, k)
    <3>. TAKE k \in 1 .. GetStoredSize(b)
    <3>1. CASE k <= b.aSize
      BY <1>2, <2>1, <3>1 DEF ByteAt
    <3>2. CASE ~(k <= b.aSize)
      <4>1. b.bSize > 0
        BY <1>1, <3>2 DEF GetStoredSize
      <4>2. b.bPtr # Null
        BY <1>1, <4>1 DEF Null
      <4>. QED
        BY <1>2, <1>3, <2>1, <4>2 DEF ByteAt
    <3>. QED
      BY <3>1, <3>2
  <2>3. e.bPtr = b.bPtr \/ b.bSize = 0
    BY <1>1, <1>3, <2>1 DEF Null
  <2>. QED
    BY <1>1, <1>2, <2>1, <2>2, <2>3 DEF GetStoredSize, e
<1>5. CASE ~(FreeSpace(b) < Len(data))
  <2>1. /\ e = [mem |-> mem, aPtr |-> b.aPtr,
                aSize |-> IF c.bPtr = Null THEN b.aSize + n ELSE b.aSize,
                bPtr |-> c.bPtr,
                bSize |-> IF c.bPtr = Null THEN b.bSize ELSE b.bSize + n]
        /\ c.bPtr = Null => b.aPtr + b.aSize + n <= Capacity
        /\ c.bPtr # Null => b.bSize + n <= b.aPtr
    BY <1>5, WriteFits
  <2>2. at = IF c.bPtr = Null THEN b.aPtr + b.aSize ELSE b.bSize
    BY DEF WrittenAt
  <2>3. \A i \in 0 .. Capacity - 1 : i \notin at .. at + n - 1 => mem[i] = b.mem[i]
    OBVIOUS
  <2>. HIDE DEF c, e, at, mem
  <2>4. \A i \in 0 .. b.aSize - 1 : mem[b.aPtr + i] = b.mem[b.aPtr + i]
    <3>. TAKE i \in 0 .. b.aSize - 1
    <3>1. b.aPtr + i \in 0 .. Capacity - 1 /\ b.aPtr + i \notin at .. at + n - 1
      <4>1. i \in Nat /\ i < b.aSize /\ b.aPtr + i < b.aPtr + b.aSize
        BY <1>1
      <4>2. CASE c.bPtr = Null
        BY <1>1, <2>2, <4>1, <4>2
      <4>3. CASE c.bPtr # Null
        <5>1. at = b.bSize /\ at + n <= b.aPtr
          BY <2>1, <2>2, <4>3
        <5>. QED
          BY <1>1, <4>1, <5>1, SMTT(60)
      <4>. QED
        BY <4>2, <4>3
    <3>. QED
      BY <2>3, <3>1
  <2>5. \A i \in 0 .. b.bSize - 1 : mem[i] = b.mem[i] /\ c.bPtr = b.bPtr /\ b.bPtr = 0
    <3>. TAKE i \in 0 .. b.bSize - 1
    <3>1. b.bSize > 0 /\ b.bPtr = 0 /\ c.bPtr = b.bPtr
      BY <1>1, <1>3 DEF Null
    <3>2. i \in 0 .. Capacity - 1 /\ i \notin at .. at + n - 1
      BY <1>1, <2>2, <3>1 DEF Null
    <3>. QED
      BY <2>3, <3>1, <3>2
  <2>6. \A k \in 1 .. GetStoredSize(b) : ByteAt(e, k) = ByteAt(b, k)
    <3>. TAKE k \in 1 .. GetStoredSize(b)
    <3>0. k \in Nat /\ k >= 1 /\ k <= b.aSize + b.bSize
      BY <1>1 DEF GetStoredSize
    <3>1. CASE k <= b.aSize
      <4>1. k - 1 \in 0 .. b.aSize - 1 /\ b.aPtr + k - 1 = b.aPtr + (k - 1)
        BY <1>1, <3>0, <3>1
      <4>2. mem[b.aPtr + k - 1] = b.mem[b.aPtr + k - 1]
        BY <2>4, <4>1
      <4>3. k <= e.aSize /\ e.aPtr = b.aPtr /\ e.mem = mem
        BY <1>1, <2>1, <3>0, <3>1
      <4>. QED
        BY <3>1, <4>2, <4>3 DEF ByteAt
    <3>2. CASE ~(k <= b.aSize)
      <4>1. k - b.aSize - 1 \in 0 .. b.bSize - 1
        BY <1>1, <3>0, <3>2
      <4>2. c.bPtr = b.bPtr /\ b.bPtr = 0 /\ mem[k - b.aSize - 1] = b.mem[k - b.aSize - 1]
        BY <2>5, <4>1
      <4>3. e.mem = mem /\ e.aSize = b.aSize /\ e.bPtr = 0
        BY <2>1, <4>2 DEF Null
      <4>4. 0 + k - b.aSize - 1 = k - b.aSize - 1
        BY <1>1, <3>0
      <4>. QED
        BY <3>2, <4>2, <4>3, <4>4 DEF ByteAt
    <3>. QED
      BY <3>1, <3>2
  <2>7. GetStoredSize(e) = GetStoredSize(b) + n
    BY <1>1, <2>1 DEF GetStoredSize
  <2>8. e.aPtr = b.aPtr /\ e.aSize >= b.aSize /\ e.mem = mem
    BY <1>1, <2>1
  <2>. QED
    BY <2>4, <2>6, <2>7, <2>8 DEF e
<1>. QED
  BY <1>4, <1>5

(***************************************************************************)
(* A write goes to one region: when it is refused both keep their sizes,   *)
(* otherwise one of them does, and the data come behind what was stored.   *)
(***************************************************************************)
LEMMA WriteRefused ==
  ASSUME NEW b, BufferOK(b), NEW data, FreeSpace(b) < Len(data)
  PROVE  Write(b, data).aSize = b.aSize /\ Write(b, data).bSize = b.bSize
BY AfterSizingKeeps DEF Write

LEMMA WriteCommits ==
  ASSUME NEW b, BufferOK(b), NEW n \in Nat, NEW data \in [1 .. n -> Byte],
         ~(FreeSpace(b) < Len(data))
  PROVE  LET e == Write(b, data)
         IN  /\ e.aSize + e.bSize = (b.aSize + b.bSize) + n
             /\ e.aSize = b.aSize \/ e.bSize = b.bSize
             /\ \A k \in 1 .. n : ByteAt(e, (b.aSize + b.bSize) + k) = data[k]
<1> DEFINE c == AfterSizing(b)
           e == Write(b, data)
           at == WrittenAt(b)
           mem == [i \in 0 .. Capacity - 1 |->
                     IF i \in at .. at + n - 1 THEN data[i - at + 1] ELSE b.mem[i]]
<1>1. /\ b.aSize \in Nat /\ b.bSize \in Nat /\ b.aPtr \in Nat /\ b.bPtr \in {Null, 0}
      /\ b.aPtr + b.aSize <= Capacity /\ b.bSize <= b.aPtr /\ Capacity \in Nat
      /\ b.bPtr = Null => b.bSize = 0
  BY CapacityAssumption DEF BufferOK
<1>2. c.bPtr \in {Null, 0}
  BY AfterSizingOK DEF BufferOK
<1>3. c.bPtr = Null => b.bPtr = Null
  BY DEF AfterSizing, AllocateB, BufferOK, Null
<1>4. /\ e = [mem |-> mem, aPtr |-> b.aPtr,
              aSize |-> IF c.bPtr = Null THEN b.aSize + n ELSE b.aSize,
              bPtr |-> c.bPtr,
              bSize |-> IF c.bPtr = Null THEN b.bSize ELSE b.bSize + n]
      /\ c.bPtr = Null => b.aPtr + b.aSize + n <= Capacity
      /\ c.bPtr # Null => b.bSize + n <= b.aPtr
  BY WriteFits
<1>5. at = IF c.bPtr = Null THEN b.aPtr + b.aSize ELSE b.bSize
  BY DEF WrittenAt
<1>. HIDE DEF c, e, at
<1>6. at \in Nat /\ at + n <= Capacity
  BY <1>1, <1>4, <1>5
<1>7. \A k \in 1 .. n : mem[at + k - 1] = data[k]
  <2>. TAKE k \in 1 .. n
  <2>1. /\ at + k - 1 \in 0 .. Capacity - 1 /\ at + k - 1 \in at .. at + n - 1
        /\ (at + k - 1) - at + 1 = k
    BY <1>1, <1>6
  <2>. QED
    BY <2>1
<1>. HIDE DEF mem
<1>8. CASE c.bPtr = Null
  <2>1. /\ e.mem = mem /\ e.aPtr = b.aPtr /\ e.aSize = b.aSize + n
        /\ e.bSize = b.bSize /\ b.bSize = 0
    BY <1>1, <1>3, <1>4, <1>8
  <2>2. ASSUME NEW k \in 1 .. n
        PROVE  ByteAt(e, (b.aSize + b.bSize) + k) = data[k]
    <3>1. (b.aSize + b.bSize) + k <= e.aSize
      BY <1>1, <2>1
    <3>2. e.aPtr + ((b.aSize + b.bSize) + k) - 1 = at + k - 1
      BY <1>1, <1>5, <1>8, <2>1
    <3>. QED
      BY <1>7, <2>1, <3>1, <3>2 DEF ByteAt
  <2>. QED
    BY <1>1, <2>1, <2>2 DEF e
<1>9. CASE c.bPtr # Null
  <2>1. /\ e.mem = mem /\ e.bPtr = 0 /\ e.aSize = b.aSize /\ e.bSize = b.bSize + n
    BY <1>2, <1>4, <1>9
  <2>2. ASSUME NEW k \in 1 .. n
        PROVE  ByteAt(e, (b.aSize + b.bSize) + k) = data[k]
    <3>1. ~((b.aSize + b.bSize) + k <= e.aSize)
      BY <1>1, <2>1
    <3>2. e.bPtr + ((b.aSize + b.bSize) + k) - e.aSize - 1 = at + k - 1
      BY <1>1, <1>5, <1>9, <2>1, SMTT(60)
    <3>. QED
      BY <1>7, <2>1, <3>1, <3>2 DEF ByteAt
  <2>. QED
    BY <1>1, <2>1, <2>2 DEF e
<1>. QED
  BY <1>8, <1>9

(* A removal from A leaves B alone, unless A drains: then B becomes A. *)
LEMMA RemoveFromA ==
  ASSUME NEW b, BufferOK(b), NEW len \in 1 .. b.aSize
  PROVE  LET e == Remove(b, len)
         IN  /\ Removed(b, len) = len
             /\ len < b.aSize => e.aSize = b.aSize - len /\ e.bSize = b.bSize
             /\ len = b.aSize => e.aSize = b.bSize /\ e.bSize = 0
<1> DEFINE d == Drop(b, len)
           e == Remove(b, len)
<1>1. b.aSize \in Nat /\ b.bSize \in Nat /\ len \in Nat /\ len <= b.aSize
  BY CapacityAssumption DEF BufferOK
<1>2. ARemove(b, len) = len /\ BRemove(b, len) = 0
  BY <1>1 DEF ARemove, BRemove, Min2
<1>3. d = [mem |-> b.mem, aPtr |-> b.aPtr + ARemove(b, len),
           aSize |-> b.aSize - ARemove(b, len),
           bPtr |-> b.bPtr + BRemove(b, len), bSize |-> b.bSize - BRemove(b, len)]
  BY <1>1, DropFromAThenB
<1>. HIDE DEF d
<1>4. d.aSize = b.aSize - len /\ d.bSize = b.bSize
  BY <1>1, <1>2, <1>3
<1>5. /\ d.aSize > 0 => e = d
      /\ d.aSize = 0 /\ d.bSize > 0 => e = SwitchToB(d)
      /\ d.aSize = 0 /\ d.bSize = 0 => e = Empty(d)
  BY DEF Remove, d
<1>6. Removed(b, len) = len
  BY <1>1, <1>2 DEF Removed
<1>7. CASE len < b.aSize
  BY <1>1, <1>4, <1>5, <1>6, <1>7
<1>8. CASE len = b.aSize /\ b.bSize > 0
  BY <1>1, <1>4, <1>5, <1>6, <1>8 DEF SwitchToB
<1>9. CASE len = b.aSize /\ b.bSize = 0
  <2>1. e = [d EXCEPT !.aPtr = 0, !.aSize = 0, !.bPtr = Null, !.bSize = 0]
    BY <1>1, <1>4, <1>5, <1>9 DEF Empty
  <2>2. e.aSize = 0 /\ e.bSize = 0
    BY <1>3, <2>1
  <2>. QED
    BY <1>1, <1>6, <1>9, <2>2 DEF e
<1>. QED
  BY <1>1, <1>7, <1>8, <1>9

(* CircularBuffer::BufferReset yields a well-formed buffer. *)
LEMMA BufferResetOK ==
  ASSUME NEW b, BufferOK(b)
  PROVE  /\ BufferOK(BufferReset(b))
         /\ BufferReset(b).aSize = 0 /\ BufferReset(b).bSize = 0
<1> DEFINE mem == [i \in 0 .. Capacity - 1 |-> Zero]
<1>1. mem \in [0 .. Capacity - 1 -> Byte]
  BY ByteAssumption
<1>2. BufferReset(b) = [mem |-> mem, aPtr |-> 0, aSize |-> 0, bPtr |-> Null, bSize |-> 0]
  <2> DEFINE e == Empty(b)
  <2>1. e = [mem |-> b.mem, aPtr |-> 0, aSize |-> 0, bPtr |-> Null, bSize |-> 0]
    <3>1. e = [b EXCEPT !.aPtr = 0, !.aSize = 0, !.bPtr = Null, !.bSize = 0]
      BY DEF Empty
    <3>. HIDE DEF e
    <3>. QED
      BY <3>1 DEF BufferOK
  <2>2. BufferReset(b) = [e EXCEPT !.mem = mem]
    BY DEF BufferReset
  <2>. HIDE DEF e, mem
  <2>. QED
    BY <2>1, <2>2
<1>. HIDE DEF mem
<1>. QED
  BY <1>1, <1>2, CapacityAssumption
  DEF BufferOK, GetAFreeSpace, GetSpaceBeforeA, Null

-----------------------------------------------------------------------------
(***************************************************************************)
(* The inductive invariant: BufferOK holds of a new buffer and every       *)
(* operation keeps it.                                                     *)
(***************************************************************************)
LEMMA BufferAlwaysOK == Spec => []BufferOK(buf)
<1>1. Init => BufferOK(buf)
  <2>. SUFFICES ASSUME NEW mem \in [0 .. Capacity - 1 -> Byte], buf = Fresh(mem)
                PROVE  BufferOK(buf)
    BY DEF Init
  <2>. QED
    BY CapacityAssumption
    DEF Fresh, BufferOK, GetAFreeSpace, GetSpaceBeforeA, Null
<1>2. BufferOK(buf) /\ [Next]_buf => BufferOK(buf)'
  <2>. SUFFICES ASSUME BufferOK(buf), [Next]_buf
                PROVE  BufferOK(buf')
    BY DEF BufferOK, GetAFreeSpace, GetSpaceBeforeA
  <2>1. ASSUME NEW n \in 1 .. Capacity, NEW data \in [1 .. n -> Byte], Put(data)
        PROVE  BufferOK(buf')
    BY <2>1, WriteOK DEF Put
  <2>2. ASSUME NEW len \in 1 .. Capacity + 1, Take(len)
        PROVE  BufferOK(buf')
    BY <2>2, RemoveOK DEF Take
  <2>3. CASE Reset
    BY <2>3, BufferResetOK DEF Reset
  <2>4. CASE UNCHANGED buf
    BY <2>4
  <2>. QED
    BY <2>1, <2>2, <2>3, <2>4 DEF Next
<1>. QED
  BY <1>1, <1>2, PTL DEF Spec

(* The fields of a buffer always have their types (CircularBuffer.h). *)
THEOREM TypeCorrect == Spec => []TypeOK
<1>1. BufferOK(buf) => TypeOK
  BY DEF BufferOK, TypeOK
<1>. QED
  BY <1>1, BufferAlwaysOK, PTL

(***************************************************************************)
(* Regions A and B stay inside the memory and never overlap, whatever is   *)
(* written and removed, for every capacity.                                *)
(***************************************************************************)
THEOREM RegionsNeverOverlap == Spec => []RegionsOK
<1>1. BufferOK(buf) => RegionsOK
  BY DEF BufferOK, RegionsOK, TypeOK
<1>. QED
  BY <1>1, BufferAlwaysOK, PTL

(***************************************************************************)
(* GetFreeSpaceSize never says "full" of a buffer that is half empty.      *)
(***************************************************************************)
THEOREM RefusalNeedsHalfFull == Spec => []RefusedOnlyWhenHalfFull
<1>1. ASSUME BufferOK(buf)
      PROVE  RefusedOnlyWhenHalfFull
  <2> DEFINE c == AfterSizing(buf)
  <2>1. c.aPtr = buf.aPtr /\ c.aSize = buf.aSize /\ c.bSize = buf.bSize
    BY <1>1, AfterSizingKeeps
  <2>2. BufferOK(c)
    BY <1>1, AfterSizingOK
  <2>3. /\ c.bPtr = Null => FreeSpace(buf) = Capacity - buf.aPtr - buf.aSize
        /\ c.bPtr # Null => FreeSpace(buf) = buf.aPtr - buf.bSize
    BY <1>1, FreeSpaceFits
  <2>4. c.bPtr = Null => ~(GetAFreeSpace(c) < GetSpaceBeforeA(c))
    BY <1>1 DEF BufferOK, AfterSizing, AllocateB, Null
  <2>. HIDE DEF c
  <2>5. /\ c.aPtr \in Nat /\ c.aSize \in Nat /\ c.bSize \in Nat /\ c.bPtr \in {Null, 0}
        /\ Capacity \in Nat \ {0}
        /\ c.bPtr # Null => Capacity - c.aPtr - c.aSize < c.aPtr
    BY <2>2, CapacityAssumption DEF BufferOK, GetAFreeSpace, GetSpaceBeforeA
  <2>6. ASSUME FreeSpace(buf) = 0
        PROVE  2 * (buf.aSize + buf.bSize) > Capacity
    <3>1. CASE c.bPtr = Null
      BY <2>1, <2>3, <2>4, <2>5, <2>6, <3>1 DEF GetAFreeSpace, GetSpaceBeforeA
    <3>2. CASE c.bPtr # Null
      BY <2>1, <2>3, <2>5, <2>6, <3>2
    <3>. QED
      BY <3>1, <3>2
  <2>. QED
    BY <2>6 DEF RefusedOnlyWhenHalfFull, GetStoredSize
<1>. QED
  BY <1>1, BufferAlwaysOK, PTL

(***************************************************************************)
(* Refinement, for every capacity and every set of bytes: what PostSend    *)
(* and a completed send do to the two regions is what a bounded FIFO queue *)
(* does, the move of region B included.                                    *)
(***************************************************************************)
THEOREM ImplementsByteQueue == Spec => IsByteQueue
<1>1. Init => Queue!Init
  <2>. SUFFICES ASSUME NEW mem \in [0 .. Capacity - 1 -> Byte], buf = Fresh(mem)
                PROVE  Contents(buf) = <<>>
    BY DEF Init, Queue!Init
  <2>1. buf.aSize = 0 /\ buf.bSize = 0
    BY DEF Fresh
  <2>. QED
    BY <2>1 DEF Contents
<1>2. BufferOK(buf) /\ BufferOK(buf)' /\ [Next]_buf => [Queue!Next]_(Contents(buf))
  <2>. SUFFICES ASSUME BufferOK(buf), BufferOK(buf'), [Next]_buf
                PROVE  Queue!Next \/ Contents(buf') = Contents(buf)
    BY DEF BufferOK, GetAFreeSpace, GetSpaceBeforeA, Contents
  <2> DEFINE q == Contents(buf)
             r == Contents(buf')
  <2>1. /\ q \in Seq(Byte) /\ Len(q) = GetStoredSize(buf)
        /\ GetStoredSize(buf) \in 0 .. Capacity
        /\ \A k \in 1 .. GetStoredSize(buf) : q[k] = ByteAt(buf, k)
    BY ContentsByByte
  <2>2. /\ r \in Seq(Byte) /\ Len(r) = GetStoredSize(buf')
        /\ GetStoredSize(buf') \in 0 .. Capacity
        /\ \A k \in 1 .. GetStoredSize(buf') : r[k] = ByteAt(buf', k)
    BY ContentsByByte
  <2>3. ASSUME NEW n \in 1 .. Capacity, NEW data \in [1 .. n -> Byte], Put(data)
        PROVE  Queue!Next \/ r = q
    <3>1. /\ \/ GetStoredSize(buf') = GetStoredSize(buf)
             \/ GetStoredSize(buf') = GetStoredSize(buf) + n
          /\ \A k \in 1 .. GetStoredSize(buf) : ByteAt(buf', k) = ByteAt(buf, k)
      BY <2>3, WriteAppends DEF Put
    <3>. HIDE DEF q, r
    <3>2. CASE GetStoredSize(buf') = GetStoredSize(buf)
      <4>1. Len(r) = Len(q) /\ \A k \in 1 .. Len(q) : r[k] = q[k]
        BY <2>1, <2>2, <3>1, <3>2
      <4>. QED
        BY <2>1, <2>2, <4>1
    <3>3. CASE GetStoredSize(buf') = GetStoredSize(buf) + n
      <4>1. Len(r) > Len(q) /\ Len(r) <= Capacity /\ Len(q) \in Nat
        BY <2>1, <2>2, <3>3, CapacityAssumption
      <4>2. \A k \in 1 .. Len(q) : r[k] = q[k]
        BY <2>1, <2>2, <3>1, <3>3
      <4>3. SubSeq(r, 1, Len(q)) = SubSeq(q, 1, Len(q))
        BY <2>1, <2>2, <4>1, <4>2
      <4>4. Queue!IsStrictPrefix(q, r)
        BY <2>1, <2>2, <4>1, <4>3 DEF Queue!IsStrictPrefix, Queue!IsPrefix
      <4>. QED
        BY <4>1, <4>4 DEF Queue!Next, Queue!Put, q, r
    <3>. QED
      BY <3>1, <3>2, <3>3
  <2>4. ASSUME NEW len \in 1 .. Capacity + 1, Take(len)
        PROVE  Queue!Next \/ r = q
    <3> DEFINE m == Removed(buf, len)
    <3>1. /\ GetStoredSize(buf') = GetStoredSize(buf) - m
          /\ \A k \in 1 .. GetStoredSize(buf') : ByteAt(buf', k) = ByteAt(buf, m + k)
      BY <2>4, RemoveOK DEF Take
    <3>2. m \in Nat /\ (GetStoredSize(buf) > 0 => m \in 1 .. Len(q))
      <4>1. /\ m \in Nat /\ m <= GetStoredSize(buf)
            /\ GetStoredSize(buf) > 0 => m > 0
        BY RemovedSize, CapacityAssumption
      <4>. HIDE DEF m, q
      <4>. QED
        BY <2>1, <4>1
    <3>. HIDE DEF m, q, r
    <3>3. Len(r) = Len(q) - m /\ \A k \in 1 .. Len(r) : r[k] = q[m + k]
      BY <2>1, <2>2, <3>1, <3>2
    <3>4. CASE GetStoredSize(buf) = 0
      BY <2>1, <2>2, <3>2, <3>3, <3>4
    <3>5. CASE GetStoredSize(buf) > 0
      <4>1. r = SubSeq(q, m + 1, Len(q))
        BY <2>1, <2>2, <3>2, <3>3, <3>5
      <4>. QED
        BY <3>2, <3>5, <4>1 DEF Queue!Next, Queue!Take, q, r
    <3>. QED
      BY <2>1, <3>4, <3>5
  <2>5. CASE Reset
    <3>1. buf'.aSize = 0 /\ buf'.bSize = 0
      BY <2>5 DEF Reset, BufferReset, Empty, BufferOK
    <3>2. r = <<>>
      BY <3>1 DEF Contents
    <3>. QED
      BY <3>2 DEF Queue!Next, Queue!Clear
  <2>6. CASE UNCHANGED buf
    BY <2>6
  <2>. QED
    BY <2>3, <2>4, <2>5, <2>6 DEF Next
<1>. QED
  BY <1>1, <1>2, BufferAlwaysOK, PTL DEF Spec, IsByteQueue, Queue!Spec

(***************************************************************************)
(* The bytes FlushSend gave to the kernel stay where they are until the    *)
(* completion of that send removes them.                                   *)
(***************************************************************************)
THEOREM PinnedRegionStays == Spec => PinnedRegionUntouched
<1> DEFINE Pinned ==
      GetStoredSize(buf') >= GetStoredSize(buf) /\ GetStoredSize(buf) > 0
        => /\ GetBufferStart(buf') = GetBufferStart(buf)
           /\ \A i \in 0 .. GetContiguiousBytes(buf) - 1 :
                buf'.mem[GetBufferStart(buf) + i] = buf.mem[GetBufferStart(buf) + i]
<1>1. BufferOK(buf) /\ [Next]_buf => [Pinned]_buf
  <2>. SUFFICES ASSUME BufferOK(buf), Next,
                       GetStoredSize(buf') >= GetStoredSize(buf), GetStoredSize(buf) > 0
                PROVE  /\ GetBufferStart(buf') = GetBufferStart(buf)
                       /\ \A i \in 0 .. GetContiguiousBytes(buf) - 1 :
                            buf'.mem[GetBufferStart(buf) + i]
                              = buf.mem[GetBufferStart(buf) + i]
    OBVIOUS
  <2>1. /\ buf.aSize \in Nat /\ buf.bSize \in Nat /\ buf.aSize > 0
        /\ GetBufferStart(buf) = buf.aPtr /\ GetContiguiousBytes(buf) = buf.aSize
    BY CapacityAssumption
    DEF BufferOK, GetStoredSize, GetBufferStart, GetContiguiousBytes
  <2>2. ASSUME NEW n \in 1 .. Capacity, NEW data \in [1 .. n -> Byte], Put(data)
        PROVE  /\ buf'.aPtr = buf.aPtr /\ buf'.aSize > 0
               /\ \A i \in 0 .. buf.aSize - 1 :
                    buf'.mem[buf.aPtr + i] = buf.mem[buf.aPtr + i]
    <3>1. /\ buf'.aPtr = buf.aPtr /\ buf'.aSize >= buf.aSize
          /\ \A i \in 0 .. buf.aSize - 1 :
               buf'.mem[buf.aPtr + i] = buf.mem[buf.aPtr + i]
          /\ BufferOK(buf')
      BY <2>1, <2>2, WriteAppends, WriteOK DEF Put
    <3>2. buf'.aSize \in Nat
      BY <3>1, CapacityAssumption DEF BufferOK
    <3>. QED
      BY <2>1, <3>1, <3>2
  <2>3. ASSUME NEW len \in 1 .. Capacity + 1, Take(len)
        PROVE  FALSE
    <3>1. GetStoredSize(buf') = GetStoredSize(buf) - Removed(buf, len)
      BY <2>3, RemoveOK DEF Take
    <3>2. Removed(buf, len) \in Nat /\ Removed(buf, len) > 0
      BY RemovedSize, CapacityAssumption
    <3>. QED
      BY <2>1, <3>1, <3>2 DEF GetStoredSize
  <2>4. CASE Reset
    <3>1. buf'.aSize = 0 /\ buf'.bSize = 0
      BY <2>4 DEF Reset, BufferReset, Empty, BufferOK
    <3>. QED
      BY <2>1, <3>1 DEF GetStoredSize
  <2>. QED
    BY <2>1, <2>2, <2>3, <2>4 DEF Next, GetBufferStart
<1>. QED
  BY <1>1, BufferAlwaysOK, PTL DEF Spec, PinnedRegionUntouched

=============================================================================
