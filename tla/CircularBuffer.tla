--------------------------- MODULE CircularBuffer ---------------------------
(***************************************************************************)
(* The two-region ("bip") buffer every session keeps for what it receives  *)
(* and for what it has still to send (CircularBuffer.h, CircularBuffer.cpp *)
(* of EduServer_IOCP).  Region A holds the oldest bytes.  When the space   *)
(* left of A is larger than the space right of it a second region, B, is   *)
(* opened at the start of the memory, and when A drains B becomes A.       *)
(*                                                                         *)
(* Pointers are offsets from mBuffer and mBRegionPointer = nullptr is      *)
(* Null.  A buffer is a record, so that a caller which runs several        *)
(* operations under one lock composes the operators; the actions below run *)
(* them the way Session does.                                              *)
(***************************************************************************)
EXTENDS Integers, Sequences

CONSTANTS Capacity,   (* mCapacity, in bytes                       *)
          Byte,       (* the values a stored byte can take         *)
          Zero        (* the byte BufferReset fills the memory with *)

ASSUME CapacityAssumption == Capacity \in Nat \ {0}
ASSUME ByteAssumption == Zero \in Byte

VARIABLE buf

Null == -1

Min2(m, n) == IF m < n THEN m ELSE n

(***************************************************************************)
(* Queries.                                                                *)
(***************************************************************************)
GetAFreeSpace(b) == Capacity - b.aPtr - b.aSize

GetSpaceBeforeA(b) == b.aPtr

(* Mutant: the size of B's free space is off by one. *)
GetBFreeSpaceOffByOne(b) == IF b.bPtr = Null THEN 0 ELSE b.aPtr - b.bPtr - b.bSize + 1

GetBFreeSpace(b) == IF b.bPtr = Null THEN 0 ELSE b.aPtr - b.bPtr - b.bSize

GetStoredSize(b) == b.aSize + b.bSize

GetContiguiousBytes(b) == IF b.aSize > 0 THEN b.aSize ELSE b.bSize

GetBufferStart(b) == IF b.aSize > 0 THEN b.aPtr ELSE b.bPtr

(* Where the next byte is written. *)
GetBuffer(b) == IF b.bPtr # Null THEN b.bPtr + b.bSize ELSE b.aPtr + b.aSize

(***************************************************************************)
(* GetFreeSpaceSize is not a query: when it finds more room before A than  *)
(* after it, it opens region B.  AfterSizing is the buffer it leaves and   *)
(* FreeSpace the size it returns.                                          *)
(***************************************************************************)
AllocateB(b) == [b EXCEPT !.bPtr = 0]

(* Mutant: B is opened as soon as there is any room before A. *)
AfterSizingEager(b) ==
  IF b.bPtr = Null /\ GetSpaceBeforeA(b) > 0 THEN AllocateB(b) ELSE b

(* Mutant: A is moved to the start of the memory instead of opening B. *)
AfterSizingCompacts(b) ==
  IF b.bPtr = Null /\ GetAFreeSpace(b) < GetSpaceBeforeA(b)
  THEN [b EXCEPT !.mem = [i \in 0 .. Capacity - 1 |->
                            IF i < b.aSize THEN b.mem[b.aPtr + i] ELSE b.mem[i]],
                 !.aPtr = 0]
  ELSE b

AfterSizing(b) ==
  IF b.bPtr = Null /\ GetAFreeSpace(b) < GetSpaceBeforeA(b)
  THEN AllocateB(b)
  ELSE b

FreeSpace(b) ==
  LET c == AfterSizing(b)
  IN  IF c.bPtr # Null THEN GetBFreeSpace(c) ELSE GetAFreeSpace(c)

(***************************************************************************)
(* Updates.                                                                *)
(***************************************************************************)
(* The caller's memcpy to GetBuffer(). *)
Copy(b, data) ==
  LET at == GetBuffer(b)
  IN  [b EXCEPT !.mem = [i \in 0 .. Capacity - 1 |->
                           IF i \in at .. at + Len(data) - 1
                           THEN data[i - at + 1] ELSE b.mem[i]]]

Commit(b, len) ==
  IF b.bPtr # Null THEN [b EXCEPT !.bSize = @ + len]
                   ELSE [b EXCEPT !.aSize = @ + len]

(* Bytes are dropped from A first, then from B. *)
Drop(b, len) ==
  LET aRemove == Min2(len, b.aSize)
      bRemove == Min2(len - aRemove, b.bSize)
  IN  [b EXCEPT !.aSize = @ - aRemove, !.aPtr = @ + aRemove,
                !.bSize = @ - bRemove, !.bPtr = @ + bRemove]

(* Mutant: the memmove is forgotten. *)
SwitchToBNoMove(b) ==
  [mem |-> b.mem, aPtr |-> 0, aSize |-> b.bSize, bPtr |-> Null, bSize |-> 0]

(* Region B is moved to the start of the memory (memmove) and becomes A. *)
SwitchToB(b) ==
  [mem   |-> [i \in 0 .. Capacity - 1 |->
                IF i < b.bSize THEN b.mem[b.bPtr + i] ELSE b.mem[i]],
   aPtr  |-> 0, aSize |-> b.bSize, bPtr |-> Null, bSize |-> 0]

Empty(b) == [b EXCEPT !.aPtr = 0, !.aSize = 0, !.bPtr = Null, !.bSize = 0]

Remove(b, len) ==
  LET d == Drop(b, len)
  IN  CASE d.aSize > 0                -> d
        [] d.aSize = 0 /\ d.bSize > 0 -> SwitchToB(d)
        [] d.aSize = 0 /\ d.bSize = 0 -> Empty(d)

BufferReset(b) == [Empty(b) EXCEPT !.mem = [i \in 0 .. Capacity - 1 |-> Zero]]

-----------------------------------------------------------------------------
(* A buffer fresh from the constructor: new char[] leaves the memory as is. *)
Fresh(mem) == [mem |-> mem, aPtr |-> 0, aSize |-> 0, bPtr |-> Null, bSize |-> 0]

Init == \E mem \in [0 .. Capacity - 1 -> Byte] : buf = Fresh(mem)

(***************************************************************************)
(* A write as PostSend does it: the size check (which may open B even when *)
(* the write is then refused), the copy, the commit.                       *)
(***************************************************************************)
Write(b, data) ==
  IF FreeSpace(b) < Len(data)
  THEN AfterSizing(b)
  ELSE Commit(Copy(AfterSizing(b), data), Len(data))

Put(data) == buf' = Write(buf, data)

(* What SendCompletion or a packet handler consumes; len may exceed A. *)
Take(len) == buf' = Remove(buf, len)

Reset == buf' = BufferReset(buf)

Next ==
  \/ \E n \in 1 .. Capacity : \E data \in [1 .. n -> Byte] : Put(data)
  \/ \E len \in 1 .. Capacity + 1 : Take(len)
  \/ Reset

Spec == Init /\ [][Next]_buf

-----------------------------------------------------------------------------
TypeOK ==
  buf \in [mem : [0 .. Capacity - 1 -> Byte], aPtr : 0 .. Capacity,
           aSize : 0 .. Capacity, bPtr : {Null, 0}, bSize : 0 .. Capacity]

(***************************************************************************)
(* Region geometry.  Both regions lie inside the memory and never overlap, *)
(* so the size_t subtractions of the GetXxxFreeSpace functions never wrap  *)
(* and a commit of at most FreeSpace bytes stays in bounds; A is only      *)
(* empty when the whole buffer is, so readers never have to look at B.     *)
(***************************************************************************)
RegionsOK ==
  /\ TypeOK
  /\ buf.aPtr + buf.aSize <= Capacity
  /\ buf.bSize <= buf.aPtr
  /\ buf.bPtr = Null => buf.bSize = 0
  /\ buf.aSize = 0 => buf.bPtr = Null /\ buf.aPtr = 0

(***************************************************************************)
(* A write of a single byte is refused only when the buffer is more than   *)
(* half full: opening B too early or forgetting to close it would strand   *)
(* free memory and make PostSend fail, or PostRecv disconnect the client,  *)
(* with an almost empty buffer.                                            *)
(***************************************************************************)
RefusedOnlyWhenHalfFull == FreeSpace(buf) = 0 => 2 * GetStoredSize(buf) > Capacity

(***************************************************************************)
(* FlushSend hands the kernel GetBufferStart() and GetContiguiousBytes()   *)
(* and the kernel reads that memory until the send completes.  While       *)
(* nothing is removed, writers must leave those bytes where they are.      *)
(***************************************************************************)
PinnedRegionUntouched ==
  [][GetStoredSize(buf') >= GetStoredSize(buf) /\ GetStoredSize(buf) > 0
       => /\ GetBufferStart(buf') = GetBufferStart(buf)
          /\ \A i \in 0 .. GetContiguiousBytes(buf) - 1 :
               buf'.mem[GetBufferStart(buf) + i] = buf.mem[GetBufferStart(buf) + i]]_buf

(***************************************************************************)
(* Refinement: the bytes of A followed by the bytes of B are the queue.    *)
(***************************************************************************)
Contents(b) ==
  [i \in 1 .. b.aSize |-> b.mem[b.aPtr + i - 1]]
    \o [i \in 1 .. b.bSize |-> b.mem[b.bPtr + i - 1]]

Queue == INSTANCE ByteQueue WITH queue <- Contents(buf)

(* Every behaviour of the buffer is a behaviour of a bounded FIFO queue. *)
IsByteQueue == Queue!Spec
=============================================================================
