------------------------------ MODULE MemoryPool ------------------------------
(***************************************************************************)
(* The size-class allocator of HW_05_MT (MemoryPool.h, MemoryPool.cpp).    *)
(* Every block carries a header with the size it was asked for; a block of *)
(* at most MAX_ALLOC_SIZE bytes goes back to the lock-free list of its     *)
(* size class, and the header's size is zero while it is there, so that a  *)
(* block freed twice is noticed.  A pop, a push and an interlocked         *)
(* exchange or increment are one step each.                                *)
(***************************************************************************)
EXTENDS Integers, FiniteSets, Sequences

CONSTANTS PoolThreads,
          Requests,         (* the sizes the program asks for                *)
          HeaderSize,       (* sizeof(MemAllocInfo)                          *)
          MaxBlocks         (* bound: blocks the program holds or has pooled *)

RequestsAssumption ==
  /\ Requests \subseteq Nat \ {0} /\ {HeaderSize, MaxBlocks} \subseteq Nat \ {0}
  /\ IsFiniteSet(PoolThreads)

MAX_ALLOC_SIZE == 4096

MemBlocks == 1 .. MaxBlocks
NoMem     == 0

(* The pools the constructor makes, by the size of their blocks. *)
Pools == {32 * k : k \in 1 .. 31} \cup {1024 + 128 * k : k \in 0 .. 7}
         \cup {2048 + 256 * k : k \in 0 .. 8}

(* Mutant: a pool serves the sizes from its own to the next one's. *)
TableFromBelow(size) ==
  CHOOSE p \in Pools : p <= size /\ \A q \in Pools : q <= size => q <= p

(* Pool p serves the sizes from the one before it, excluded, to its own. *)
mSmallSizeMemoryPoolTable(size) ==
  CHOOSE p \in Pools : size <= p /\ \A q \in Pools : size <= q => p <= q

VARIABLES
  mFreeLists, mAllocCount,  (* of each pool                                      *)
  capacity,                 (* of each block, in bytes; 0 while it is the heap's *)
  mAllocSize,               (* in each block's header                            *)
  live,                     (* the blocks the program has                        *)
  stage, mem,               (* where each thread is, with which block ...        *)
  realAllocSize,            (* ... and for which size                            *)
  halted                    (* CRASH_ASSERT                                      *)

memoryVars == <<mFreeLists, mAllocCount, capacity, mAllocSize, live, stage, mem, realAllocSize, halted>>

MemoryInit ==
  /\ mFreeLists = [p \in Pools |-> <<>>] /\ mAllocCount = [p \in Pools |-> 0]
  /\ capacity = [b \in MemBlocks |-> 0] /\ mAllocSize = [b \in MemBlocks |-> 0]
  /\ live = {} /\ halted = FALSE
  /\ stage = [t \in PoolThreads |-> "out"] /\ mem = [t \in PoolThreads |-> NoMem]
  /\ realAllocSize = [t \in PoolThreads |-> 0]

IsAt(t, place) == ~halted /\ stage[t] = place

Move(t, place) == stage' = [stage EXCEPT ![t] = place]

Heap == {b \in MemBlocks : capacity[b] = 0}

(* What a fresh header holds is not looked at; a later Attach overwrites it. *)
AlignedMalloc(t, bytes) ==
  \E b \in Heap :
    /\ \A c \in Heap : b <= c
    /\ capacity' = [capacity EXCEPT ![b] = bytes]
    /\ mem' = [mem EXCEPT ![t] = b]

-----------------------------------------------------------------------------
(* Allocate, and Pop for the sizes that have a pool. *)
AllocateLarge(t, size) ==
  /\ IsAt(t, "out") /\ size + HeaderSize > MAX_ALLOC_SIZE
  /\ AlignedMalloc(t, size + HeaderSize)
  /\ realAllocSize' = [realAllocSize EXCEPT ![t] = size + HeaderSize]
  /\ Move(t, "attach")
  /\ UNCHANGED <<mFreeLists, mAllocCount, mAllocSize, live, halted>>

PopEmpty(t, size) ==
  LET pool == mSmallSizeMemoryPoolTable(size + HeaderSize) IN
  /\ IsAt(t, "out") /\ size + HeaderSize <= MAX_ALLOC_SIZE
  /\ mFreeLists[pool] = <<>> /\ AlignedMalloc(t, pool)
  /\ realAllocSize' = [realAllocSize EXCEPT ![t] = size + HeaderSize]
  /\ Move(t, "count")
  /\ UNCHANGED <<mFreeLists, mAllocCount, mAllocSize, live, halted>>

Pop(t, size) ==
  LET pool == mSmallSizeMemoryPoolTable(size + HeaderSize) IN
  /\ IsAt(t, "out") /\ size + HeaderSize <= MAX_ALLOC_SIZE
  /\ mFreeLists[pool] # <<>>
  /\ mem' = [mem EXCEPT ![t] = Head(mFreeLists[pool])]
  /\ mFreeLists' = [mFreeLists EXCEPT ![pool] = Tail(@)]
  /\ halted' = (mAllocSize[Head(mFreeLists[pool])] # 0)
  /\ realAllocSize' = [realAllocSize EXCEPT ![t] = size + HeaderSize]
  /\ Move(t, "count")
  /\ UNCHANGED <<mAllocCount, capacity, mAllocSize, live>>

CountUp(t) ==
  /\ IsAt(t, "count")
  /\ mAllocCount' = [mAllocCount EXCEPT ![mSmallSizeMemoryPoolTable(realAllocSize[t])] = @ + 1]
  /\ Move(t, "attach")
  /\ UNCHANGED <<mFreeLists, capacity, mAllocSize, live, mem, realAllocSize, halted>>

Back(t) == /\ Move(t, "out") /\ mem' = [mem EXCEPT ![t] = NoMem]
           /\ realAllocSize' = [realAllocSize EXCEPT ![t] = 0]

AttachMemAllocInfo(t) ==
  /\ IsAt(t, "attach")
  /\ mAllocSize' = [mAllocSize EXCEPT ![mem[t]] = realAllocSize[t]]
  /\ live' = live \cup {mem[t]} /\ Back(t)
  /\ UNCHANGED <<mFreeLists, mAllocCount, capacity, halted>>

-----------------------------------------------------------------------------
(* Deallocate, for a block the program gives up. *)
Deallocate(t, b) ==
  /\ IsAt(t, "out") /\ b \in live
  /\ live' = live \ {b} /\ mem' = [mem EXCEPT ![t] = b]
  /\ realAllocSize' = [realAllocSize EXCEPT ![t] = mAllocSize[b]]
  /\ mAllocSize' = [mAllocSize EXCEPT ![b] = 0]
  /\ halted' = (mAllocSize[b] <= 0) /\ Move(t, "release")
  /\ UNCHANGED <<mFreeLists, mAllocCount, capacity>>

AlignedFree(t) ==
  /\ IsAt(t, "release") /\ realAllocSize[t] > MAX_ALLOC_SIZE
  /\ capacity' = [capacity EXCEPT ![mem[t]] = 0] /\ Back(t)
  /\ UNCHANGED <<mFreeLists, mAllocCount, mAllocSize, live, halted>>

Push(t) ==
  LET pool == mSmallSizeMemoryPoolTable(realAllocSize[t]) IN
  /\ IsAt(t, "release") /\ realAllocSize[t] <= MAX_ALLOC_SIZE
  /\ mFreeLists' = [mFreeLists EXCEPT ![pool] = <<mem[t]>> \o @]
  /\ mem' = [mem EXCEPT ![t] = NoMem] /\ Move(t, "uncount")
  /\ UNCHANGED <<mAllocCount, capacity, mAllocSize, live, realAllocSize, halted>>

CountDown(t) ==
  /\ IsAt(t, "uncount")
  /\ mAllocCount' = [mAllocCount EXCEPT ![mSmallSizeMemoryPoolTable(realAllocSize[t])] = @ - 1]
  /\ Back(t)
  /\ UNCHANGED <<mFreeLists, capacity, mAllocSize, live, halted>>

-----------------------------------------------------------------------------
MemoryNext ==
  \E t \in PoolThreads :
    \/ \E size \in Requests : AllocateLarge(t, size) \/ PopEmpty(t, size) \/ Pop(t, size)
    \/ CountUp(t) \/ AttachMemAllocInfo(t)
    \/ \E b \in MemBlocks : Deallocate(t, b)
    \/ AlignedFree(t) \/ Push(t) \/ CountDown(t)

MemorySpec == MemoryInit /\ [][MemoryNext]_memoryVars

-----------------------------------------------------------------------------
MemoryTypeOK ==
  /\ mFreeLists \in [Pools -> Seq(MemBlocks)] /\ mAllocCount \in [Pools -> Int]
  /\ capacity \in [MemBlocks -> Nat] /\ mAllocSize \in [MemBlocks -> Nat]
  /\ live \in SUBSET MemBlocks /\ mem \in [PoolThreads -> MemBlocks \cup {NoMem}]
  /\ realAllocSize \in [PoolThreads -> Nat] /\ halted \in BOOLEAN
  /\ stage \in [PoolThreads -> {"out", "count", "attach", "release", "uncount"}]

(* The places a block can be. *)
Places(b) ==
  {<<"live", b>> : c \in {c \in live : c = b}}
  \cup {<<"thread", t>> : t \in {u \in PoolThreads : mem[u] = b}}
  \cup UNION {{<<"list", p, i>> : i \in {j \in DOMAIN mFreeLists[p] : mFreeLists[p][j] = b}} : p \in Pools}

(* Threads at a place with a block of pool p. *)
AtWith(place, p) ==
  {t \in PoolThreads : stage[t] = place /\ mSmallSizeMemoryPoolTable(realAllocSize[t]) = p}

(***************************************************************************)
(* A block that has been taken from the heap is always in exactly one      *)
(* place: with the program, on a thread's way, or once in one list; and    *)
(* the count of a pool is that of its blocks outside its list, but for the *)
(* threads between the list and the count.                                 *)
(***************************************************************************)
OnePlace ==
  /\ \A b \in MemBlocks : Cardinality(Places(b)) = IF b \in Heap THEN 0 ELSE 1
  /\ \A p \in Pools :
       mAllocCount[p] = Cardinality({b \in MemBlocks : capacity[b] = p}) - Len(mFreeLists[p])
                        - Cardinality(AtWith("count", p)) + Cardinality(AtWith("uncount", p))

(***************************************************************************)
(* A block is as large as what was asked for, and the size in its header   *)
(* leads it back to the pool it came from, for every size at the border of *)
(* two pools: a list holds blocks of its own size only.                    *)
(***************************************************************************)
BlocksFit ==
  /\ \A b \in live : mAllocSize[b] <= capacity[b]
  /\ \A p \in Pools : \A i \in DOMAIN mFreeLists[p] : capacity[mFreeLists[p][i]] = p

(***************************************************************************)
(* Neither assertion of Pop and Deallocate fires: only a block freed twice *)
(* would be seen with the wrong size in its header.                        *)
(***************************************************************************)
AssertsHold == ~halted

(***************************************************************************)
(* What the allocator owes the program: a block is in one place at a time, *)
(* is large enough, goes home to its own pool and is never seen freed      *)
(* twice, whatever threads allocate and free it.                           *)
(***************************************************************************)
BlocksSound == MemoryTypeOK /\ OnePlace /\ BlocksFit /\ AssertsHold
=============================================================================
