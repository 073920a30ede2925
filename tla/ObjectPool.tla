------------------------------ MODULE ObjectPool ------------------------------
(***************************************************************************)
(* The free list that contexts and sessions are allocated from             *)
(* (ObjectPool.h of HW_05_MT and HW_07), under the test-and-set lock of    *)
(* HW_07 (FastSpinlock.h, FastSpinlock.cpp).  A block is a number, blocks  *)
(* of one allocation follow each other, and the first word of a free block *)
(* is the number of the next one.  An object may be deleted by another     *)
(* thread than the one that made it, as I/O contexts are.                  *)
(***************************************************************************)
EXTENDS Integers, FiniteSets

CONSTANTS Threads,
          ALLOC_COUNT,      (* blocks per allocation (100)            *)
          MaxAllocCount     (* bound: blocks the heap has room for    *)

PoolAssumption ==
  /\ {ALLOC_COUNT, MaxAllocCount} \subseteq Nat \ {0}
  /\ MaxAllocCount % ALLOC_COUNT = 0
  /\ IsFiniteSet(Threads)

Blocks   == 1 .. MaxAllocCount
NoBlock  == 0              (* NULL *)
UserData == -1              (* the word of an object in use, whatever it holds *)

VARIABLES mLockFlag, mFreeList, word, mTotalAllocCount, mCurrentUseCount,
          inUse,            (* the objects the program has                *)
          pc, block         (* where each thread is, and with which block *)

poolVars == <<mLockFlag, mFreeList, word, mTotalAllocCount, mCurrentUseCount, inUse, pc, block>>

PoolInit ==
  /\ mLockFlag = 0 /\ mFreeList = NoBlock /\ word = [b \in Blocks |-> UserData]
  /\ mTotalAllocCount = 0 /\ mCurrentUseCount = 0 /\ inUse = {}
  /\ pc = [t \in Threads |-> "out"] /\ block = [t \in Threads |-> NoBlock]

At(places)   == {t \in Threads : pc[t] \in places}
Goto(t, place) == pc' = [pc EXCEPT ![t] = place]

-----------------------------------------------------------------------------
(* operator new.  The bound: a call finds a block or room for one. *)
CallNew(t) ==
  /\ pc[t] = "out"
  /\ Cardinality(inUse) + Cardinality(Threads \ At({"out"})) < MaxAllocCount
  /\ Goto(t, "newWait")
  /\ UNCHANGED <<mLockFlag, mFreeList, word, mTotalAllocCount, mCurrentUseCount, inUse, block>>

(* operator delete, for an object the program gives up. *)
CallDelete(t, b) ==
  /\ pc[t] = "out" /\ b \in inUse
  /\ inUse' = inUse \ {b} /\ block' = [block EXCEPT ![t] = b]
  /\ Goto(t, "deleteWait")
  /\ UNCHANGED <<mLockFlag, mFreeList, word, mTotalAllocCount, mCurrentUseCount>>

Entered(t) == IF pc[t] = "newWait" THEN "new" ELSE "delete"

(* Mutant: the flag is set, whatever it was. *)
EnterLockUntested(t) ==
  /\ pc[t] \in {"newWait", "deleteWait"}
  /\ mLockFlag' = 1 /\ Goto(t, Entered(t))
  /\ UNCHANGED <<mFreeList, word, mTotalAllocCount, mCurrentUseCount, inUse, block>>

(* InterlockedExchange of 1, until the answer is 0. *)
EnterLock(t) ==
  /\ pc[t] \in {"newWait", "deleteWait"}
  /\ mLockFlag' = 1
  /\ Goto(t, IF mLockFlag = 0 THEN Entered(t) ELSE pc[t])
  /\ UNCHANGED <<mFreeList, word, mTotalAllocCount, mCurrentUseCount, inUse, block>>

Linked(first) ==
  [b \in Blocks |-> CASE b \in first .. first + ALLOC_COUNT - 2 -> b + 1
                      [] b = first + ALLOC_COUNT - 1            -> NoBlock
                      [] OTHER                                  -> word[b]]

Refill(t) ==
  /\ pc[t] = "new" /\ mFreeList = NoBlock
  /\ mTotalAllocCount + ALLOC_COUNT <= MaxAllocCount
  /\ word' = Linked(mTotalAllocCount + 1)
  /\ mFreeList' = mTotalAllocCount + 1
  /\ mTotalAllocCount' = mTotalAllocCount + ALLOC_COUNT
  /\ UNCHANGED <<mLockFlag, mCurrentUseCount, inUse, pc, block>>

TakeFirst(t) ==
  /\ pc[t] = "new" /\ mFreeList # NoBlock
  /\ block' = [block EXCEPT ![t] = mFreeList] /\ Goto(t, "unlink")
  /\ UNCHANGED <<mLockFlag, mFreeList, word, mTotalAllocCount, mCurrentUseCount, inUse>>

Unlink(t) ==
  /\ pc[t] = "unlink"
  /\ mFreeList' = word[block[t]] /\ mCurrentUseCount' = mCurrentUseCount + 1
  /\ Goto(t, "newLeave")
  /\ UNCHANGED <<mLockFlag, word, mTotalAllocCount, inUse, block>>

(* The caller has its block from the moment the guard leaves the lock. *)
LeaveNew(t) ==
  /\ pc[t] = "newLeave"
  /\ mLockFlag' = 0 /\ inUse' = inUse \cup {block[t]}
  /\ Goto(t, "out") /\ block' = [block EXCEPT ![t] = NoBlock]
  /\ UNCHANGED <<mFreeList, word, mTotalAllocCount, mCurrentUseCount>>

Uncount(t) ==
  /\ pc[t] = "delete"
  /\ mCurrentUseCount' = mCurrentUseCount - 1 /\ Goto(t, "link")
  /\ UNCHANGED <<mLockFlag, mFreeList, word, mTotalAllocCount, inUse, block>>

Link(t) ==
  /\ pc[t] = "link"
  /\ word' = [word EXCEPT ![block[t]] = mFreeList] /\ mFreeList' = block[t]
  /\ Goto(t, "deleteLeave")
  /\ UNCHANGED <<mLockFlag, mTotalAllocCount, mCurrentUseCount, inUse, block>>

LeaveDelete(t) ==
  /\ pc[t] = "deleteLeave"
  /\ mLockFlag' = 0
  /\ Goto(t, "out") /\ block' = [block EXCEPT ![t] = NoBlock]
  /\ UNCHANGED <<mFreeList, word, mTotalAllocCount, mCurrentUseCount, inUse>>

(* The program writes into an object it has. *)
UseObject(b) ==
  /\ b \in inUse
  /\ word' = [word EXCEPT ![b] = UserData]
  /\ UNCHANGED <<mLockFlag, mFreeList, mTotalAllocCount, mCurrentUseCount, inUse, pc, block>>

-----------------------------------------------------------------------------
Inside(t) == \/ Refill(t) \/ TakeFirst(t) \/ Unlink(t) \/ LeaveNew(t)
             \/ Uncount(t) \/ Link(t) \/ LeaveDelete(t)

PoolNext ==
  \/ \E t \in Threads : \/ CallNew(t) \/ EnterLock(t) \/ Inside(t)
                        \/ \E b \in Blocks : CallDelete(t, b)
  \/ \E b \in Blocks : UseObject(b)

PoolSpec == PoolInit /\ [][PoolNext]_poolVars

-----------------------------------------------------------------------------
Holding == At({"new", "unlink", "newLeave", "delete", "link", "deleteLeave"})

(* Threads on whose way a block is, out of the list and not in use. *)
Carrying == At({"newLeave", "deleteWait", "delete", "link"})

Carried == {block[t] : t \in Carrying}

Free == 1 .. mTotalAllocCount \ (inUse \cup Carried)

PoolTypeOK ==
  /\ mLockFlag \in {0, 1} /\ mFreeList \in Blocks \cup {NoBlock}
  /\ word \in [Blocks -> Blocks \cup {NoBlock, UserData}]
  /\ mTotalAllocCount \in 0 .. MaxAllocCount /\ mCurrentUseCount \in Int
  /\ inUse \in SUBSET Blocks /\ block \in [Threads -> Blocks \cup {NoBlock}]
  /\ pc \in [Threads -> {"out", "newWait", "new", "unlink", "newLeave",
                         "deleteWait", "delete", "link", "deleteLeave"}]

(***************************************************************************)
(* No block is handed out while somebody has it, on whatever thread it was *)
(* made and whatever thread gives it back.                                 *)
(***************************************************************************)
HandedOutOnce ==
  /\ Carried \subseteq 1 .. mTotalAllocCount \ inUse
  /\ \A t, u \in Carrying : block[t] = block[u] => t = u

(* The list is s[1], ..., s[n]: each word leads to the next one. *)
IsFreeList(n, s) ==
  /\ mFreeList = IF n = 0 THEN NoBlock ELSE s[1]
  /\ \A i \in 1 .. n : word[s[i]] = IF i = n THEN NoBlock ELSE s[i + 1]

Once(n, s) == \A i, j \in 1 .. n : s[i] = s[j] => i = j

(***************************************************************************)
(* At every moment the list that starts at mFreeList goes once through     *)
(* every block that nobody has, and ends: no block is lost to the pool,    *)
(* and what the objects in use are filled with is never followed.          *)
(***************************************************************************)
FreeListComplete ==
  LET n == Cardinality(Free)
  IN  \E s \in [1 .. n -> Free] : Once(n, s) /\ IsFreeList(n, s)

(***************************************************************************)
(* The count that operator delete asserts to be positive is the number of  *)
(* objects in use, those on their way counted.                             *)
(***************************************************************************)
UseCountHonest ==
  mCurrentUseCount = Cardinality(inUse) + Cardinality(At({"newLeave", "deleteWait", "delete"}))

(***************************************************************************)
(* What the pool owes the threads that share it: no object is given to two *)
(* of them, none is lost to the list, and the count is that of the objects *)
(* in use, in a typed state.                                               *)
(***************************************************************************)
PoolSound == PoolTypeOK /\ HandedOutOnce /\ FreeListComplete /\ UseCountHonest
=============================================================================
