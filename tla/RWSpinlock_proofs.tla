--------------------------- MODULE RWSpinlock_proofs ---------------------------
(***************************************************************************)
(* Proofs about RWSpinlock, for any number of threads that fits into the   *)
(* writers' half of the word.  FlagCounts gives the tests on the word      *)
(* their meaning: Writes is the number of threads that claim the lock and  *)
(* Reads the number of readers counted.                                    *)
(***************************************************************************)
EXTENDS RWSpinlock, FiniteSetTheorems, TLAPS

PcOK == pc \in [Threads -> PcValues]

IInv == PcOK /\ FlagCounts /\ OneWriterFirst

-----------------------------------------------------------------------------
LEMMA SubsetBounded ==
  ASSUME NEW S \in SUBSET Threads
  PROVE  /\ IsFiniteSet(S) /\ Cardinality(S) \in Nat
         /\ Cardinality(S) < WriteLimit
         /\ Cardinality(S) = 0 <=> S = {}
  <1>1. /\ IsFiniteSet(S) /\ Cardinality(S) <= Cardinality(Threads)
    BY FS_Subset, ThreadsAssumption DEF ThreadsAssumption
  <1>2. Cardinality(S) \in Nat /\ Cardinality(Threads) \in Nat
    BY <1>1, FS_CardinalityType, ThreadsAssumption DEF ThreadsAssumption
  <1>3. Cardinality(Threads) < WriteLimit
    BY ThreadsAssumption DEF ThreadsAssumption
  <1>4. Cardinality(S) = 0 <=> S = {}
    BY <1>1, FS_EmptySet
  <1>5. QED
    BY <1>1, <1>2, <1>3, <1>4 DEF WriteLimit

LEMMA AtBounded ==
  ASSUME NEW P
  PROVE  /\ IsFiniteSet(At(P)) /\ Cardinality(At(P)) \in Nat
         /\ Cardinality(At(P)) < WriteLimit
         /\ Cardinality(At(P)) = 0 <=> At(P) = {}
  <1>1. At(P) \in SUBSET Threads
    BY DEF At
  <1>2. QED
    BY <1>1, SubsetBounded

(* What a move of one thread does to the set of threads at some places. *)
LEMMA GotoMoves ==
  ASSUME NEW P, NEW t \in Threads, NEW place, PcOK, Goto(t, place)
  PROVE  /\ At(P)' = IF place \in P THEN At(P) \cup {t} ELSE At(P) \ {t}
         /\ Cardinality(At(P))' =
              Cardinality(At(P)) + (IF place \in P THEN 1 ELSE 0)
                                 - (IF pc[t] \in P THEN 1 ELSE 0)
  <1>1. At(P)' = IF place \in P THEN At(P) \cup {t} ELSE At(P) \ {t}
    BY DEF At, Goto, PcOK
  <1>2. t \in At(P) <=> pc[t] \in P
    BY DEF At
  <1>3. /\ Cardinality(At(P) \cup {t}) =
             IF t \in At(P) THEN Cardinality(At(P)) ELSE Cardinality(At(P)) + 1
        /\ Cardinality(At(P) \ {t}) =
             IF t \in At(P) THEN Cardinality(At(P)) - 1 ELSE Cardinality(At(P))
    BY AtBounded, FS_AddElement, FS_RemoveElement
  <1>4. Cardinality(At(P)) \in Nat
    BY AtBounded
  <1>5. Cardinality(At(P))' = Cardinality(At(P)')
    OBVIOUS
  <1>6. QED
    BY <1>1, <1>2, <1>3, <1>4, <1>5

(* The two halves of the word do not interfere. *)
LEMMA Halves ==
  ASSUME NEW w \in Nat, NEW r \in Nat, w < WriteLimit, r < WriteLimit
  PROVE  /\ Writes(LF_WRITE_FLAG * w + r) = w
         /\ Reads(LF_WRITE_FLAG * w + r) = r
         /\ LF_WRITE_FLAG * w + r \in 0 .. MaxLong
  <1>1. LF_WRITE_FLAG * w + r \in 0 .. MaxLong
    <2>1. w <= 2047 /\ r <= 2047 /\ 0 <= w /\ 0 <= r
      BY SMT DEF WriteLimit
    <2>2. 1048576 * w + r \in Int
      BY SMT
    <2>3. 0 <= 1048576 * w + r
      BY <2>1, SMT
    <2>4. 1048576 * w + r <= 1048576 * 2047 + 1048575
      BY <2>1, SMT
    <2>5. MaxLong = 1048576 * 2047 + 1048575
      BY SMT DEF MaxLong, LF_WRITE_FLAG, WriteLimit
    <2>6. 1048576 * w + r <= MaxLong
      BY <2>2, <2>4, <2>5, SMT
    <2>7. ASSUME NEW m \in Int, NEW n \in Int, 0 <= n, n <= m
          PROVE  n \in 0 .. m
      BY <2>7, SMT
    <2>8. MaxLong \in Int
      BY <2>5, SMT
    <2>9. 1048576 * w + r \in 0 .. MaxLong
      BY <2>2, <2>3, <2>6, <2>7, <2>8, SMT
    <2>10. QED
      BY <2>9, SMT DEF LF_WRITE_FLAG
  <1>2. (1048576 * w + r) % 1048576 = r
    BY SMT DEF WriteLimit
  <1>3. (1048576 * w + r) \div 1048576 = w
    BY SMT DEF WriteLimit
  <1>4. w % 2048 = w
    BY SMT DEF WriteLimit
  <1>5. QED
    BY <1>1, <1>2, <1>3, <1>4, SMT DEF Writes, Reads, LF_WRITE_FLAG, WriteLimit

LEMMA WordCounts ==
  ASSUME FlagCounts
  PROVE  /\ Writes(mLockFlag) = Cardinality(Claiming)
         /\ Reads(mLockFlag) = Cardinality(Counted)
         /\ mLockFlag \in 0 .. MaxLong
  <1>1. /\ Cardinality(Claiming) \in Nat /\ Cardinality(Claiming) < WriteLimit
        /\ Cardinality(Counted) \in Nat /\ Cardinality(Counted) < WriteLimit
    BY AtBounded DEF Claiming, Counted
  <1>2. QED
    BY <1>1, Halves DEF FlagCounts

-----------------------------------------------------------------------------
LEMMA InitHolds == Init => IInv
  <1> SUFFICES ASSUME Init PROVE IInv
    OBVIOUS
  <1>1. PcOK
    BY DEF Init, PcOK, PcValues
  <1>2. Claiming = {} /\ Counted = {} /\ At({"drain", "writing"}) = {}
    BY DEF Init, Claiming, Counted, At
  <1>3. Cardinality({}) = 0 /\ mLockFlag = 0
    BY FS_EmptySet DEF Init
  <1>4. FlagCounts
    BY <1>2, <1>3, SMT DEF FlagCounts, LF_WRITE_FLAG
  <1>5. QED
    BY <1>1, <1>2, <1>4 DEF IInv, OneWriterFirst

(***************************************************************************)
(* The word: each action adds to or takes from it what its move adds to or *)
(* takes from the two sets.                                                *)
(***************************************************************************)
LEMMA WordKept ==
  ASSUME IInv, NEW t \in Threads, BeginWrite(t) \/ BeginRead(t) \/ Proceed(t)
  PROVE  PcOK' /\ FlagCounts'
  <1> DEFINE c == Cardinality(Claiming)
             r == Cardinality(Counted)
  <1>0. PcOK /\ mLockFlag = LF_WRITE_FLAG * c + r
    BY DEF IInv, FlagCounts
  <1>1. c \in Nat /\ r \in Nat
    BY AtBounded DEF Claiming, Counted
  <1>2. ASSUME NEW place, Goto(t, place)
        PROVE  /\ c' = c + (IF place \in {"drain", "writing", "writeUndo"} THEN 1 ELSE 0)
                         - (IF pc[t] \in {"drain", "writing", "writeUndo"} THEN 1 ELSE 0)
               /\ r' = r + (IF place \in {"reading", "readUndo"} THEN 1 ELSE 0)
                         - (IF pc[t] \in {"reading", "readUndo"} THEN 1 ELSE 0)
    BY <1>0, <1>2, GotoMoves DEF Claiming, Counted
  <1>3. ASSUME NEW place \in PcValues, Goto(t, place)
        PROVE  PcOK'
    BY <1>0, <1>3 DEF PcOK, Goto
  <1>4. (mLockFlag' = LF_WRITE_FLAG * c' + r') => FlagCounts'
    BY DEF FlagCounts
  <1> HIDE DEF c, r
  <1>5. CASE BeginWrite(t) \/ BeginRead(t) \/ WriterSeesNoWriter(t)
             \/ WriterSeesNoReader(t) \/ ReaderSeesNoWriter(t)
    <2>1. PcOK'
      BY <1>3, <1>5 DEF BeginWrite, BeginRead, WriterSeesNoWriter, WriterSeesNoReader,
                        ReaderSeesNoWriter, PcValues
    <2>2. c' = c /\ r' = r
      BY <1>1, <1>2, <1>5 DEF BeginWrite, BeginRead, WriterSeesNoWriter,
                              WriterSeesNoReader, ReaderSeesNoWriter
    <2>3. mLockFlag' = mLockFlag
      BY <1>5 DEF BeginWrite, BeginRead, WriterSeesNoWriter, WriterSeesNoReader,
                  ReaderSeesNoWriter
    <2>4. QED
      BY <1>0, <1>4, <2>1, <2>2, <2>3
  <1>6. CASE AddWriteFlag(t)
    <2>1. PcOK'
      BY <1>3, <1>6 DEF AddWriteFlag, PcValues
    <2>2. c' = c + 1 /\ r' = r
      BY <1>1, <1>2, <1>6 DEF AddWriteFlag
    <2>3. QED
      BY <1>0, <1>1, <1>4, <1>6, <2>1, <2>2, SMT DEF AddWriteFlag, LF_WRITE_FLAG
  <1>7. CASE UndoWriteFlag(t) \/ LeaveWriteLock(t)
    <2>1. PcOK'
      BY <1>3, <1>7 DEF UndoWriteFlag, LeaveWriteLock, PcValues
    <2>2. c' = c - 1 /\ r' = r
      BY <1>1, <1>2, <1>7 DEF UndoWriteFlag, LeaveWriteLock
    <2>3. QED
      BY <1>0, <1>1, <1>4, <1>7, <2>1, <2>2, SMT
         DEF UndoWriteFlag, LeaveWriteLock, LF_WRITE_FLAG
  <1>8. CASE AddReader(t)
    <2>1. PcOK'
      BY <1>3, <1>8 DEF AddReader, PcValues
    <2>2. c' = c /\ r' = r + 1
      BY <1>1, <1>2, <1>8 DEF AddReader
    <2>3. QED
      BY <1>0, <1>1, <1>4, <1>8, <2>1, <2>2, SMT DEF AddReader, LF_WRITE_FLAG
  <1>9. CASE UndoReader(t) \/ LeaveReadLock(t)
    <2>1. PcOK'
      BY <1>3, <1>9 DEF UndoReader, LeaveReadLock, PcValues
    <2>2. c' = c /\ r' = r - 1
      BY <1>1, <1>2, <1>9 DEF UndoReader, LeaveReadLock
    <2>3. QED
      BY <1>0, <1>1, <1>4, <1>9, <2>1, <2>2, SMT
         DEF UndoReader, LeaveReadLock, LF_WRITE_FLAG
  <1>10. QED
    BY <1>5, <1>6, <1>7, <1>8, <1>9 DEF Proceed

(***************************************************************************)
(* Writers: the one whose addition made the count one found nobody         *)
(* claiming the lock.                                                      *)
(***************************************************************************)
LEMMA ExclusionKept ==
  ASSUME IInv, IInv => PcOK' /\ FlagCounts', NEW t \in Threads,
         BeginWrite(t) \/ BeginRead(t) \/ Proceed(t)
  PROVE  OneWriterFirst'
  <1>0. PcOK /\ \A u, v \in At({"drain", "writing"}) : u = v
    BY DEF IInv, OneWriterFirst
  <1>1. CASE AddWriteFlag(t) /\ Writes(mLockFlag') = 1
    <2>1. Cardinality(Claiming)' = 1
      <3>1. mLockFlag' = LF_WRITE_FLAG * Cardinality(Claiming)' + Cardinality(Counted)'
        BY DEF FlagCounts
      <3>2. /\ Cardinality(Claiming') \in Nat /\ Cardinality(Claiming') < WriteLimit
            /\ Cardinality(Counted') \in Nat /\ Cardinality(Counted') < WriteLimit
        <4>1. Claiming' \in SUBSET Threads /\ Counted' \in SUBSET Threads
          BY DEF Claiming, Counted, At
        <4>2. QED
          BY <4>1, SubsetBounded
      <3>3. Writes(mLockFlag') = Cardinality(Claiming')
        BY <3>1, <3>2, Halves
      <3>4. QED
        BY <1>1, <3>3
    <2>2. Cardinality(Claiming) = 0
      <3>1. Goto(t, "drain") /\ pc[t] = "writeAdd"
        BY <1>1 DEF AddWriteFlag
      <3>2. Cardinality(Claiming)' = Cardinality(Claiming) + 1 - 0
        BY <1>0, <3>1, GotoMoves DEF Claiming
      <3>3. Cardinality(Claiming) \in Nat
        BY AtBounded DEF Claiming
      <3>4. QED
        BY <2>1, <3>2, <3>3
    <2>3. Claiming = {}
      BY <2>2, AtBounded DEF Claiming
    <2>4. At({"drain", "writing"})' = {t}
      BY <1>0, <1>1, <2>3 DEF AddWriteFlag, Goto, At, Claiming, PcOK
    <2>5. QED
      BY <2>4 DEF OneWriterFirst
  <1>2. CASE ~(AddWriteFlag(t) /\ Writes(mLockFlag') = 1)
    <2>1. At({"drain", "writing"})' \subseteq At({"drain", "writing"})
      BY <1>0, <1>2 DEF BeginWrite, BeginRead, Proceed, WriterSeesNoWriter, AddWriteFlag,
         UndoWriteFlag, WriterSeesNoReader, LeaveWriteLock, ReaderSeesNoWriter,
         AddReader, UndoReader, LeaveReadLock, Goto, At, PcOK
    <2>2. QED
      BY <1>0, <2>1 DEF OneWriterFirst
  <1>3. QED
    BY <1>1, <1>2

LEMMA Invariance == Spec => []IInv
  <1>1. IInv /\ [Next]_vars => IInv'
    <2>1. CASE UNCHANGED vars
      BY <2>1 DEF IInv, PcOK, FlagCounts, OneWriterFirst, Claiming, Counted, At, vars
    <2>2. ASSUME IInv, NEW t \in Threads, BeginWrite(t) \/ BeginRead(t) \/ Proceed(t)
          PROVE  IInv'
      BY <2>2, WordKept, ExclusionKept DEF IInv
    <2>3. QED
      BY <2>1, <2>2 DEF Next
  <1>2. QED
    BY <1>1, InitHolds, PTL DEF Spec

(***************************************************************************)
(* The word stays a non-negative 32-bit number: neither half overflows.    *)
(***************************************************************************)
THEOREM TypeCorrect == Spec => []TypeOK
  <1>1. IInv => TypeOK
    BY WordCounts DEF IInv, PcOK, TypeOK
  <1>2. QED
    BY <1>1, Invariance, PTL

(***************************************************************************)
(* The word counts the writers and the readers exactly.                    *)
(***************************************************************************)
THEOREM FlagCorrect == Spec => []FlagCounts
  <1>1. IInv => FlagCounts
    BY DEF IInv
  <1>2. QED
    BY <1>1, Invariance, PTL

(***************************************************************************)
(* At most one thread is through the writers' test at any time, and the    *)
(* word is typed and exact.                                                *)
(***************************************************************************)
THEOREM WriterExclusion == Spec => []WritersExclude
  <1>1. IInv => WritersExclude
    BY WordCounts DEF IInv, PcOK, TypeOK, WritersExclude
  <1>2. QED
    BY <1>1, Invariance, PTL

-----------------------------------------------------------------------------
(***************************************************************************)
(* Where a single thread writes, the count of writers is one while it      *)
(* claims the lock, so AddReader admits nobody.                            *)
(***************************************************************************)
OneWriter == \A t, u \in Writers : t = u

WriterPlaces == {"writeWait", "writeAdd", "drain", "writeUndo", "writing"}
ReaderPlaces == {"readWait", "readAdd", "readUndo", "reading"}

RolesOK == \A t \in Threads : /\ pc[t] \in WriterPlaces => t \in Writers
                              /\ pc[t] \in ReaderPlaces => t \in Readers

LEMMA RolesKept ==
  ASSUME PcOK, RolesOK, NEW t \in Threads,
         BeginWrite(t) \/ BeginRead(t) \/ Proceed(t)
  PROVE  RolesOK'
  <1> USE DEF RolesOK, WriterPlaces, ReaderPlaces, Goto, PcOK
  <1>1. CASE BeginWrite(t) \/ WriterSeesNoWriter(t) \/ AddWriteFlag(t) \/ UndoWriteFlag(t)
             \/ WriterSeesNoReader(t) \/ LeaveWriteLock(t)
    BY <1>1 DEF BeginWrite, WriterSeesNoWriter, AddWriteFlag, UndoWriteFlag,
                WriterSeesNoReader, LeaveWriteLock
  <1>2. CASE BeginRead(t) \/ ReaderSeesNoWriter(t) \/ AddReader(t) \/ UndoReader(t)
             \/ LeaveReadLock(t)
    BY <1>2 DEF BeginRead, ReaderSeesNoWriter, AddReader, UndoReader, LeaveReadLock
  <1>3. QED
    BY <1>1, <1>2 DEF Proceed

LEMMA NoReaderCounted ==
  ASSUME IInv, Reads(mLockFlag) = 0
  PROVE  At({"reading"}) = {}
  <1>1. Cardinality(Counted) = 0
    BY WordCounts DEF IInv
  <1>2. Counted = {}
    BY <1>1, AtBounded DEF Counted
  <1>3. QED
    BY <1>2 DEF Counted, At

LEMMA ClaimingCounted ==
  ASSUME FlagCounts'
  PROVE  Writes(mLockFlag') = Cardinality(Claiming')
  <1>1. Claiming' \in SUBSET Threads /\ Counted' \in SUBSET Threads
    BY DEF Claiming, Counted, At
  <1>2. /\ Cardinality(Claiming') \in Nat /\ Cardinality(Claiming') < WriteLimit
        /\ Cardinality(Counted') \in Nat /\ Cardinality(Counted') < WriteLimit
    BY <1>1, SubsetBounded
  <1>3. QED
    BY <1>2, Halves DEF FlagCounts

(***************************************************************************)
(* Only AddReader can break the lock's promise, and only where it finds    *)
(* the flags of two writers.                                               *)
(***************************************************************************)
LEMMA StepOfSharedLock ==
  ASSUME IInv, RolesOK, Cardinality(Claiming') <= 1, NEW t \in Threads,
         BeginWrite(t) \/ BeginRead(t) \/ Proceed(t)
  PROVE  Lock!Next \/ UNCHANGED <<At({"writing"}), At({"reading"})>>
  <1>0. /\ pc \in [Threads -> PcValues]
        /\ \A u, v \in At({"drain", "writing"}) : u = v
    BY DEF IInv, PcOK, OneWriterFirst
  <1>1. CASE BeginWrite(t) \/ WriterSeesNoWriter(t) \/ AddWriteFlag(t) \/ UndoWriteFlag(t)
             \/ BeginRead(t) \/ ReaderSeesNoWriter(t) \/ UndoReader(t)
    BY <1>0, <1>1 DEF BeginWrite, WriterSeesNoWriter, AddWriteFlag, UndoWriteFlag,
                      BeginRead, ReaderSeesNoWriter, UndoReader, Goto, At
  <1>2. CASE WriterSeesNoReader(t)
    <2>1. At({"reading"}) = {}
      BY <1>2, NoReaderCounted DEF WriterSeesNoReader
    <2>2. At({"writing"}) = {} /\ At({"writing"})' = {t} /\ At({"reading"})' = At({"reading"})
      BY <1>0, <1>2 DEF WriterSeesNoReader, Goto, At
    <2>3. t \in Writers
      BY <1>2 DEF WriterSeesNoReader, RolesOK, WriterPlaces
    <2>4. Lock!AcquireExclusive(t)
      BY <2>1, <2>2 DEF Lock!AcquireExclusive
    <2>5. QED
      BY <2>3, <2>4 DEF Lock!Next
  <1>3. CASE LeaveWriteLock(t)
    <2>1. t \in At({"writing"}) /\ At({"writing"})' = At({"writing"}) \ {t}
          /\ At({"reading"})' = At({"reading"})
      BY <1>0, <1>3 DEF LeaveWriteLock, Goto, At
    <2>2. t \in Writers
      BY <1>3 DEF LeaveWriteLock, RolesOK, WriterPlaces
    <2>3. Lock!ReleaseExclusive(t)
      BY <2>1 DEF Lock!ReleaseExclusive
    <2>4. QED
      BY <2>2, <2>3 DEF Lock!Next
  <1>4. CASE AddReader(t) /\ Writes(mLockFlag') # 1
    <2>1. At({"writing"}) = {}
      <3>1. Writes(mLockFlag') = Cardinality(Claiming')
        BY WordKept, ClaimingCounted
      <3>2. Claiming' = Claiming
        BY <1>0, <1>4 DEF AddReader, Goto, Claiming, At
      <3>3. IsFiniteSet(Claiming) /\ Cardinality(Claiming) \in Nat
        BY AtBounded DEF Claiming
      <3>4. Cardinality(Claiming) = 0
        BY <1>4, <3>1, <3>2, <3>3
      <3>5. Claiming = {}
        BY <3>3, <3>4, FS_EmptySet
      <3>6. QED
        BY <3>5 DEF Claiming, At
    <2>2. At({"writing"})' = At({"writing"}) /\ At({"reading"})' = At({"reading"}) \cup {t}
      BY <1>0, <1>4 DEF AddReader, Goto, At
    <2>3. t \in Readers
      BY <1>4 DEF AddReader, RolesOK, ReaderPlaces
    <2>4. Lock!AcquireShared(t)
      BY <2>1, <2>2 DEF Lock!AcquireShared
    <2>5. QED
      BY <2>3, <2>4 DEF Lock!Next
  <1>5. CASE AddReader(t) /\ Writes(mLockFlag') = 1
    BY <1>0, <1>5 DEF AddReader, Goto, At
  <1>6. CASE LeaveReadLock(t)
    <2>1. t \in At({"reading"}) /\ At({"reading"})' = At({"reading"}) \ {t}
          /\ At({"writing"})' = At({"writing"})
      BY <1>0, <1>6 DEF LeaveReadLock, Goto, At
    <2>2. t \in Readers
      BY <1>6 DEF LeaveReadLock, RolesOK, ReaderPlaces
    <2>3. Lock!ReleaseShared(t)
      BY <2>1 DEF Lock!ReleaseShared
    <2>4. QED
      BY <2>2, <2>3 DEF Lock!Next
  <1>7. QED
    BY <1>1, <1>2, <1>3, <1>4, <1>5, <1>6 DEF Proceed

LEMMA Roles == Spec => []RolesOK
  <1>1. Init => RolesOK
    BY DEF Init, RolesOK, WriterPlaces, ReaderPlaces
  <1>2. IInv /\ RolesOK /\ [Next]_vars => RolesOK'
    <2>1. UNCHANGED vars /\ RolesOK => RolesOK'
      BY DEF vars, RolesOK
    <2>2. QED
      BY <2>1, RolesKept DEF Next, IInv
  <1>3. QED
    BY <1>1, <1>2, Invariance, PTL DEF Spec

(***************************************************************************)
(* For any number of writers and readers the spinlock follows the          *)
(* reader-writer lock in every step that does not find the flags of two    *)
(* writers in the word.                                                    *)
(***************************************************************************)
THEOREM CollisionsAside == Spec => SharedUnlessWritersCollide
  <1>1. UNCHANGED vars => UNCHANGED <<At({"writing"}), At({"reading"})>>
    BY DEF vars, At
  <1>2. IInv /\ RolesOK /\ [Next]_vars
          => [Cardinality(Claiming') <= 1 => Lock!Next]_<<At({"writing"}), At({"reading"})>>
    BY <1>1, StepOfSharedLock DEF Next
  <1>3. QED
    BY <1>2, Invariance, Roles, PTL DEF Spec, SharedUnlessWritersCollide

(***************************************************************************)
(* With one writing thread, and any number of readers, the spinlock        *)
(* implements a reader-writer lock.                                        *)
(***************************************************************************)
THEOREM OneWriterIsSharedLock ==
  ASSUME OneWriter
  PROVE  Spec => IsSharedLock
  <1>1. Init => Lock!Init
    BY DEF Init, Lock!Init, At
  <1>2. ASSUME IInv, RolesOK, [Next]_vars
        PROVE  RolesOK' /\ PcOK'
    <2>1. CASE Next
      BY <1>2, <2>1, RolesKept, WordKept DEF Next, IInv
    <2>2. CASE UNCHANGED vars
      BY <1>2, <2>2 DEF vars, RolesOK, PcOK, IInv
    <2>3. QED
      BY <1>2, <2>1, <2>2
  <1>3. ASSUME RolesOK', PcOK'
        PROVE  Cardinality(Claiming') <= 1
    <2>1. \A t, u \in Claiming' : t = u
      BY <1>3 DEF Claiming, At, RolesOK, WriterPlaces, OneWriter, PcOK
    <2>2. CASE Claiming' = {}
      BY <2>2, FS_EmptySet
    <2>3. CASE Claiming' # {}
      <3>1. PICK w : Claiming' = {w}
        BY <2>1, <2>3
      <3>2. Cardinality({w}) = 1
        BY FS_Singleton
      <3>3. QED
        BY <3>1, <3>2
    <2>4. QED
      BY <2>2, <2>3
  <1>4. UNCHANGED vars => UNCHANGED <<At({"writing"}), At({"reading"})>>
    BY DEF vars, At
  <1>5. IInv /\ RolesOK /\ [Next]_vars => [Lock!Next]_<<At({"writing"}), At({"reading"})>>
    BY <1>2, <1>3, <1>4, StepOfSharedLock DEF Next
  <1>6. QED
    BY <1>1, <1>5, Invariance, Roles, PTL DEF Spec, IsSharedLock, Lock!Spec
=============================================================================
