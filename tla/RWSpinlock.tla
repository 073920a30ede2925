------------------------------ MODULE RWSpinlock ------------------------------
(***************************************************************************)
(* The reader-writer FastSpinlock of HW_05_MT (FastSpinlock.h/.cpp).       *)
(*                                                                         *)
(* One 32-bit word counts, in its upper bits, the writers that have added  *)
(* LF_WRITE_FLAG and not taken it back, and in its lower 20 bits the       *)
(* readers.  Whoever finds that its own addition did not admit it takes    *)
(* it back and starts over.  Every access to mLockFlag is a step.          *)
(*                                                                         *)
(* The lock-order checker that the Enter and Leave functions call for      *)
(* ordered locks is thread-local and changes nothing here.                 *)
(***************************************************************************)
EXTENDS Integers, FiniteSets

CONSTANTS Writers,   (* threads that use the lock in exclusive mode *)
          Readers    (* threads that use it in shared mode          *)

Threads == Writers \cup Readers

LF_WRITE_FLAG == 1048576   (* 0x00100000; LF_READ_MASK are the bits below *)
WriteLimit    == 2048      (* LF_WRITE_MASK leaves 11 bits to writers     *)
MaxLong       == LF_WRITE_FLAG * (WriteLimit - 1) + (LF_WRITE_FLAG - 1)

(* Neither count overflows into the other one or into the sign bit. *)
ASSUME ThreadsAssumption ==
  IsFiniteSet(Threads) /\ Cardinality(Threads) < WriteLimit

VARIABLES mLockFlag,
          pc          (* where each thread is in its Enter function *)

vars == <<mLockFlag, pc>>

PcValues == {"out",
             "writeWait", "writeAdd", "drain", "writeUndo", "writing",
             "readWait", "readAdd", "readUndo", "reading"}

At(places) == {t \in Threads : pc[t] \in places}

Writes(flag) == (flag \div LF_WRITE_FLAG) % WriteLimit   (* & LF_WRITE_MASK *)
Reads(flag)  == flag % LF_WRITE_FLAG                     (* & LF_READ_MASK  *)

Init == mLockFlag = 0 /\ pc = [t \in Threads |-> "out"]

Goto(t, place) == pc' = [pc EXCEPT ![t] = place]

-----------------------------------------------------------------------------
(* EnterWriteLock. *)
BeginWrite(t) ==
  /\ t \in Writers /\ pc[t] = "out"
  /\ Goto(t, "writeWait") /\ UNCHANGED mLockFlag

WriterSeesNoWriter(t) ==
  /\ pc[t] = "writeWait" /\ Writes(mLockFlag) = 0
  /\ Goto(t, "writeAdd") /\ UNCHANGED mLockFlag

(* Mutant: the result of the addition is not looked at. *)
AddWriteFlagUntested(t) ==
  /\ pc[t] = "writeAdd"
  /\ mLockFlag' = mLockFlag + LF_WRITE_FLAG /\ Goto(t, "drain")

AddWriteFlag(t) ==
  /\ pc[t] = "writeAdd"
  /\ mLockFlag' = mLockFlag + LF_WRITE_FLAG
  /\ Goto(t, IF Writes(mLockFlag') = 1 THEN "drain" ELSE "writeUndo")

(* Mutant: the writer tries again without waiting. *)
WriterRetriesAtOnce(t) ==
  /\ pc[t] = "writeUndo"
  /\ mLockFlag' = mLockFlag - LF_WRITE_FLAG /\ Goto(t, "writeAdd")

UndoWriteFlag(t) ==
  /\ pc[t] = "writeUndo"
  /\ mLockFlag' = mLockFlag - LF_WRITE_FLAG /\ Goto(t, "writeWait")

(* Mutant: the writer does not wait for the readers that are inside. *)
DrainSkipped(t) ==
  /\ pc[t] = "drain"
  /\ Goto(t, "writing") /\ UNCHANGED mLockFlag

WriterSeesNoReader(t) ==
  /\ pc[t] = "drain" /\ Reads(mLockFlag) = 0
  /\ Goto(t, "writing") /\ UNCHANGED mLockFlag

LeaveWriteLock(t) ==
  /\ pc[t] = "writing"
  /\ mLockFlag' = mLockFlag - LF_WRITE_FLAG /\ Goto(t, "out")

(* EnterReadLock. *)
BeginRead(t) ==
  /\ t \in Readers /\ pc[t] = "out"
  /\ Goto(t, "readWait") /\ UNCHANGED mLockFlag

ReaderSeesNoWriter(t) ==
  /\ pc[t] = "readWait" /\ Writes(mLockFlag) = 0
  /\ Goto(t, "readAdd") /\ UNCHANGED mLockFlag

(* Admitted unless the writers' count is exactly one. *)
AddReader(t) ==
  /\ pc[t] = "readAdd"
  /\ mLockFlag' = mLockFlag + 1
  /\ Goto(t, IF Writes(mLockFlag') # 1 THEN "reading" ELSE "readUndo")

UndoReader(t) ==
  /\ pc[t] = "readUndo"
  /\ mLockFlag' = mLockFlag - 1 /\ Goto(t, "readWait")

LeaveReadLock(t) ==
  /\ pc[t] = "reading"
  /\ mLockFlag' = mLockFlag - 1 /\ Goto(t, "out")

-----------------------------------------------------------------------------
(* What a thread does once it has called an Enter function. *)
Proceed(t) ==
  \/ WriterSeesNoWriter(t) \/ AddWriteFlag(t) \/ UndoWriteFlag(t)
  \/ WriterSeesNoReader(t) \/ LeaveWriteLock(t)
  \/ ReaderSeesNoWriter(t) \/ AddReader(t) \/ UndoReader(t)
  \/ LeaveReadLock(t)

Next == \E t \in Threads : BeginWrite(t) \/ BeginRead(t) \/ Proceed(t)

Spec == Init /\ [][Next]_vars

(* Every thread keeps running and leaves the lock; nobody has to enter. *)
FairSpec == Spec /\ \A t \in Threads : WF_vars(Proceed(t))

-----------------------------------------------------------------------------
Claiming == At({"drain", "writing", "writeUndo"})
Counted  == At({"reading", "readUndo"})

TypeOK == mLockFlag \in 0 .. MaxLong /\ pc \in [Threads -> PcValues]

(***************************************************************************)
(* The word is exact in both halves: no failed attempt leaves anything in  *)
(* it, so that it is zero again when nobody uses the lock (else the next   *)
(* EnterWriteLock would spin for ever).                                    *)
(***************************************************************************)
FlagCounts ==
  mLockFlag = LF_WRITE_FLAG * Cardinality(Claiming) + Cardinality(Counted)

OneWriterFirst ==
  \A t, u \in At({"drain", "writing"}) : t = u

(***************************************************************************)
(* However many writers add their flags at the same time and take them     *)
(* back, at most one of them believes it was first, and the word stays     *)
(* exact and within 31 bits.                                               *)
(***************************************************************************)
WritersExclude == TypeOK /\ FlagCounts /\ OneWriterFirst

Lock == INSTANCE SharedLock WITH writing <- At({"writing"}), reading <- At({"reading"})

(***************************************************************************)
(* Every admission and every release is one of a reader-writer lock        *)
(* ("exclusive mode", FastSpinlock.h:20), except while the flags of two    *)
(* writers are in the word: then AddReader finds a count that is not one   *)
(* and lets a reader in beside the writer that holds the lock.             *)
(***************************************************************************)
SharedUnlessWritersCollide ==
  [][Cardinality(Claiming') <= 1 => Lock!Next]_<<At({"writing"}), At({"reading"})>>

(* What a single writing thread makes of it: see RWSpinlock_proofs. *)
IsSharedLock == Lock!Spec

(* A writer that was first gets in. *)
DrainEnds == \A t \in Writers : pc[t] = "drain" ~> pc[t] = "writing"

(* If somebody waits, somebody gets in. *)
SomebodyGetsIn ==
  At({"writeWait", "readWait"}) # {} ~> At({"writing", "reading"}) # {}

(***************************************************************************)
(* Attempts succeed.  Threads that fail make way for another, and readers  *)
(* that keep coming cannot starve a writer that was first: once it drains  *)
(* they wait, and those already past the wait take their increment back.   *)
(***************************************************************************)
AttemptsSucceed == DrainEnds /\ SomebodyGetsIn
=============================================================================
