----------------------------- MODULE CrashReport -----------------------------
(***************************************************************************)
(* The ring of log events that all threads write without a lock (EventLog  *)
(* in Log.h) and the exception filter that stops the other threads and     *)
(* writes the ring into the crash report (ExceptionFilter, EventLogDumpOut *)
(* in Exception.cpp and Log.cpp of HW_07).  An event is named by its place *)
(* in the sequence of all events, from 0; each of the three fields of a    *)
(* slot is written on its own, so a field records whose event it is of.    *)
(***************************************************************************)
EXTENDS Integers, FiniteSets, Sequences

CONSTANTS CrashThreads,
          MAX_LOG_SIZE,     (* slots of the ring (65536)           *)
          MaxEvents         (* bound: events logged before a crash *)

LogAssumption == MAX_LOG_SIZE \in Nat \ {0} /\ MaxEvents \in Nat

Slots  == 0 .. MAX_LOG_SIZE - 1
Fields == {"mAdditionalInfo", "mMessage", "mThreadId"}
None   == -1

VARIABLES
  gLogEvents, gCurrentLogIndex,
  doing, index,     (* of each thread in EventLog, and the event it writes    *)
  suspended,        (* by an exception filter                                 *)
  snapshot,         (* the threads a filter has still to suspend              *)
  report,           (* what EventLogDumpOut wrote; the process ends with it   *)
  ended,
  lapped            (* history: slots that two threads once wrote at one time *)

logVars == <<gLogEvents, gCurrentLogIndex, doing, index, suspended, snapshot, report, ended, lapped>>

LogInit ==
  /\ gLogEvents = [i \in Slots |-> [f \in Fields |-> None]] /\ gCurrentLogIndex = 0
  /\ doing = [t \in CrashThreads |-> "run"] /\ index = [t \in CrashThreads |-> None]
  /\ suspended = {} /\ snapshot = [t \in CrashThreads |-> {}]
  /\ report = <<>> /\ ended = FALSE /\ lapped = {}

Slot(e) == e % MAX_LOG_SIZE

Writing  == {t \in CrashThreads : doing[t] \in Fields}
Crashing == {t \in CrashThreads : doing[t] = "filter"}
Runs(t)  == ~ended /\ t \notin suspended

-----------------------------------------------------------------------------
(* EventLog *)
Reserve(t) ==
  /\ Runs(t) /\ doing[t] = "run" /\ gCurrentLogIndex < MaxEvents
  /\ index' = [index EXCEPT ![t] = gCurrentLogIndex]
  /\ gCurrentLogIndex' = gCurrentLogIndex + 1
  /\ doing' = [doing EXCEPT ![t] = "mAdditionalInfo"]
  /\ lapped' = lapped \cup {Slot(index[u]) : u \in {v \in Writing : Slot(index[v]) = Slot(gCurrentLogIndex)}}
  /\ UNCHANGED <<gLogEvents, suspended, snapshot, report, ended>>

(* Mutant: the index is read and incremented without the interlock. *)
StoreAtCurrent(t) == gCurrentLogIndex - 1

Reserved(t) == index[t]

After(field) == CASE field = "mAdditionalInfo" -> "mMessage"
                  [] field = "mMessage"        -> "mThreadId"
                  [] field = "mThreadId"       -> "run"

Store(t) ==
  /\ Runs(t) /\ t \in Writing
  /\ gLogEvents' = [gLogEvents EXCEPT ![Slot(Reserved(t))][doing[t]] = index[t]]
  /\ doing' = [doing EXCEPT ![t] = After(@)]
  /\ index' = [index EXCEPT ![t] = IF doing'[t] = "run" THEN None ELSE @]
  /\ UNCHANGED <<gCurrentLogIndex, suspended, snapshot, report, ended, lapped>>

-----------------------------------------------------------------------------
(* Mutant: the thread of the exception is not left out. *)
ExceptionFilterAll(t) ==
  /\ Runs(t) /\ doing[t] = "run"
  /\ doing' = [doing EXCEPT ![t] = "filter"]
  /\ snapshot' = [snapshot EXCEPT ![t] = CrashThreads]
  /\ UNCHANGED <<gLogEvents, gCurrentLogIndex, index, suspended, report, ended, lapped>>

(* An unhandled exception, for instance of CRASH_ASSERT. *)
ExceptionFilter(t) ==
  /\ Runs(t) /\ doing[t] = "run"
  /\ doing' = [doing EXCEPT ![t] = "filter"]
  /\ snapshot' = [snapshot EXCEPT ![t] = CrashThreads \ {t}]
  /\ UNCHANGED <<gLogEvents, gCurrentLogIndex, index, suspended, report, ended, lapped>>

SuspendThread(t, u) ==
  /\ Runs(t) /\ doing[t] = "filter" /\ u \in snapshot[t]
  /\ suspended' = suspended \cup {u}
  /\ snapshot' = [snapshot EXCEPT ![t] = @ \ {u}]
  /\ UNCHANGED <<gLogEvents, gCurrentLogIndex, doing, index, report, ended, lapped>>

LogCount == IF gCurrentLogIndex < MAX_LOG_SIZE THEN gCurrentLogIndex ELSE MAX_LOG_SIZE

(* Mutant: the last row is forgotten. *)
RowsButOne == [i \in 1 .. LogCount - 1 |-> gLogEvents[Slot(LogCount - i)]]

Rows == [i \in 1 .. LogCount |-> gLogEvents[Slot(LogCount - i)]]

EventLogDumpOut(t) ==
  /\ Runs(t) /\ doing[t] = "filter" /\ snapshot[t] = {}
  /\ report' = Rows /\ ended' = TRUE
  /\ UNCHANGED <<gLogEvents, gCurrentLogIndex, doing, index, suspended, snapshot, lapped>>

-----------------------------------------------------------------------------
Proceed(t) == Store(t) \/ (\E u \in CrashThreads : SuspendThread(t, u)) \/ EventLogDumpOut(t)

LogNext == \E t \in CrashThreads : Reserve(t) \/ ExceptionFilter(t) \/ Proceed(t)

LogSpec == LogInit /\ [][LogNext]_logVars

(* A thread that nobody suspends goes on. *)
LogFairness == \A t \in CrashThreads : WF_logVars(Proceed(t))

-----------------------------------------------------------------------------
Events == 0 .. gCurrentLogIndex - 1

LogTypeOK ==
  /\ gLogEvents \in [Slots -> [Fields -> Events \cup {None}]]
  /\ gCurrentLogIndex \in 0 .. MaxEvents
  /\ doing \in [CrashThreads -> Fields \cup {"run", "filter"}]
  /\ index \in [CrashThreads -> Events \cup {None}]
  /\ suspended \in SUBSET CrashThreads /\ snapshot \in [CrashThreads -> SUBSET CrashThreads]
  /\ ended \in BOOLEAN /\ lapped \in SUBSET Slots

(* The newest event of a slot, and the one before it. *)
Newest(i)   == gCurrentLogIndex - 1 - ((gCurrentLogIndex - 1 - i) % MAX_LOG_SIZE)
Previous(i) == IF Newest(i) - MAX_LOG_SIZE < 0 THEN None ELSE Newest(i) - MAX_LOG_SIZE

Order == [mAdditionalInfo |-> 1, mMessage |-> 2, mThreadId |-> 3]

(* What is still to be stored in a slot. *)
Missing(i) ==
  {f \in Fields : \E t \in Writing : Slot(index[t]) = i /\ Order[f] >= Order[doing[t]]}

(***************************************************************************)
(* Although nothing locks the ring, a slot holds its newest event, but for *)
(* the fields its writer has not come to, and those are of the one before: *)
(* two events mix only in a slot whose writer was overtaken by a whole     *)
(* ring of other events.                                                   *)
(***************************************************************************)
SlotsExact ==
  /\ LogTypeOK
  /\ \A i \in Slots \ lapped, f \in Fields :
       i < gCurrentLogIndex =>
         gLogEvents[i][f] = IF f \in Missing(i) THEN Previous(i) ELSE Newest(i)

Finished(e) == \A t \in CrashThreads : doing[t] \in Fields => index[t] # e

Row(e) == [f \in Fields |-> e]

(***************************************************************************)
(* The report contains every event that was finished before the crash and  *)
(* is younger than one ring; until the ring wraps, newest first.           *)
(***************************************************************************)
ReportTellsAll ==
  ended =>
    \A e \in Events :
      gCurrentLogIndex - e <= MAX_LOG_SIZE /\ Finished(e) /\ Slot(e) \notin lapped =>
        \E i \in DOMAIN report :
          /\ report[i] = Row(e)
          /\ gCurrentLogIndex <= MAX_LOG_SIZE => i = gCurrentLogIndex - e

(***************************************************************************)
(* Nobody writes to the ring while it is dumped: only the thread that      *)
(* dumps has not been suspended.                                           *)
(***************************************************************************)
DumpedAlone == [][ended' # ended => Cardinality(CrashThreads \ suspended) = 1]_logVars

(***************************************************************************)
(* A crash ends the process with a report, unless two threads crash at the *)
(* same time and suspend each other: then it hangs, and nothing is told.   *)
(***************************************************************************)
CrashIsReported ==
  Crashing # {} ~> (ended \/ Cardinality(Crashing \cap suspended) > 1)
=============================================================================
