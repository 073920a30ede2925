------------------------- MODULE GrandCentralExecuter -------------------------
(***************************************************************************)
(* GrandCentralExecuter::DoDispatch of HW_05_MT.  Any I/O thread may       *)
(* dispatch a task.  A thread that raises mRemainTaskCount from zero runs  *)
(* everything that arrives until it brings the count back to zero; any     *)
(* other thread only leaves its task in the queue.  There is no lock: each *)
(* access to the counter and to the concurrent queue is a step.            *)
(*                                                                         *)
(* A task is its dispatching thread with a number.  Tasks come from        *)
(* Player::OnTick and do not dispatch others.                              *)
(***************************************************************************)
EXTENDS Integers, Sequences, FiniteSets

CONSTANTS IoThreads,
          MaxDispatch   (* bound: tasks a thread dispatches *)

ASSUME DispatchAssumption == IsFiniteSet(IoThreads) /\ MaxDispatch \in Nat

Tasks == IoThreads \X (1 .. MaxDispatch)

VARIABLES
  mRemainTaskCount, mCentralTaskQueue,
  pc,           (* where each thread is in DoDispatch                 *)
  task,         (* the task it pushes or runs there                   *)
  dispatched,   (* how many tasks it has dispatched                   *)
  executed      (* history: the tasks that have run, in that order    *)

vars == <<mRemainTaskCount, mCentralTaskQueue, pc, task, dispatched, executed>>

(* "push" leaves the task to the owner; "firstPush" is the owner's own. *)
PcValues == {"out", "push", "firstPush", "pop", "run", "decrement"}

At(places) == {t \in IoThreads : pc[t] \in places}

(* The thread that entered first and is to do all the work. *)
Owners == At({"firstPush", "pop", "run", "decrement"})

Init ==
  /\ mRemainTaskCount = 0 /\ mCentralTaskQueue = <<>>
  /\ pc = [t \in IoThreads |-> "out"]
  /\ task = [t \in IoThreads |-> <<t, 1>>]
  /\ dispatched = [t \in IoThreads |-> 0]
  /\ executed = <<>>

Goto(t, place) == pc' = [pc EXCEPT ![t] = place]

-----------------------------------------------------------------------------
(* Mutant: the result of the increment is compared with the wrong bound.   *)
SecondEntersToo(t) ==
  /\ pc[t] = "out" /\ dispatched[t] < MaxDispatch
  /\ mRemainTaskCount' = mRemainTaskCount + 1
  /\ dispatched' = [dispatched EXCEPT ![t] = @ + 1]
  /\ task' = [task EXCEPT ![t] = <<t, dispatched[t] + 1>>]
  /\ Goto(t, IF mRemainTaskCount' > 2 THEN "push" ELSE "firstPush")
  /\ UNCHANGED <<mCentralTaskQueue, executed>>

(* InterlockedIncrement64 decides who works. *)
DoDispatch(t) ==
  /\ pc[t] = "out" /\ dispatched[t] < MaxDispatch
  /\ mRemainTaskCount' = mRemainTaskCount + 1
  /\ dispatched' = [dispatched EXCEPT ![t] = @ + 1]
  /\ task' = [task EXCEPT ![t] = <<t, dispatched[t] + 1>>]
  /\ Goto(t, IF mRemainTaskCount' > 1 THEN "push" ELSE "firstPush")
  /\ UNCHANGED <<mCentralTaskQueue, executed>>

(* Mutant: the tasks are kept in a stack. *)
PushInFront(t) ==
  /\ pc[t] \in {"push", "firstPush"}
  /\ mCentralTaskQueue' = <<task[t]>> \o mCentralTaskQueue
  /\ Goto(t, IF pc[t] = "push" THEN "out" ELSE "pop")
  /\ UNCHANGED <<mRemainTaskCount, task, dispatched, executed>>

Push(t) ==
  /\ pc[t] \in {"push", "firstPush"}
  /\ mCentralTaskQueue' = Append(mCentralTaskQueue, task[t])
  /\ Goto(t, IF pc[t] = "push" THEN "out" ELSE "pop")
  /\ UNCHANGED <<mRemainTaskCount, task, dispatched, executed>>

(* With the queue empty but the count not zero the owner tries again: a    *)
(* push is on its way.                                                     *)
TryPop(t) ==
  /\ pc[t] = "pop" /\ mCentralTaskQueue # <<>>
  /\ task' = [task EXCEPT ![t] = Head(mCentralTaskQueue)]
  /\ mCentralTaskQueue' = Tail(mCentralTaskQueue)
  /\ Goto(t, "run")
  /\ UNCHANGED <<mRemainTaskCount, dispatched, executed>>

RunTask(t) ==
  /\ pc[t] = "run"
  /\ executed' = Append(executed, task[t])
  /\ Goto(t, "decrement")
  /\ UNCHANGED <<mRemainTaskCount, mCentralTaskQueue, task, dispatched>>

(* Mutant: the owner stops when the queue looks empty. *)
StopAtEmptyQueue(t) ==
  /\ pc[t] = "decrement"
  /\ mRemainTaskCount' = mRemainTaskCount - 1
  /\ Goto(t, IF mCentralTaskQueue = <<>> THEN "out" ELSE "pop")
  /\ UNCHANGED <<mCentralTaskQueue, task, dispatched, executed>>

(* Mutant: the owner forgets to count its task as done. *)
DecrementMissing(t) ==
  /\ pc[t] = "decrement"
  /\ Goto(t, IF mRemainTaskCount = 0 THEN "out" ELSE "pop")
  /\ UNCHANGED <<mRemainTaskCount, mCentralTaskQueue, task, dispatched, executed>>

Decrement(t) ==
  /\ pc[t] = "decrement"
  /\ mRemainTaskCount' = mRemainTaskCount - 1
  /\ Goto(t, IF mRemainTaskCount' = 0 THEN "out" ELSE "pop")
  /\ UNCHANGED <<mCentralTaskQueue, task, dispatched, executed>>

-----------------------------------------------------------------------------
Proceed(t) == Push(t) \/ TryPop(t) \/ RunTask(t) \/ Decrement(t)

Next == \E t \in IoThreads : DoDispatch(t) \/ Proceed(t)

Spec == Init /\ [][Next]_vars

(* Threads keep running and tasks end; nobody has to dispatch. *)
FairSpec == Spec /\ \A t \in IoThreads : WF_vars(Proceed(t))

-----------------------------------------------------------------------------
TypeOK ==
  /\ mRemainTaskCount \in Nat
  /\ mCentralTaskQueue \in Seq(Tasks) /\ executed \in Seq(Tasks)
  /\ pc \in [IoThreads -> PcValues]
  /\ task \in [IoThreads -> IoThreads \X Nat]
  /\ \A t \in IoThreads : pc[t] # "out" => task[t] \in Tasks
  /\ dispatched \in [IoThreads -> 0 .. MaxDispatch]

(* Exactly one thread is at work while tasks remain, and none otherwise.   *)
WorkHasOneOwner ==
  /\ mRemainTaskCount > 0 <=> Owners # {}
  /\ \A t, u \in Owners : t = u

CountExact ==
  mRemainTaskCount = Len(mCentralTaskQueue)
    + Cardinality(At({"push", "firstPush"})) + Cardinality(At({"run", "decrement"}))

(***************************************************************************)
(* The counter covers what is queued, about to be queued and not finished, *)
(* and is never negative.  While it is not zero exactly one thread is at   *)
(* work, even between a test of the counter and the push that follows it,  *)
(* so no task is left behind ("the first to enter does it all",            *)
(* GrandCentralExecuter.h:27); when it is zero nobody is.                  *)
(***************************************************************************)
CountHonest == TypeOK /\ WorkHasOneOwner /\ CountExact

Serial == INSTANCE SerialExecuter
  WITH waiting <- mCentralTaskQueue,
       running <- {task[t] : t \in At({"run"})},
       finished <- executed

(* Tasks run one at a time and in the order in which they were queued. *)
IsSerial == Serial!Spec

(***************************************************************************)
(* A thread's tasks run in the order in which that thread dispatched them, *)
(* whoever runs them.                                                      *)
(***************************************************************************)
OwnOrderKept ==
  \A i, j \in 1 .. Len(executed) :
    i < j /\ executed[i][1] = executed[j][1] => executed[i][2] < executed[j][2]

(* A dispatched task is run. *)
EveryTaskRuns ==
  \A t \in IoThreads : \A n \in 1 .. MaxDispatch :
    dispatched[t] >= n ~> \E i \in 1 .. Len(executed) : executed[i] = <<t, n>>
=============================================================================
