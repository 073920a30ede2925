---------------------- MODULE GrandCentralExecuter_proofs ----------------------
(***************************************************************************)
(* Proofs about GrandCentralExecuter, for any finite set of threads and    *)
(* any number of tasks.  The inductive invariant is TypeOK together with   *)
(* WorkHasOneOwner and CountExact: that the count stays a natural number  *)
(* needs an owner's share in it, and that there is at most one owner needs *)
(* that a count of zero excludes one.                                      *)
(***************************************************************************)
EXTENDS GrandCentralExecuter, FiniteSetTheorems, TLAPS

IInv == TypeOK /\ WorkHasOneOwner /\ CountExact

-----------------------------------------------------------------------------
(* What a move of one thread does to the set of threads at some places. *)
LEMMA AtFinite ==
  ASSUME NEW P
  PROVE  IsFiniteSet(At(P)) /\ Cardinality(At(P)) \in Nat
  <1>1. At(P) \in SUBSET IoThreads
    BY DEF At
  <1>2. IsFiniteSet(At(P))
    BY <1>1, FS_Subset, DispatchAssumption DEF DispatchAssumption
  <1>3. QED
    BY <1>2, FS_CardinalityType

LEMMA GotoMoves ==
  ASSUME NEW P, NEW t \in IoThreads, NEW place,
         pc \in [IoThreads -> PcValues], Goto(t, place)
  PROVE  /\ At(P)' = IF place \in P THEN At(P) \cup {t} ELSE At(P) \ {t}
         /\ Cardinality(At(P))' =
              Cardinality(At(P)) + (IF place \in P THEN 1 ELSE 0)
                                 - (IF pc[t] \in P THEN 1 ELSE 0)
  <1>1. At(P)' = IF place \in P THEN At(P) \cup {t} ELSE At(P) \ {t}
    BY DEF At, Goto
  <1>2. t \in At(P) <=> pc[t] \in P
    BY DEF At
  <1>3. /\ Cardinality(At(P) \cup {t}) =
             IF t \in At(P) THEN Cardinality(At(P)) ELSE Cardinality(At(P)) + 1
        /\ Cardinality(At(P) \ {t}) =
             IF t \in At(P) THEN Cardinality(At(P)) - 1 ELSE Cardinality(At(P))
    BY AtFinite, FS_AddElement, FS_RemoveElement
  <1>4. Cardinality(At(P)) \in Nat
    BY AtFinite
  <1>5. Cardinality(At(P))' = Cardinality(At(P)')
    OBVIOUS
  <1>6. QED
    BY <1>1, <1>2, <1>3, <1>4, <1>5

-----------------------------------------------------------------------------
LEMMA InitHolds == Init => IInv
  <1> SUFFICES ASSUME Init PROVE IInv
    OBVIOUS
  <1>1. TypeOK
    BY DispatchAssumption DEF Init, TypeOK, PcValues, Tasks, DispatchAssumption
  <1>2. Owners = {} /\ At({"push", "firstPush"}) = {} /\ At({"run", "decrement"}) = {}
    BY DEF Init, Owners, At
  <1>3. mRemainTaskCount = 0 /\ Len(mCentralTaskQueue) = 0
    BY DEF Init
  <1>4. WorkHasOneOwner
    BY <1>2, <1>3 DEF WorkHasOneOwner
  <1>5. Cardinality({}) = 0
    BY FS_EmptySet
  <1>6. CountExact
    BY <1>2, <1>3, <1>5, SMTT(60) DEF CountExact
  <1>7. QED
    BY <1>1, <1>4, <1>6 DEF IInv

(***************************************************************************)
(* The type invariant, one action at a time.                               *)
(***************************************************************************)
LEMMA TypeKept ==
  ASSUME IInv, NEW t \in IoThreads, DoDispatch(t) \/ Proceed(t)
  PROVE  TypeOK'
  <1> USE DEF TypeOK
  <1>0. TypeOK
    BY DEF IInv
  <1>1. CASE DoDispatch(t)
    <2>1. dispatched[t] + 1 \in 1 .. MaxDispatch
      BY <1>0, <1>1, DispatchAssumption DEF DoDispatch, DispatchAssumption
    <2>2. task' = [task EXCEPT ![t] = <<t, dispatched[t] + 1>>]
          /\ dispatched' = [dispatched EXCEPT ![t] = dispatched[t] + 1]
          /\ mRemainTaskCount' = mRemainTaskCount + 1
          /\ UNCHANGED <<mCentralTaskQueue, executed>>
      BY <1>1 DEF DoDispatch
    <2>3. pc' \in [IoThreads -> PcValues]
          /\ \A u \in IoThreads : u # t => pc'[u] = pc[u]
      BY <1>0, <1>1 DEF DoDispatch, Goto, PcValues
    <2>4. <<t, dispatched[t] + 1>> \in Tasks
      BY <2>1 DEF Tasks
    <2>5. task' \in [IoThreads -> IoThreads \X Nat]
      BY <1>0, <2>1, <2>2, DispatchAssumption DEF DispatchAssumption
    <2>6. \A u \in IoThreads : pc'[u] # "out" => task'[u] \in Tasks
      BY <1>0, <2>2, <2>3, <2>4
    <2>7. dispatched' \in [IoThreads -> 0 .. MaxDispatch]
      BY <1>0, <2>1, <2>2, DispatchAssumption DEF DispatchAssumption
    <2>8. /\ mRemainTaskCount' \in Nat
          /\ mCentralTaskQueue' \in Seq(Tasks) /\ executed' \in Seq(Tasks)
      BY <1>0, <2>2
    <2>9. QED
      BY <2>3, <2>5, <2>6, <2>7, <2>8
  <1>2. CASE Push(t)
    <2>1. task[t] \in Tasks
      BY <1>0, <1>2 DEF Push
    <2>2. mCentralTaskQueue' \in Seq(Tasks)
      BY <1>0, <1>2, <2>1 DEF Push
    <2>3. pc' \in [IoThreads -> PcValues]
          /\ \A u \in IoThreads : pc'[u] # "out" => pc[u] # "out"
      BY <1>0, <1>2 DEF Push, Goto, PcValues
    <2>4. QED
      BY <1>0, <1>2, <2>2, <2>3 DEF Push
  <1>3. CASE TryPop(t)
    <2>1. Head(mCentralTaskQueue) \in Tasks /\ mCentralTaskQueue' \in Seq(Tasks)
      BY <1>0, <1>3 DEF TryPop
    <2>2. Head(mCentralTaskQueue) \in IoThreads \X Nat
      BY <2>1, DispatchAssumption DEF Tasks, DispatchAssumption
    <2>3. task' = [task EXCEPT ![t] = Head(mCentralTaskQueue)]
          /\ UNCHANGED <<mRemainTaskCount, dispatched, executed>>
      BY <1>3 DEF TryPop
    <2>4. pc' \in [IoThreads -> PcValues]
          /\ \A u \in IoThreads : u # t => pc'[u] = pc[u]
      BY <1>0, <1>3 DEF TryPop, Goto, PcValues
    <2>5. QED
      BY <1>0, <2>1, <2>2, <2>3, <2>4
  <1>4. CASE RunTask(t)
    <2>1. task[t] \in Tasks
      BY <1>0, <1>4 DEF RunTask
    <2>2. executed' \in Seq(Tasks)
      BY <1>0, <1>4, <2>1 DEF RunTask
    <2>3. pc' \in [IoThreads -> PcValues]
          /\ \A u \in IoThreads : pc'[u] # "out" => pc[u] # "out"
      BY <1>0, <1>4 DEF RunTask, Goto, PcValues
    <2>4. QED
      BY <1>0, <1>4, <2>2, <2>3 DEF RunTask
  <1>5. CASE Decrement(t)
    <2>1. mRemainTaskCount > 0
      BY <1>5 DEF IInv, WorkHasOneOwner, Owners, At, Decrement
    <2>2. mRemainTaskCount' \in Nat
      BY <1>0, <1>5, <2>1 DEF Decrement
    <2>3. pc' \in [IoThreads -> PcValues]
          /\ \A u \in IoThreads : pc'[u] # "out" => pc[u] # "out"
      BY <1>0, <1>5 DEF Decrement, Goto, PcValues
    <2>4. QED
      BY <1>0, <1>5, <2>2, <2>3 DEF Decrement
  <1>6. QED
    BY <1>1, <1>2, <1>3, <1>4, <1>5 DEF Proceed

(***************************************************************************)
(* One owner: only a count that was zero makes one, and only the owner     *)
(* brings it back to zero.                                                 *)
(***************************************************************************)
LEMMA OwnerKept ==
  ASSUME IInv, NEW t \in IoThreads, DoDispatch(t) \/ Proceed(t)
  PROVE  WorkHasOneOwner'
  <1>0. pc \in [IoThreads -> PcValues] /\ mRemainTaskCount \in Nat
    BY DEF IInv, TypeOK
  <1>1. /\ mRemainTaskCount > 0 <=> Owners # {}
        /\ \A u, v \in Owners : u = v
    BY DEF IInv, WorkHasOneOwner
  <1>2. CASE DoDispatch(t)
    <2>1. CASE mRemainTaskCount = 0
      <3>1. Owners' = {t}
        BY <1>0, <1>1, <1>2, <2>1 DEF DoDispatch, Goto, Owners, At
      <3>2. QED
        BY <1>2, <2>1, <3>1 DEF DoDispatch, WorkHasOneOwner
    <2>2. CASE mRemainTaskCount > 0
      <3>1. Owners' = Owners
        BY <1>0, <1>2, <2>2 DEF DoDispatch, Goto, Owners, At
      <3>2. mRemainTaskCount' > 0
        BY <1>0, <1>2 DEF DoDispatch
      <3>3. QED
        BY <1>1, <2>2, <3>1, <3>2 DEF WorkHasOneOwner
    <2>3. QED
      BY <1>0, <2>1, <2>2
  <1>3. CASE Push(t) \/ TryPop(t) \/ RunTask(t)
    <2>1. Owners' = Owners
      BY <1>0, <1>3 DEF Push, TryPop, RunTask, Goto, Owners, At
    <2>2. mRemainTaskCount' = mRemainTaskCount
      BY <1>3 DEF Push, TryPop, RunTask
    <2>3. QED
      BY <1>1, <2>1, <2>2 DEF WorkHasOneOwner
  <1>4. CASE Decrement(t)
    <2>1. t \in Owners /\ mRemainTaskCount > 0
      BY <1>1, <1>4 DEF Decrement, Owners, At
    <2>2. CASE mRemainTaskCount' = 0
      <3>1. Owners' = Owners \ {t}
        BY <1>0, <1>4, <2>2 DEF Decrement, Goto, Owners, At
      <3>2. QED
        BY <1>1, <2>1, <2>2, <3>1 DEF WorkHasOneOwner
    <2>3. CASE mRemainTaskCount' # 0
      <3>1. Owners' = Owners
        BY <1>0, <1>4, <2>3 DEF Decrement, Goto, Owners, At
      <3>2. mRemainTaskCount' > 0
        BY <1>0, <1>4, <2>1, <2>3 DEF Decrement
      <3>3. QED
        BY <1>1, <2>1, <3>1, <3>2 DEF WorkHasOneOwner
    <2>4. QED
      BY <2>2, <2>3
  <1>5. QED
    BY <1>2, <1>3, <1>4 DEF Proceed

(***************************************************************************)
(* The count: the queue and the two groups of threads exchange one task at *)
(* a time.                                                                 *)
(***************************************************************************)
LEMMA CountKept ==
  ASSUME IInv, NEW t \in IoThreads, DoDispatch(t) \/ Proceed(t)
  PROVE  CountExact'
  <1> DEFINE pushing == Cardinality(At({"push", "firstPush"}))
             busy == Cardinality(At({"run", "decrement"}))
  <1>0. /\ pc \in [IoThreads -> PcValues]
        /\ mRemainTaskCount = Len(mCentralTaskQueue) + pushing + busy
        /\ mCentralTaskQueue \in Seq(Tasks) /\ task[t] \in IoThreads \X Nat
        /\ Len(mCentralTaskQueue) \in Nat
    BY DEF IInv, TypeOK, CountExact
  <1>1. pushing \in Nat /\ busy \in Nat
    BY AtFinite
  <1>2. ASSUME NEW place, Goto(t, place)
        PROVE  /\ pushing' = pushing + (IF place \in {"push", "firstPush"} THEN 1 ELSE 0)
                                     - (IF pc[t] \in {"push", "firstPush"} THEN 1 ELSE 0)
               /\ busy' = busy + (IF place \in {"run", "decrement"} THEN 1 ELSE 0)
                               - (IF pc[t] \in {"run", "decrement"} THEN 1 ELSE 0)
    BY <1>0, <1>2, GotoMoves
  <1>3. (mRemainTaskCount' = Len(mCentralTaskQueue)' + pushing' + busy') => CountExact'
    BY DEF CountExact
  <1> HIDE DEF pushing, busy
  <1>4. CASE DoDispatch(t)
    <2>1. pushing' = pushing + 1 /\ busy' = busy
      BY <1>1, <1>2, <1>4 DEF DoDispatch
    <2>2. QED
      BY <1>0, <1>1, <1>3, <1>4, <2>1 DEF DoDispatch
  <1>5. CASE Push(t)
    <2>1. pushing' = pushing - 1 /\ busy' = busy
      BY <1>1, <1>2, <1>5 DEF Push
    <2>2. Len(mCentralTaskQueue)' = Len(mCentralTaskQueue) + 1
      BY <1>0, <1>5 DEF Push
    <2>3. QED
      BY <1>0, <1>1, <1>3, <1>5, <2>1, <2>2 DEF Push
  <1>6. CASE TryPop(t)
    <2>1. pushing' = pushing /\ busy' = busy + 1
      BY <1>1, <1>2, <1>6 DEF TryPop
    <2>2. Len(mCentralTaskQueue)' = Len(mCentralTaskQueue) - 1
      BY <1>0, <1>6 DEF TryPop
    <2>3. QED
      BY <1>0, <1>1, <1>3, <1>6, <2>1, <2>2 DEF TryPop
  <1>7. CASE RunTask(t)
    <2>1. pushing' = pushing /\ busy' = busy
      BY <1>1, <1>2, <1>7 DEF RunTask
    <2>2. QED
      BY <1>0, <1>1, <1>3, <1>7, <2>1 DEF RunTask
  <1>8. CASE Decrement(t)
    <2>1. pushing' = pushing /\ busy' = busy - 1
      BY <1>1, <1>2, <1>8 DEF Decrement
    <2>2. QED
      BY <1>0, <1>1, <1>3, <1>8, <2>1 DEF Decrement
  <1>9. QED
    BY <1>4, <1>5, <1>6, <1>7, <1>8 DEF Proceed

LEMMA InvariantKept == IInv /\ [Next]_vars => IInv'
  <1>1. CASE UNCHANGED vars
    BY <1>1 DEF IInv, TypeOK, WorkHasOneOwner, CountExact, Owners, At, vars
  <1>2. ASSUME IInv, NEW t \in IoThreads, DoDispatch(t) \/ Proceed(t)
        PROVE  IInv'
    BY <1>2, TypeKept, OwnerKept, CountKept DEF IInv
  <1>3. QED
    BY <1>1, <1>2 DEF Next

LEMMA Invariance == Spec => []IInv
  BY InitHolds, InvariantKept, PTL DEF Spec

(***************************************************************************)
(* The type invariant holds; in particular mRemainTaskCount never drops    *)
(* below zero.                                                             *)
(***************************************************************************)
THEOREM TypeCorrect == Spec => []TypeOK
  <1>1. IInv => TypeOK
    BY DEF IInv
  <1>2. QED
    BY <1>1, Invariance, PTL

(***************************************************************************)
(* While mRemainTaskCount is positive exactly one thread is in DoDispatch  *)
(* as the one that runs the tasks.                                         *)
(***************************************************************************)
THEOREM OneOwner == Spec => []WorkHasOneOwner
  <1>1. IInv => WorkHasOneOwner
    BY DEF IInv
  <1>2. QED
    BY <1>1, Invariance, PTL

(***************************************************************************)
(* The count is what is queued, about to be queued and not finished.       *)
(***************************************************************************)
THEOREM CountCorrect == Spec => []CountHonest
  <1>1. IInv => CountHonest
    BY DEF IInv, CountHonest
  <1>2. QED
    BY <1>1, Invariance, PTL

(***************************************************************************)
(* DoDispatch implements a serial executer: every push submits, and a pop  *)
(* starts a task when no other one is running because there is one owner.  *)
(***************************************************************************)
THEOREM ImplementsSerialExecuter == Spec => IsSerial
  <1> DEFINE now == {task[u] : u \in At({"run"})}
  <1>1. Init => Serial!Init
    BY DEF Init, Serial!Init, At
  <1>2. ASSUME IInv, NEW t \in IoThreads, DoDispatch(t) \/ Proceed(t)
        PROVE  Serial!Next \/ UNCHANGED <<mCentralTaskQueue, now, executed>>
    <2>0. /\ pc \in [IoThreads -> PcValues] /\ task \in [IoThreads -> IoThreads \X Nat]
          /\ pc[t] # "out" => task[t] \in Tasks
          /\ \A u, v \in Owners : u = v
      BY <1>2 DEF IInv, TypeOK, WorkHasOneOwner
    <2>1. CASE DoDispatch(t)
      <3>1. now' = now
        BY <2>0, <2>1 DEF DoDispatch, Goto, At
      <3>2. QED
        BY <2>1, <3>1 DEF DoDispatch
    <2>2. CASE Push(t)
      <3>1. now' = now
        BY <2>0, <2>2 DEF Push, Goto, At
      <3>2. Serial!Submit(task[t]) /\ task[t] \in Tasks
        BY <2>0, <2>2, <3>1 DEF Push, Serial!Submit
      <3>3. QED
        BY <3>2 DEF Serial!Next
    <2>3. CASE TryPop(t)
      <3>1. At({"run"}) = {} /\ At({"run"})' = {t}
        BY <2>0, <2>3 DEF TryPop, Goto, At, Owners
      <3>2. task'[t] = Head(mCentralTaskQueue)
        BY <2>0, <2>3 DEF TryPop
      <3>3. now = {} /\ now' = {Head(mCentralTaskQueue)}
        BY <3>1, <3>2
      <3>4. Serial!Start
        BY <2>3, <3>3 DEF TryPop, Serial!Start
      <3>5. QED
        BY <3>4 DEF Serial!Next
    <2>4. CASE RunTask(t)
      <3>1. At({"run"}) = {t} /\ At({"run"})' = {}
        BY <2>0, <2>4 DEF RunTask, Goto, At, Owners
      <3>2. now = {task[t]} /\ now' = {}
        BY <3>1
      <3>3. PICK x \in Tasks : x = task[t]
        BY <2>0, <2>4 DEF RunTask
      <3>4. Serial!Finish(x)
        BY <2>4, <3>2, <3>3 DEF RunTask, Serial!Finish
      <3>5. QED
        BY <3>4 DEF Serial!Next
    <2>5. CASE Decrement(t)
      <3>1. now' = now
        BY <2>0, <2>5 DEF Decrement, Goto, At
      <3>2. QED
        BY <2>5, <3>1 DEF Decrement
    <2>6. QED
      BY <1>2, <2>1, <2>2, <2>3, <2>4, <2>5 DEF Proceed
  <1>3. UNCHANGED vars => UNCHANGED <<mCentralTaskQueue, now, executed>>
    BY DEF vars, At
  <1>4. IInv /\ [Next]_vars =>
          [Serial!Next]_<<mCentralTaskQueue, {task[t] : t \in At({"run"})}, executed>>
    BY <1>2, <1>3 DEF Next
  <1>5. QED
    BY <1>1, <1>4, Invariance, PTL DEF Spec, IsSerial, Serial!Spec

-----------------------------------------------------------------------------
(***************************************************************************)
(* The order of a thread's own tasks, followed from its push through the   *)
(* queue and the running task to the history.                              *)
(***************************************************************************)
Before(x, y) == x[1] = y[1] => x[2] < y[2]

Pushing(t) == pc[t] \in {"push", "firstPush"}

(* x is not newer than what its thread has dispatched and pushed. *)
Pushed(x) == /\ x[2] <= dispatched[x[1]]
             /\ Pushing(x[1]) => x[2] < dispatched[x[1]]

InOrder(s) == \A i, j \in 1 .. Len(s) : i < j => Before(s[i], s[j])

OrderInv ==
  /\ InOrder(executed) /\ InOrder(mCentralTaskQueue)
  /\ \A i \in 1 .. Len(executed) : \A j \in 1 .. Len(mCentralTaskQueue) :
       Before(executed[i], mCentralTaskQueue[j])
  /\ \A t \in At({"run"}) :
       /\ \A i \in 1 .. Len(executed) : Before(executed[i], task[t])
       /\ \A j \in 1 .. Len(mCentralTaskQueue) : Before(task[t], mCentralTaskQueue[j])
       /\ Pushed(task[t])
  /\ \A i \in 1 .. Len(executed) : Pushed(executed[i])
  /\ \A j \in 1 .. Len(mCentralTaskQueue) : Pushed(mCentralTaskQueue[j])
  /\ \A t \in IoThreads : Pushing(t) => task[t] = <<t, dispatched[t]>>

LEMMA PushedStays ==
  ASSUME IInv, NEW t \in IoThreads, DoDispatch(t) \/ Proceed(t),
         NEW x \in Tasks, Pushed(x)
  PROVE  Pushed(x)'
  <1>1. /\ pc \in [IoThreads -> PcValues]
        /\ dispatched \in [IoThreads -> 0 .. MaxDispatch]
        /\ \A u \in IoThreads : dispatched[u] \in Nat
        /\ x[1] \in IoThreads /\ x[2] \in Nat
    BY DispatchAssumption DEF IInv, TypeOK, Tasks, DispatchAssumption
  <1>2. CASE DoDispatch(t)
    <2>1. /\ dispatched' = [dispatched EXCEPT ![t] = dispatched[t] + 1]
          /\ pc[t] = "out" /\ \A u \in IoThreads : u # t => pc'[u] = pc[u]
      BY <1>1, <1>2 DEF DoDispatch, Goto
    <2>2. CASE x[1] = t
      <3>1. x[2] <= dispatched[t] /\ dispatched'[x[1]] = dispatched[t] + 1
        BY <1>1, <2>1, <2>2 DEF Pushed
      <3>2. QED
        BY <1>1, <3>1 DEF Pushed
    <2>3. CASE x[1] # t
      BY <1>1, <2>1, <2>3 DEF Pushed, Pushing
    <2>4. QED
      BY <2>2, <2>3
  <1>3. CASE Proceed(t)
    <2>1. /\ dispatched' = dispatched
          /\ \A u \in IoThreads : Pushing(u)' => Pushing(u)
      BY <1>1, <1>3 DEF Proceed, Push, TryPop, RunTask, Decrement, Goto, Pushing
    <2>2. QED
      BY <1>1, <2>1 DEF Pushed
  <1>4. QED
    BY <1>2, <1>3

LEMMA OrderKept ==
  ASSUME IInv, OrderInv, NEW t \in IoThreads, DoDispatch(t) \/ Proceed(t)
  PROVE  OrderInv'
  <1>0. /\ pc \in [IoThreads -> PcValues] /\ task \in [IoThreads -> IoThreads \X Nat]
        /\ dispatched \in [IoThreads -> 0 .. MaxDispatch]
        /\ mCentralTaskQueue \in Seq(Tasks) /\ executed \in Seq(Tasks)
        /\ \A u \in IoThreads : pc[u] # "out" => task[u] \in Tasks
        /\ \A u, v \in Owners : u = v
    BY DEF IInv, TypeOK, WorkHasOneOwner
  <1>1. /\ \A i \in 1 .. Len(executed) : executed[i] \in Tasks
        /\ \A j \in 1 .. Len(mCentralTaskQueue) : mCentralTaskQueue[j] \in Tasks
        /\ Len(executed) \in Nat /\ Len(mCentralTaskQueue) \in Nat
    BY <1>0
  <1>2. /\ \A i \in 1 .. Len(executed) : Pushed(executed[i])
        /\ \A j \in 1 .. Len(mCentralTaskQueue) : Pushed(mCentralTaskQueue[j])
        /\ \A u \in At({"run"}) : Pushed(task[u])
        /\ \A u \in IoThreads : Pushing(u) => task[u] = <<u, dispatched[u]>>
    BY DEF OrderInv
  <1>3. /\ InOrder(executed) /\ InOrder(mCentralTaskQueue)
        /\ \A i \in 1 .. Len(executed) : \A j \in 1 .. Len(mCentralTaskQueue) :
             Before(executed[i], mCentralTaskQueue[j])
        /\ \A u \in At({"run"}) :
             /\ \A i \in 1 .. Len(executed) : Before(executed[i], task[u])
             /\ \A j \in 1 .. Len(mCentralTaskQueue) : Before(task[u], mCentralTaskQueue[j])
    BY DEF OrderInv
  <1>4. \A x \in Tasks : Pushed(x) => Pushed(x)'
    BY PushedStays
  <1>5. CASE DoDispatch(t)
    <2>1. At({"run"})' = At({"run"}) /\ t \notin At({"run"})
      BY <1>0, <1>5 DEF DoDispatch, Goto, At
    <2>2. /\ UNCHANGED <<mCentralTaskQueue, executed>>
          /\ \A u \in IoThreads : u # t => task'[u] = task[u] /\ dispatched'[u] = dispatched[u]
          /\ \A u \in IoThreads : u # t => pc'[u] = pc[u]
          /\ task'[t] = <<t, dispatched'[t]>>
      BY <1>0, <1>5 DEF DoDispatch, Goto
    <2>3. \A u \in At({"run"}) : u \in IoThreads /\ u # t /\ task'[u] = task[u] /\ task[u] \in Tasks
      BY <1>0, <2>1, <2>2 DEF At
    <2>4. \A u \in IoThreads : Pushing(u)' => task'[u] = <<u, dispatched'[u]>>
      BY <1>2, <2>2 DEF Pushing
    <2>5. \A u \in At({"run"})' : Pushed(task[u])'
      BY <1>2, <1>4, <2>1, <2>3 DEF Pushed, Pushing
    <2>6. /\ \A i \in 1 .. Len(executed)' : Pushed(executed[i])'
          /\ \A j \in 1 .. Len(mCentralTaskQueue)' : Pushed(mCentralTaskQueue[j])'
      BY <1>1, <1>2, <1>4, <2>2 DEF Pushed, Pushing
    <2>7. QED
      BY <1>3, <2>1, <2>2, <2>3, <2>4, <2>5, <2>6 DEF OrderInv, InOrder, Before
  <1>6. CASE Push(t)
    <2>1. /\ At({"run"})' = At({"run"}) /\ UNCHANGED <<executed, task, dispatched>>
          /\ Pushing(t) /\ \A u \in IoThreads : Pushing(u)' => Pushing(u)
      BY <1>0, <1>6 DEF Push, Goto, At, Pushing
    <2>2. task[t] \in Tasks /\ task[t] = <<t, dispatched[t]>>
      BY <1>0, <1>2, <1>6, <2>1 DEF Push
    <2>3. /\ Len(mCentralTaskQueue)' = Len(mCentralTaskQueue) + 1
          /\ \A j \in 1 .. Len(mCentralTaskQueue) : mCentralTaskQueue'[j] = mCentralTaskQueue[j]
          /\ mCentralTaskQueue'[Len(mCentralTaskQueue) + 1] = task[t]
      BY <1>0, <1>6, <2>2 DEF Push
    <2>4. \A x \in Tasks : Pushed(x) => Before(x, task[t])
      BY <2>1, <2>2 DEF Pushed, Before, Tasks
    <2>5. Pushed(task[t])'
      <3>1. ~Pushing(t)'
        BY <1>0, <1>6 DEF Push, Goto, Pushing
      <3>2. dispatched'[t] = dispatched[t] /\ dispatched[t] \in Nat
        BY <1>0, <2>1, DispatchAssumption DEF DispatchAssumption
      <3>3. task'[t] = <<t, dispatched[t]>>
        BY <2>1, <2>2
      <3>4. QED
        BY <3>1, <3>2, <3>3 DEF Pushed
    <2>6. \A u \in At({"run"}) : task[u] \in Tasks
      BY <1>0 DEF At
    <2>7. InOrder(mCentralTaskQueue)'
      <3> SUFFICES ASSUME NEW i \in 1 .. Len(mCentralTaskQueue)',
                          NEW j \in 1 .. Len(mCentralTaskQueue)', i < j
                   PROVE  Before(mCentralTaskQueue'[i], mCentralTaskQueue'[j])
        BY DEF InOrder
      <3>1. i \in 1 .. Len(mCentralTaskQueue)
        BY <1>1, <2>3
      <3>2. CASE j = Len(mCentralTaskQueue) + 1
        BY <1>1, <1>2, <2>3, <2>4, <3>1, <3>2
      <3>3. CASE j \in 1 .. Len(mCentralTaskQueue)
        BY <1>3, <2>3, <3>1, <3>3 DEF InOrder
      <3>4. QED
        BY <1>1, <2>3, <3>2, <3>3
    <2>8. \A j \in 1 .. Len(mCentralTaskQueue)' : Pushed(mCentralTaskQueue[j])'
      <3> SUFFICES ASSUME NEW j \in 1 .. Len(mCentralTaskQueue)'
                   PROVE  Pushed(mCentralTaskQueue[j])'
        OBVIOUS
      <3>1. CASE j = Len(mCentralTaskQueue) + 1
        BY <2>1, <2>3, <2>5, <3>1 DEF Pushed, Pushing
      <3>2. CASE j \in 1 .. Len(mCentralTaskQueue)
        BY <1>1, <1>2, <1>4, <2>3, <3>2 DEF Pushed, Pushing
      <3>3. QED
        BY <1>1, <2>3, <3>1, <3>2
    <2>9. \A i \in 1 .. Len(executed) : \A j \in 1 .. Len(mCentralTaskQueue)' :
            Before(executed[i], mCentralTaskQueue'[j])
      BY <1>1, <1>2, <1>3, <2>3, <2>4
    <2>10. \A u \in At({"run"}) : \A j \in 1 .. Len(mCentralTaskQueue)' :
             Before(task[u], mCentralTaskQueue'[j])
      BY <1>1, <1>2, <1>3, <2>3, <2>4, <2>6
    <2>11. \A u \in At({"run"}) : Pushed(task[u])'
      BY <1>2, <1>4, <2>1, <2>6 DEF Pushed, Pushing
    <2>12. \A i \in 1 .. Len(executed) : Pushed(executed[i])'
      BY <1>1, <1>2, <1>4, <2>1 DEF Pushed, Pushing
    <2>13. QED
      BY <1>2, <1>3, <2>1, <2>7, <2>8, <2>9, <2>10, <2>11, <2>12
         DEF OrderInv, InOrder, Before
  <1>7. CASE TryPop(t)
    <2>1. /\ At({"run"}) = {} /\ At({"run"})' = {t}
          /\ UNCHANGED <<executed, dispatched>>
          /\ \A u \in IoThreads : Pushing(u)' => Pushing(u) /\ u # t
          /\ \A u \in IoThreads : u # t => task'[u] = task[u]
      BY <1>0, <1>7 DEF TryPop, Goto, At, Owners, Pushing
    <2>2. /\ Len(mCentralTaskQueue) >= 1
          /\ Len(mCentralTaskQueue)' = Len(mCentralTaskQueue) - 1
          /\ \A j \in 1 .. Len(mCentralTaskQueue)' :
               mCentralTaskQueue'[j] = mCentralTaskQueue[j + 1]
          /\ task'[t] = mCentralTaskQueue[1]
      BY <1>0, <1>1, <1>7 DEF TryPop
    <2>3. \A j \in 1 .. Len(mCentralTaskQueue)' : j + 1 \in 2 .. Len(mCentralTaskQueue)
      BY <1>1, <2>2
    <2>4. InOrder(mCentralTaskQueue)'
      <3> SUFFICES ASSUME NEW i \in 1 .. Len(mCentralTaskQueue)',
                          NEW j \in 1 .. Len(mCentralTaskQueue)', i < j
                   PROVE  Before(mCentralTaskQueue[i + 1], mCentralTaskQueue[j + 1])
        BY <2>2 DEF InOrder
      <3>1. QED
        BY <1>1, <1>3, <2>2, <2>3 DEF InOrder
    <2>5. \A j \in 1 .. Len(mCentralTaskQueue)' :
            /\ Before(task'[t], mCentralTaskQueue'[j])
            /\ Pushed(mCentralTaskQueue[j])'
      <3> SUFFICES ASSUME NEW j \in 1 .. Len(mCentralTaskQueue)'
                   PROVE  /\ Before(task'[t], mCentralTaskQueue'[j])
                          /\ Pushed(mCentralTaskQueue[j])'
        OBVIOUS
      <3>1. j + 1 \in 1 .. Len(mCentralTaskQueue) /\ 1 \in 1 .. Len(mCentralTaskQueue)
            /\ 1 < j + 1
        BY <1>1, <2>2, <2>3
      <3>2. Before(mCentralTaskQueue[1], mCentralTaskQueue[j + 1])
        BY <1>3, <3>1 DEF InOrder
      <3>3. mCentralTaskQueue[j + 1] \in Tasks /\ Pushed(mCentralTaskQueue[j + 1])
        BY <1>1, <1>2, <3>1
      <3>4. PICK x \in Tasks : x = mCentralTaskQueue[j + 1] /\ Pushed(x) /\ Pushed(x)'
        BY <1>4, <3>3
      <3>5. x = mCentralTaskQueue'[j]
        BY <2>2, <3>4
      <3>6. Pushed(mCentralTaskQueue[j])'
        BY <3>4, <3>5 DEF Pushed, Pushing
      <3>7. QED
        BY <2>2, <3>2, <3>6
    <2>6. /\ \A i \in 1 .. Len(executed) : Before(executed[i], task'[t])
          /\ Pushed(task[t])'
      <3>1. 1 \in 1 .. Len(mCentralTaskQueue)
        BY <1>1, <2>2
      <3>2. \A i \in 1 .. Len(executed) : Before(executed[i], mCentralTaskQueue[1])
        BY <1>3, <3>1
      <3>3. PICK x \in Tasks : x = mCentralTaskQueue[1] /\ Pushed(x) /\ Pushed(x)'
        BY <1>1, <1>2, <1>4, <3>1
      <3>4. x = task'[t]
        BY <2>2, <3>3
      <3>5. Pushed(task[t])'
        BY <3>3, <3>4 DEF Pushed, Pushing
      <3>6. QED
        BY <2>2, <3>2, <3>5
    <2>7. \A i \in 1 .. Len(executed) : \A j \in 1 .. Len(mCentralTaskQueue)' :
            Before(executed[i], mCentralTaskQueue'[j])
      BY <1>1, <1>3, <2>2, <2>3
    <2>8. \A i \in 1 .. Len(executed) : Pushed(executed[i])'
      BY <1>1, <1>2, <1>4, <2>1 DEF Pushed, Pushing
    <2>9. \A u \in IoThreads : Pushing(u)' => task'[u] = <<u, dispatched[u]>>
      BY <1>2, <2>1
    <2>10. QED
      BY <1>3, <2>1, <2>4, <2>5, <2>6, <2>7, <2>8, <2>9 DEF OrderInv, InOrder, Before
  <1>8. CASE RunTask(t)
    <2>1. /\ At({"run"}) = {t} /\ At({"run"})' = {}
          /\ UNCHANGED <<mCentralTaskQueue, task, dispatched>>
          /\ \A u \in IoThreads : Pushing(u)' => Pushing(u)
      BY <1>0, <1>8 DEF RunTask, Goto, At, Owners, Pushing
    <2>2. task[t] \in Tasks
      BY <1>0, <1>8 DEF RunTask
    <2>3. /\ Len(executed)' = Len(executed) + 1
          /\ \A i \in 1 .. Len(executed) : executed'[i] = executed[i]
          /\ executed'[Len(executed) + 1] = task[t]
      BY <1>0, <1>8, <2>2 DEF RunTask
    <2>4. InOrder(executed)'
      <3> SUFFICES ASSUME NEW i \in 1 .. Len(executed)', NEW j \in 1 .. Len(executed)', i < j
                   PROVE  Before(executed'[i], executed'[j])
        BY DEF InOrder
      <3>1. i \in 1 .. Len(executed)
        BY <1>1, <2>3
      <3>2. CASE j = Len(executed) + 1
        BY <1>3, <2>1, <2>3, <3>1, <3>2
      <3>3. CASE j \in 1 .. Len(executed)
        BY <1>3, <2>3, <3>1, <3>3 DEF InOrder
      <3>4. QED
        BY <1>1, <2>3, <3>2, <3>3
    <2>5. \A i \in 1 .. Len(executed)' : \A j \in 1 .. Len(mCentralTaskQueue) :
            Before(executed'[i], mCentralTaskQueue[j])
      BY <1>1, <1>3, <2>1, <2>3
    <2>6. \A i \in 1 .. Len(executed)' : Pushed(executed[i])'
      <3> SUFFICES ASSUME NEW i \in 1 .. Len(executed)'
                   PROVE  Pushed(executed[i])'
        OBVIOUS
      <3>1. PICK x \in Tasks : x = executed'[i] /\ Pushed(x) /\ Pushed(x)'
        BY <1>1, <1>2, <1>4, <2>1, <2>2, <2>3
      <3>2. QED
        BY <3>1 DEF Pushed, Pushing
    <2>7. \A j \in 1 .. Len(mCentralTaskQueue) : Pushed(mCentralTaskQueue[j])'
      BY <1>1, <1>2, <1>4, <2>1 DEF Pushed, Pushing
    <2>8. QED
      BY <1>2, <1>3, <2>1, <2>4, <2>5, <2>6, <2>7 DEF OrderInv, InOrder, Before
  <1>9. CASE Decrement(t)
    <2>1. /\ At({"run"})' = At({"run"})
          /\ UNCHANGED <<mCentralTaskQueue, executed, task, dispatched>>
          /\ \A u \in IoThreads : Pushing(u)' => Pushing(u)
      BY <1>0, <1>9 DEF Decrement, Goto, At, Pushing
    <2>2. \A u \in At({"run"}) : task[u] \in Tasks
      BY <1>0 DEF At
    <2>3. /\ \A i \in 1 .. Len(executed) : Pushed(executed[i])'
          /\ \A j \in 1 .. Len(mCentralTaskQueue) : Pushed(mCentralTaskQueue[j])'
          /\ \A u \in At({"run"}) : Pushed(task[u])'
      BY <1>1, <1>2, <1>4, <2>1, <2>2 DEF Pushed, Pushing
    <2>4. QED
      BY <1>2, <1>3, <2>1, <2>3 DEF OrderInv, InOrder, Before
  <1>10. QED
    BY <1>5, <1>6, <1>7, <1>8, <1>9 DEF Proceed

(***************************************************************************)
(* The tasks of one thread run in the order in which it dispatched them.   *)
(***************************************************************************)
THEOREM OwnOrder == Spec => []OwnOrderKept
  <1>1. Init => OrderInv
    BY DEF Init, OrderInv, InOrder, At, Pushing
  <1>2. IInv /\ OrderInv /\ [Next]_vars => OrderInv'
    <2>1. CASE UNCHANGED vars
      BY <2>1 DEF OrderInv, InOrder, Before, Pushed, Pushing, At, vars
    <2>2. QED
      BY <2>1, OrderKept DEF Next
  <1>3. OrderInv => OwnOrderKept
    BY DEF OrderInv, InOrder, Before, OwnOrderKept
  <1>4. QED
    BY <1>1, <1>2, <1>3, Invariance, PTL DEF Spec
=============================================================================
