-------------------------------- MODULE Players --------------------------------
(***************************************************************************)
(* The players of HW_05_MT: thread-local timers (Timer, DoSyncAfter), the  *)
(* player map (PlayerManager), the life of a player between the accept and *)
(* the return of its session, its buffs, and the lock order they all obey  *)
(* (LockOrderChecker, FastSpinlockGuard).                                  *)
(*                                                                         *)
(* A session owns one player for ever, so a player stands for its session  *)
(* too.  The central executer is used by its promise, which                *)
(* GrandCentralExecuter implements: tasks wait in a queue and the thread   *)
(* that found it empty runs them, one at a time, before it goes on.        *)
(***************************************************************************)
EXTENDS Integers, Sequences, FiniteSets, SequencesExt

CONSTANTS
  IoThreads, Players,
  Nobody,           (* no thread                                            *)
  StartDelay,       (* of the first tick after an accept (10 ms)            *)
  HeartBeat,        (* between two ticks (1000 ms)                          *)
  Duration,         (* of a buff (2000 to 4000 ms)                          *)
  MaxClock,         (* bound: the clock stops here                          *)
  MaxIssueId        (* bound: accepted connections                          *)

ASSUME PlayersAssumption ==
  /\ {StartDelay, HeartBeat, Duration, MaxIssueId} \subseteq Nat \ {0}
  /\ MaxClock \in Nat /\ Nobody \notin IoThreads

Tasks == {"Start", "OnTick"}
Job   == [mOwner : Players, mTask : Tasks, mExecutionTick : Nat]

Managers == {"SessionManager", "PlayerManager"}
Locks    == Players \cup Managers

(* LO_FIRST_CLASS, LO_BUSINESS_CLASS, LO_ECONOMLY_CLASS *)
LockOrder(lock) == CASE lock = "SessionManager" -> 1
                     [] lock = "PlayerManager"  -> 3
                     [] OTHER                   -> 2

VARIABLES
  now,              (* GetTickCount64                                       *)
  mTimerJobQueue,   (* of each thread, the job that is due first in front   *)
  work,             (* what each thread is doing, and for which job         *)
  mLockStack,       (* of each thread's LockOrderChecker                    *)
  halted,           (* CRASH_ASSERT in LockOrderChecker::Push or Pop        *)
  connected,        (* the players whose session has a client               *)
  player, mBuffList,
  mPlayerMap, mCurrentIssueId,
  central,          (* the executer: tasks, who runs them, what it has read *)
  restarted,        (* history: players started while they were alive ...   *)
  rushed            (* ... or while a tick of theirs was still pending      *)

vars == <<now, mTimerJobQueue, work, mLockStack, halted, connected, player,
          mBuffList, mPlayerMap, mCurrentIssueId, central, restarted, rushed>>

AtRest == [mPlayerId |-> -1, mHeartBeat |-> -1, mIsAlive |-> FALSE]
Loop   == [at |-> "loop", job |-> <<>>]

Init ==
  /\ now = 0 /\ mTimerJobQueue = [t \in IoThreads |-> <<>>]
  /\ work = [t \in IoThreads |-> Loop]
  /\ mLockStack = [t \in IoThreads |-> <<>>] /\ halted = FALSE
  /\ connected = {} /\ restarted = {} /\ rushed = {}
  /\ player = [p \in Players |-> AtRest] /\ mBuffList = [p \in Players |-> 0]
  /\ mPlayerMap = <<>> /\ mCurrentIssueId = 0
  /\ central = [tasks |-> <<>>, owner |-> Nobody, seen |-> {}, reading |-> FALSE]

-----------------------------------------------------------------------------
(* Enter and Leave functions.  Writers only, but for GetCurrentPlayers;    *)
(* the manager's critical sections on the map are single steps.            *)
Free(lock) == \A t \in IoThreads : ~Contains(mLockStack[t], lock)

InOrder(t, lock) ==
  mLockStack[t] # <<>> => LockOrder(Last(mLockStack[t])) <= LockOrder(lock)

EnterLock(t, lock) ==
  /\ Free(lock)
  /\ mLockStack' = [mLockStack EXCEPT ![t] = Append(@, lock)]
  /\ halted' = ~InOrder(t, lock)

LeaveLocks(t, locks) ==
  LET n == Len(mLockStack[t]) - Len(locks) IN
  /\ halted' = (Reverse(SubSeq(mLockStack[t], n + 1, Len(mLockStack[t]))) # locks)
  /\ mLockStack' = [mLockStack EXCEPT ![t] = SubSeq(@, 1, n)]

-----------------------------------------------------------------------------
(* PushTimerJob: anywhere among the jobs that are due at the same time. *)
DueBefore(q, tick) == Cardinality({i \in DOMAIN q : q[i].mExecutionTick < tick})
DueBy(q, tick)     == Cardinality({i \in DOMAIN q : q[i].mExecutionTick <= tick})

PushTimerJob(t, p, task, after) ==
  LET q == mTimerJobQueue[t] IN
  \E i \in DueBefore(q, now + after) + 1 .. DueBy(q, now + after) + 1 :
    mTimerJobQueue' = [mTimerJobQueue EXCEPT ![t] =
      InsertAt(q, i, [mOwner |-> p, mTask |-> task, mExecutionTick |-> now + after])]

Goto(t, place) == work' = [work EXCEPT ![t].at = place]

(* A thread whose own dispatch made it the owner comes back when the queue *)
(* is empty.                                                               *)
At(t, place) == ~halted /\ work[t].at = place /\ central.owner # t

(* DoDispatch *)
GCEDispatch(t, task) ==
  central' = [central EXCEPT !.tasks = Append(@, task),
                             !.owner = IF @ = Nobody THEN t ELSE @]

-----------------------------------------------------------------------------
Jobs(t, p, task) ==
  {i \in DOMAIN mTimerJobQueue[t] : /\ mTimerJobQueue[t][i].mOwner = p
                                    /\ mTimerJobQueue[t][i].mTask = task}

(* Every accepted connection has a Start job or has been given an id. *)
Accepted == mCurrentIssueId
            + Cardinality(UNION {{<<t, p, i>> : i \in Jobs(t, p, "Start")} :
                                 t \in IoThreads, p \in Players})

(* AcceptCompletion; a set-up that fails starts no player. *)
AcceptCompletion(t, p) ==
  /\ At(t, "loop") /\ p \notin connected /\ Accepted < MaxIssueId
  /\ connected' = connected \cup {p}
  /\ PushTimerJob(t, p, "Start", StartDelay)
  /\ UNCHANGED <<now, work, mLockStack, halted, player, mBuffList, mPlayerMap,
                 mCurrentIssueId, central, restarted, rushed>>

(* ReturnClientSession, by the thread that released the last reference. *)
ReturnClientSession(t, p) ==
  /\ At(t, "loop") /\ p \in connected
  /\ EnterLock(t, "SessionManager")
  /\ work' = [work EXCEPT ![t] = [at |-> "sessionReset", job |-> p]]
  /\ UNCHANGED <<now, mTimerJobQueue, connected, player, mBuffList, mPlayerMap,
                 mCurrentIssueId, central, restarted, rushed>>

(* SessionReset: DoSync(&Player::PlayerReset) takes the player's lock. *)
EnterDoSync(t) ==
  /\ At(t, "sessionReset") /\ EnterLock(t, work[t].job)
  /\ Goto(t, "playerReset")
  /\ UNCHANGED <<now, mTimerJobQueue, connected, player, mBuffList, mPlayerMap,
                 mCurrentIssueId, central, restarted, rushed>>

(* Mutant: the player forgets its id before it is taken from the map. *)
PlayerResetIdFirst(t) ==
  LET p == work[t].job IN
  /\ At(t, "playerReset")
  /\ player' = [player EXCEPT ![p] = AtRest]
  /\ connected' = connected \ {p}
  /\ LeaveLocks(t, <<p, "SessionManager">>) /\ work' = [work EXCEPT ![t] = Loop]
  /\ UNCHANGED <<now, mTimerJobQueue, mBuffList, mPlayerMap, mCurrentIssueId,
                 central, restarted, rushed>>

(* Mutant: the manager's lock is released first. *)
PlayerResetManagerFirst(t) ==
  LET p == work[t].job IN
  /\ At(t, "playerReset")
  /\ mPlayerMap' = [i \in DOMAIN mPlayerMap \ {player[p].mPlayerId} |-> mPlayerMap[i]]
  /\ player' = [player EXCEPT ![p] = AtRest]
  /\ connected' = connected \ {p}
  /\ LeaveLocks(t, <<"SessionManager", p>>) /\ work' = [work EXCEPT ![t] = Loop]
  /\ UNCHANGED <<now, mTimerJobQueue, mBuffList, mCurrentIssueId, central, restarted, rushed>>

(* PlayerReset with UnregisterPlayer; then the locks are released and the  *)
(* session is back in the pool.                                            *)
PlayerReset(t) ==
  LET p == work[t].job IN
  /\ At(t, "playerReset")
  /\ mPlayerMap' = [i \in DOMAIN mPlayerMap \ {player[p].mPlayerId} |-> mPlayerMap[i]]
  /\ player' = [player EXCEPT ![p] = AtRest]
  /\ connected' = connected \ {p}
  /\ LeaveLocks(t, <<p, "SessionManager">>) /\ work' = [work EXCEPT ![t] = Loop]
  /\ UNCHANGED <<now, mTimerJobQueue, mBuffList, mCurrentIssueId, central, restarted, rushed>>

-----------------------------------------------------------------------------
IsDue(t) == /\ mTimerJobQueue[t] # <<>>
            /\ Head(mTimerJobQueue[t]).mExecutionTick <= now

(* DoTimerJob: the lock of the job's owner, then the job. *)
DoTimerJob(t, task) ==
  LET job == Head(mTimerJobQueue[t]) IN
  /\ At(t, "loop") /\ IsDue(t) /\ job.mTask = task
  /\ EnterLock(t, job.mOwner)
  /\ work' = [work EXCEPT ![t] = [at |-> "onTick", job |-> job]]

(* The map with one more entry, or with that of a reused key replaced. *)
RegisterPlayer(id, p) ==
  [i \in DOMAIN mPlayerMap \cup {id} |-> IF i = id THEN p ELSE mPlayerMap[i]]

(* Mutant: the first tick is scheduled and run. *)
StartSchedulesTick(t) ==
  LET p == Head(mTimerJobQueue[t]).mOwner IN
  /\ DoTimerJob(t, "Start") /\ PushTimerJob(t, p, "OnTick", HeartBeat)
  /\ mCurrentIssueId' = mCurrentIssueId + 1
  /\ mPlayerMap' = RegisterPlayer(mCurrentIssueId', p)
  /\ player' = [player EXCEPT ![p] = [mPlayerId |-> mCurrentIssueId',
                                      mHeartBeat |-> HeartBeat, mIsAlive |-> TRUE]]
  /\ UNCHANGED <<now, connected, mBuffList, central, restarted, rushed>>

(* Start with RegisterPlayer, then OnTick. *)
Start(t) ==
  LET p == Head(mTimerJobQueue[t]).mOwner IN
  /\ DoTimerJob(t, "Start")
  /\ mCurrentIssueId' = mCurrentIssueId + 1
  /\ mPlayerMap' = RegisterPlayer(mCurrentIssueId', p)
  /\ player' = [player EXCEPT ![p] = [mPlayerId |-> mCurrentIssueId',
                                      mHeartBeat |-> HeartBeat, mIsAlive |-> TRUE]]
  /\ restarted' = restarted \cup {q \in {p} : player[q].mIsAlive}
  /\ rushed' = rushed \cup {q \in {p} : \E u \in IoThreads : Jobs(u, q, "OnTick") # {}}
  /\ UNCHANGED <<now, mTimerJobQueue, connected, mBuffList, central>>

OnTick(t) ==
  /\ DoTimerJob(t, "OnTick")
  /\ UNCHANGED <<now, mTimerJobQueue, connected, player, mBuffList, mPlayerMap,
                 mCurrentIssueId, central, restarted, rushed>>

(* The body of OnTick: at times a buff for everybody, always a decay. *)
Buff(t) ==
  /\ At(t, "onTick") /\ player[work[t].job.mOwner].mIsAlive
  /\ GCEDispatch(t, "DoBuffToAllPlayers") /\ Goto(t, "decay")
  /\ UNCHANGED <<now, mTimerJobQueue, mLockStack, halted, connected, player,
                 mBuffList, mPlayerMap, mCurrentIssueId, restarted, rushed>>

Decay(t) ==
  /\ At(t, "onTick") \/ At(t, "decay")
  /\ player[work[t].job.mOwner].mIsAlive
  /\ GCEDispatch(t, "CheckBuffTimeout") /\ Goto(t, "nextTick")
  /\ UNCHANGED <<now, mTimerJobQueue, mLockStack, halted, connected, player,
                 mBuffList, mPlayerMap, mCurrentIssueId, restarted, rushed>>

(* Mutant: the next tick is not postponed. *)
NextTickAtOnce(t) ==
  /\ At(t, "nextTick") /\ Goto(t, "pop")
  /\ PushTimerJob(t, work[t].job.mOwner, "OnTick", 0)
  /\ UNCHANGED <<now, mLockStack, halted, connected, player, mBuffList, mPlayerMap,
                 mCurrentIssueId, central, restarted, rushed>>

NextTick(t) ==
  /\ At(t, "nextTick") /\ Goto(t, "pop")
  /\ PushTimerJob(t, work[t].job.mOwner, "OnTick", player[work[t].job.mOwner].mHeartBeat)
  /\ UNCHANGED <<now, mLockStack, halted, connected, player, mBuffList, mPlayerMap,
                 mCurrentIssueId, central, restarted, rushed>>

(* The end of DoTimerJob's loop, also after an OnTick that found the       *)
(* player reset.                                                           *)
Pop(t) ==
  /\ \/ At(t, "pop")
     \/ At(t, "onTick") /\ ~player[work[t].job.mOwner].mIsAlive
  /\ LeaveLocks(t, <<work[t].job.mOwner>>) /\ work' = [work EXCEPT ![t] = Loop]
  /\ mTimerJobQueue' = [mTimerJobQueue EXCEPT ![t] = Tail(@)]
  /\ UNCHANGED <<now, connected, player, mBuffList, mPlayerMap, mCurrentIssueId,
                 central, restarted, rushed>>

-----------------------------------------------------------------------------
(* A task of the executer reads the map under its lock ...                 *)
GetCurrentPlayers(t) ==
  /\ ~halted /\ central.owner = t /\ ~central.reading
  /\ central' = [central EXCEPT !.reading = TRUE,
                                !.seen = {<<i, mPlayerMap[i]>> : i \in DOMAIN mPlayerMap}]
  /\ halted' = ~InOrder(t, "PlayerManager")
  /\ UNCHANGED <<now, mTimerJobQueue, work, mLockStack, connected, player,
                 mBuffList, mPlayerMap, mCurrentIssueId, restarted, rushed>>

(* AddBuff inserts, DecayTickBuff subtracts and erases what has run out,   *)
(* once for each entry of the list.                                        *)
AddBuff(p, left)   == IF left = 0 THEN Duration ELSE left

(* Mutant: the time that has passed is added. *)
DecayedUpwards(p, left, times) ==
  IF left = 0 THEN 0 ELSE left + times * player[p].mHeartBeat

Decayed(p, left, times) ==
  IF left = 0 \/ left <= times * player[p].mHeartBeat THEN 0
  ELSE left - times * player[p].mHeartBeat

(* Mutant: the owner does not leave when its count is zero. *)
VisitPlayersForEver(t) ==
  LET Times(p) == Cardinality({e \in central.seen : e[2] = p}) IN
  /\ ~halted /\ central.owner = t /\ central.reading
  /\ mBuffList' = [p \in Players |->
       IF Times(p) = 0 THEN mBuffList[p] ELSE Decayed(p, mBuffList[p], Times(p))]
  /\ central' = [tasks |-> <<>>, reading |-> FALSE, seen |-> {}, owner |-> t]
  /\ UNCHANGED <<now, mTimerJobQueue, work, mLockStack, halted, connected, player,
                 mPlayerMap, mCurrentIssueId, restarted, rushed>>

(* ... and visits the players it has read, without any lock.               *)
VisitPlayers(t) ==
  LET Times(p) == Cardinality({e \in central.seen : e[2] = p}) IN
  /\ ~halted /\ central.owner = t /\ central.reading
  /\ mBuffList' = [p \in Players |->
       CASE Times(p) = 0                                -> mBuffList[p]
         [] Head(central.tasks) = "DoBuffToAllPlayers" -> AddBuff(p, mBuffList[p])
         [] OTHER                                 -> Decayed(p, mBuffList[p], Times(p))]
  /\ central' = [tasks |-> Tail(central.tasks), reading |-> FALSE, seen |-> {},
                 owner |-> IF Len(central.tasks) = 1 THEN Nobody ELSE t]
  /\ UNCHANGED <<now, mTimerJobQueue, work, mLockStack, halted, connected, player,
                 mPlayerMap, mCurrentIssueId, restarted, rushed>>

Tick ==
  /\ now < MaxClock /\ ~halted /\ now' = now + 1
  /\ UNCHANGED <<mTimerJobQueue, work, mLockStack, halted, connected, player,
                 mBuffList, mPlayerMap, mCurrentIssueId, central, restarted, rushed>>

-----------------------------------------------------------------------------
(* What a thread does once it has begun a handler or a job is due. *)
Proceed(t) ==
  \/ EnterDoSync(t) \/ PlayerReset(t)
  \/ Start(t) \/ OnTick(t) \/ Buff(t) \/ Decay(t) \/ NextTick(t) \/ Pop(t)
  \/ GetCurrentPlayers(t) \/ VisitPlayers(t)

Next ==
  \/ Tick
  \/ \E t \in IoThreads :
       \/ Proceed(t)
       \/ \E p \in Players : AcceptCompletion(t, p) \/ ReturnClientSession(t, p)

Spec == Init /\ [][Next]_vars

(* Every thread keeps running; nobody has to connect or leave. *)
FairSpec == Spec /\ WF_vars(Tick) /\ \A t \in IoThreads : WF_vars(Proceed(t))

-----------------------------------------------------------------------------
Places == {"loop", "sessionReset", "playerReset", "onTick", "decay", "nextTick", "pop"}

TypeOK ==
  /\ now \in 0 .. MaxClock /\ halted \in BOOLEAN
  /\ {connected, restarted, rushed} \subseteq SUBSET Players
  /\ mCurrentIssueId \in Nat
  /\ DOMAIN mPlayerMap \subseteq 1 .. mCurrentIssueId
  /\ \A i \in DOMAIN mPlayerMap : mPlayerMap[i] \in Players
  /\ player \in [Players -> [mPlayerId : Nat \cup {-1}, mIsAlive : BOOLEAN,
                             mHeartBeat : {-1, HeartBeat}]]
  /\ mBuffList \in [Players -> Nat]
  /\ mTimerJobQueue \in [IoThreads -> Seq(Job)]
  /\ mLockStack \in [IoThreads -> Seq(Locks)]
  /\ work \in [IoThreads -> [at : Places, job : Players \cup Job \cup {<<>>}]]
  /\ central \in [tasks : Seq({"DoBuffToAllPlayers", "CheckBuffTimeout"}),
                  owner : IoThreads \cup {Nobody}, seen : SUBSET (Nat \X Players),
                  reading : BOOLEAN]

(***************************************************************************)
(* No handler takes a lock of a higher class than the last it took, and    *)
(* each gives back what it took last: the assertions of Push and Pop       *)
(* (LockOrderChecker.cpp) hold on every path, also on those that run other *)
(* players' tasks while a player's lock is held.                           *)
(***************************************************************************)
LocksInOrder == ~halted

(***************************************************************************)
(* DoTimerJob pops, after the job has run, the job it has run, although    *)
(* OnTick pushes into the same queue meanwhile (Timer.cpp:40-45).          *)
(***************************************************************************)
PopsWhatItRan ==
  \A t \in IoThreads :
    work[t].at \in {"onTick", "decay", "nextTick", "pop"}
      => Head(mTimerJobQueue[t]) = work[t].job

(***************************************************************************)
(* A player that is alive keeps ticking: however resets and starts are     *)
(* interleaved with its jobs, one is always pending in some thread's queue *)
(* (a player without one would live on in the map without a heartbeat).    *)
(***************************************************************************)
AliveTicks ==
  \A p \in Players : player[p].mIsAlive =>
    \E t \in IoThreads : Jobs(t, p, "OnTick") \cup Jobs(t, p, "Start") # {}

(***************************************************************************)
(* The map holds the players that are alive, each under its own id, and    *)
(* nobody else ("remove from the player map", Player.cpp:22), unless a     *)
(* player was ever started twice without a reset.                          *)
(***************************************************************************)
MapHoldsTheLiving ==
  /\ TypeOK
  /\ \A p \in Players \ restarted :
       {i \in DOMAIN mPlayerMap : mPlayerMap[i] = p}
         = {i \in {player[p].mPlayerId} : player[p].mIsAlive}

(***************************************************************************)
(* OnTick is "called every second after login" (Player.h:17), not more     *)
(* often, unless a player was started while a tick was pending, its own    *)
(* or the former client's (from then on it ticks twice a second), and not  *)
(* less often: a living player never runs out of jobs.                     *)
(***************************************************************************)
OneTickPerHeartBeat ==
  /\ AliveTicks
  /\ \A p \in Players \ rushed :
       Cardinality(UNION {{<<t, i>> : i \in Jobs(t, p, "OnTick")} : t \in IoThreads})
         <= IF \E t \in IoThreads : work[t].at = "pop" /\ work[t].job.mOwner = p
            THEN 2 ELSE 1

(***************************************************************************)
(* A decay lengthens a buff only if the player was reset after the task    *)
(* had read the map (its heartbeat is -1 then): no player in the map gains *)
(* time, but for one that was started twice.                               *)
(***************************************************************************)
RegisteredBuffsRunOut ==
  [][\A p \in Players \ restarted :
       0 < mBuffList[p] /\ mBuffList[p] < mBuffList'[p]
         => \A i \in DOMAIN mPlayerMap : mPlayerMap[i] # p]_vars

(***************************************************************************)
(* Nobody waits for ever: every job and every return of a session comes to *)
(* its end, although a thread that holds a player's lock may have to run   *)
(* the other threads' tasks first, and a return waits for a player's lock  *)
(* with the manager's lock held.  And a job that is due runs: a player     *)
(* whose Start or OnTick waits in a queue is not forgotten by the thread   *)
(* that owns the queue.                                                    *)
(***************************************************************************)
HandlersFinish ==
  \A t \in IoThreads : /\ work[t].at # "loop" ~> work[t].at = "loop"
                       /\ IsDue(t) ~> ~IsDue(t)
=============================================================================
