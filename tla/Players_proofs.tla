---------------------------- MODULE Players_proofs ----------------------------
(***************************************************************************)
(* Proofs about Players: one inductive invariant and what follows from it, *)
(* for any number of threads and players and any delays.                   *)
(***************************************************************************)
EXTENDS Players, SequenceTheorems, FiniteSetTheorems, TLAPS

(* The places at which a thread is inside a timer job. *)
Busy == {"onTick", "decay", "nextTick", "pop"}

(* The executer has an owner while it has tasks, and has read a finite map. *)
ExecuterSound ==
  /\ central.owner = Nobody <=> central.tasks = <<>>
  /\ IsFiniteSet(central.seen)

(* Where a thread is says which locks it holds; inside a timer job, the    *)
(* job is the first of its queue and due, and while its tick goes on the   *)
(* player is alive.                                                        *)
Placed(t) ==
  /\ work[t].at = "loop" => work[t].job = <<>> /\ mLockStack[t] = <<>>
  /\ work[t].at = "sessionReset" =>
       work[t].job \in Players /\ mLockStack[t] = <<"SessionManager">>
  /\ work[t].at = "playerReset" =>
       work[t].job \in Players /\ mLockStack[t] = <<"SessionManager", work[t].job>>
  /\ work[t].at \in Busy =>
       /\ work[t].job \in Job /\ mLockStack[t] = <<work[t].job.mOwner>>
       /\ mTimerJobQueue[t] # <<>> /\ mTimerJobQueue[t][1] = work[t].job
       /\ work[t].job.mExecutionTick <= now
  /\ work[t].at \in {"decay", "nextTick"} => player[work[t].job.mOwner].mIsAlive

AllPlaced == \A t \in IoThreads : Placed(t)

(* A lock has one holder. *)
Exclusive ==
  \A t, u \in IoThreads :
    \A i \in 1 .. Len(mLockStack[t]), j \in 1 .. Len(mLockStack[u]) :
      mLockStack[t][i] = mLockStack[u][j] => t = u

(* A player is as PlayerReset left it, or alive and in the map under its id. *)
Registered ==
  \A p \in Players :
    /\ ~player[p].mIsAlive => player[p] = AtRest
    /\ player[p].mIsAlive => /\ player[p].mHeartBeat = HeartBeat
                             /\ player[p].mPlayerId \in DOMAIN mPlayerMap
                             /\ mPlayerMap[player[p].mPlayerId] = p

(* An entry of the map is that of a living player. *)
Alone ==
  \A p \in Players \ restarted : \A i \in DOMAIN mPlayerMap :
    mPlayerMap[i] = p => player[p].mIsAlive /\ player[p].mPlayerId = i

(* The job has not been run to its end yet. *)
Live(t, i) == ~(i = 1 /\ work[t].at = "pop")

(* A living player has a job that is not about to be popped. *)
Ticking ==
  \A p \in Players : player[p].mIsAlive =>
    \E t \in IoThreads : \E i \in 1 .. Len(mTimerJobQueue[t]) :
      mTimerJobQueue[t][i].mOwner = p /\ Live(t, i)

TickJob(t, i, p) ==
  /\ i \in 1 .. Len(mTimerJobQueue[t])
  /\ mTimerJobQueue[t][i].mOwner = p /\ mTimerJobQueue[t][i].mTask = "OnTick"
  /\ Live(t, i)

(* Start runs for this player and has not scheduled the next tick yet. *)
Starting(t, p) ==
  /\ work[t].at \in {"onTick", "decay", "nextTick"}
  /\ work[t].job.mOwner = p /\ work[t].job.mTask = "Start"

(* A player has one tick at most, and none while it is being started. *)
OneLiveTick ==
  \A p \in Players \ rushed :
    /\ \A t, u \in IoThreads, i, j \in Nat :
         TickJob(t, i, p) /\ TickJob(u, j, p) => t = u /\ i = j
    /\ \A t, u \in IoThreads, i \in Nat : ~(Starting(t, p) /\ TickJob(u, i, p))

IInv ==
  /\ TypeOK /\ ~halted /\ ExecuterSound /\ AllPlaced /\ Exclusive
  /\ Registered /\ Alone /\ Ticking /\ OneLiveTick

-----------------------------------------------------------------------------
(* Sequences and timer jobs.                                               *)
LEMMA InsertFacts ==
  ASSUME NEW S, NEW s \in Seq(S), NEW e \in S, NEW k \in 1 .. Len(s) + 1
  PROVE  /\ InsertAt(s, k, e) \in Seq(S)
         /\ Len(InsertAt(s, k, e)) = Len(s) + 1
         /\ \A j \in 1 .. Len(s) + 1 :
              InsertAt(s, k, e)[j] = IF j < k THEN s[j] ELSE IF j = k THEN e ELSE s[j - 1]
<1> DEFINE a == SubSeq(s, 1, k - 1)
           b == SubSeq(s, k, Len(s))
<1>1. a \in Seq(S) /\ Len(a) = k - 1 /\ \A j \in 1 .. k - 1 : a[j] = s[j]
  OBVIOUS
<1>2. b \in Seq(S) /\ Len(b) = Len(s) + 1 - k /\ \A j \in 1 .. Len(s) + 1 - k : b[j] = s[k + j - 1]
  OBVIOUS
<1>3. InsertAt(s, k, e) = (a \o <<e>>) \o b
  BY DEF InsertAt
<1> HIDE DEF a, b
<1>4. /\ a \o <<e>> \in Seq(S) /\ Len(a \o <<e>>) = k
      /\ \A j \in 1 .. k - 1 : (a \o <<e>>)[j] = s[j]
      /\ (a \o <<e>>)[k] = e
  BY <1>1
<1>5. Len(InsertAt(s, k, e)) = Len(s) + 1 /\ InsertAt(s, k, e) \in Seq(S)
  BY <1>2, <1>3, <1>4
<1>6. ASSUME NEW j \in 1 .. Len(s) + 1
      PROVE  InsertAt(s, k, e)[j] = IF j < k THEN s[j] ELSE IF j = k THEN e ELSE s[j - 1]
  <2> DEFINE c == a \o <<e>>
  <2>1. c \in Seq(S) /\ Len(c) = k /\ (\A i \in 1 .. k - 1 : c[i] = s[i]) /\ c[k] = e
    BY <1>4
  <2>2. InsertAt(s, k, e) = c \o b
    BY <1>3
  <2> HIDE DEF c
  <2>3. CASE j <= k
    <3>1. (c \o b)[j] = c[j]
      BY <2>1, <2>3, <1>2
    <3> QED
      BY <3>1, <2>1, <2>2, <2>3
  <2>4. CASE j > k
    <3>1. (c \o b)[j] = b[j - k]
      BY <2>1, <2>4, <1>2
    <3>2. b[j - k] = s[j - 1]
      BY <2>4, <1>2
    <3>3. InsertAt(s, k, e)[j] = s[j - 1]
      BY <3>1, <3>2, <2>2
    <3>4. ~(j < k) /\ j # k
      BY <2>4
    <3> QED
      BY <3>3, <3>4, Zenon
  <2>5. j <= k \/ j > k
    OBVIOUS
  <2> QED
    BY <2>3, <2>4, <2>5, Zenon
<1> QED
  BY <1>5, <1>6

LEMMA AppendToOne ==
  ASSUME NEW a, NEW b
  PROVE  Append(<<a>>, b) = <<a, b>>
<1> DEFINE l == Append(<<a>>, b)
           r == <<a, b>>
<1>1. <<a>> \in Seq({a, b}) /\ b \in {a, b} /\ Len(<<a>>) = 1 /\ <<a>>[1] = a
  OBVIOUS
<1>2. l \in Seq({a, b}) /\ Len(l) = 2 /\ l[1] = a /\ l[2] = b
  BY <1>1
<1>3. r \in Seq({a, b}) /\ Len(r) = 2 /\ r[1] = a /\ r[2] = b
  OBVIOUS
<1> HIDE DEF l, r
<1>4. \A i \in 1 .. Len(l) : l[i] = r[i]
  <2>1. \A i \in 1 .. 2 : i = 1 \/ i = 2
    OBVIOUS
  <2> QED
    BY <1>2, <1>3, <2>1
<1>5. l = r
  BY <1>2, <1>3, <1>4, SeqEqual
<1> QED
  BY <1>5 DEF l, r

LEMMA CountInSeq ==
  ASSUME NEW n \in Nat, NEW T, T \subseteq 1 .. n
  PROVE  IsFiniteSet(T) /\ Cardinality(T) \in 0 .. n
<1>1. IsFiniteSet(1 .. n) /\ Cardinality(1 .. n) = n
  BY FS_Interval
<1>2. IsFiniteSet(T) /\ Cardinality(T) <= n
  BY <1>1, FS_Subset
<1> QED
  BY <1>2, FS_CardinalityType

LEMMA DueFacts ==
  ASSUME NEW q \in Seq(Job), NEW tick \in Int
  PROVE  /\ DueBefore(q, tick) \in 0 .. Len(q)
         /\ DueBy(q, tick) \in 0 .. Len(q)
         /\ q # <<>> /\ q[1].mExecutionTick < tick => DueBefore(q, tick) >= 1
<1> DEFINE T == {i \in DOMAIN q : q[i].mExecutionTick < tick}
           U == {i \in DOMAIN q : q[i].mExecutionTick <= tick}
<1>1. T \subseteq 1 .. Len(q) /\ U \subseteq 1 .. Len(q) /\ Len(q) \in Nat
  OBVIOUS
<1>2. IsFiniteSet(T) /\ Cardinality(T) \in 0 .. Len(q) /\ Cardinality(U) \in 0 .. Len(q)
  BY <1>1, CountInSeq
<1>3. ASSUME q # <<>>, q[1].mExecutionTick < tick PROVE Cardinality(T) # 0
  <2>1. 1 \in T
    BY <1>3
  <2> QED
    BY <2>1, <1>2, FS_EmptySet
<1> QED
  BY <1>2, <1>3 DEF DueBefore, DueBy

(* PushTimerJob shifts the jobs behind the new one, and leaves the first   *)
(* where it is if that one is due earlier.                                 *)
LEMMA PushFacts ==
  ASSUME TypeOK, NEW t \in IoThreads, NEW p \in Players, NEW task \in Tasks,
         NEW after \in Nat, PushTimerJob(t, p, task, after)
  PROVE  /\ mTimerJobQueue' \in [IoThreads -> Seq(Job)]
         /\ \A u \in IoThreads \ {t} : mTimerJobQueue'[u] = mTimerJobQueue[u]
         /\ \E k \in 1 .. Len(mTimerJobQueue[t]) + 1 :
              /\ Len(mTimerJobQueue'[t]) = Len(mTimerJobQueue[t]) + 1
              /\ \A j \in 1 .. Len(mTimerJobQueue[t]) + 1 :
                   mTimerJobQueue'[t][j] =
                     IF j < k THEN mTimerJobQueue[t][j]
                     ELSE IF j = k
                     THEN [mOwner |-> p, mTask |-> task, mExecutionTick |-> now + after]
                     ELSE mTimerJobQueue[t][j - 1]
              /\ mTimerJobQueue[t] # <<>> /\ mTimerJobQueue[t][1].mExecutionTick < now + after
                   => k >= 2
<1> DEFINE q == mTimerJobQueue[t]
           e == [mOwner |-> p, mTask |-> task, mExecutionTick |-> now + after]
<1>1. q \in Seq(Job) /\ now + after \in Nat /\ e \in Job /\ Len(q) \in Nat
  <2>1. q \in Seq(Job)
    BY DEF TypeOK
  <2>2. now + after \in Nat
    BY PlayersAssumption DEF TypeOK
  <2>3. e \in Job
    BY <2>2 DEF Job
  <2> QED
    BY <2>1, <2>2, <2>3
<1>2. PICK k \in DueBefore(q, now + after) + 1 .. DueBy(q, now + after) + 1 :
        mTimerJobQueue' = [mTimerJobQueue EXCEPT ![t] = InsertAt(q, k, e)]
  BY DEF PushTimerJob
<1>3. k \in 1 .. Len(q) + 1 /\ (q # <<>> /\ q[1].mExecutionTick < now + after => k >= 2)
  <2> DEFINE tick == now + after
             m == DueBefore(q, tick)
             n == DueBy(q, tick)
  <2>1. tick \in Int /\ q \in Seq(Job)
    BY <1>1
  <2>2. k \in m + 1 .. n + 1
    BY <1>2
  <2> HIDE DEF q, tick
  <2>3. /\ m \in 0 .. Len(q) /\ n \in 0 .. Len(q)
        /\ q # <<>> /\ q[1].mExecutionTick < tick => m >= 1
    BY <2>1, DueFacts
  <2> HIDE DEF m, n
  <2>4. k \in 1 .. Len(q) + 1 /\ (q # <<>> /\ q[1].mExecutionTick < tick => k >= 2)
    BY <2>2, <2>3, <1>1
  <2> QED
    BY <2>4 DEF tick
<1>4. mTimerJobQueue \in [IoThreads -> Seq(Job)]
  BY DEF TypeOK
<1> HIDE DEF q, e
<1>5. /\ InsertAt(q, k, e) \in Seq(Job)
      /\ Len(InsertAt(q, k, e)) = Len(q) + 1
      /\ \A j \in 1 .. Len(q) + 1 :
           InsertAt(q, k, e)[j] = IF j < k THEN q[j] ELSE IF j = k THEN e ELSE q[j - 1]
  BY <1>1, <1>3, InsertFacts, SMTT(60)
<1>6. mTimerJobQueue'[t] = InsertAt(q, k, e)
  BY <1>2, <1>4
<1>7. /\ mTimerJobQueue' \in [IoThreads -> Seq(Job)]
      /\ \A u \in IoThreads \ {t} : mTimerJobQueue'[u] = mTimerJobQueue[u]
  BY <1>2, <1>4, <1>5
<1> QED
  BY <1>3, <1>5, <1>6, <1>7 DEF q, e

-----------------------------------------------------------------------------
(* Locks.                                                                  *)
LEMMA EnterFacts ==
  ASSUME TypeOK, Exclusive, NEW t \in IoThreads, NEW lock \in Locks, EnterLock(t, lock)
  PROVE  /\ mLockStack' \in [IoThreads -> Seq(Locks)]
         /\ mLockStack'[t] = Append(mLockStack[t], lock)
         /\ \A u \in IoThreads \ {t} : mLockStack'[u] = mLockStack[u]
         /\ Exclusive'
<1>1. mLockStack \in [IoThreads -> Seq(Locks)]
  BY DEF TypeOK
<1>2. mLockStack' = [mLockStack EXCEPT ![t] = Append(mLockStack[t], lock)]
  BY DEF EnterLock
<1>3. /\ mLockStack' \in [IoThreads -> Seq(Locks)]
      /\ mLockStack'[t] = Append(mLockStack[t], lock)
      /\ \A u \in IoThreads \ {t} : mLockStack'[u] = mLockStack[u]
  BY <1>1, <1>2
<1>4. \A u \in IoThreads : \A i \in 1 .. Len(mLockStack[u]) : mLockStack[u][i] # lock
  BY DEF EnterLock, Free, Contains
<1>5. ASSUME NEW u \in IoThreads, NEW i \in 1 .. Len(mLockStack'[u])
      PROVE  \/ i \in 1 .. Len(mLockStack[u]) /\ mLockStack'[u][i] = mLockStack[u][i]
             \/ u = t /\ i = Len(mLockStack[t]) + 1 /\ mLockStack'[u][i] = lock
  <2>1. CASE u # t
    BY <2>1, <1>3, <1>5
  <2>2. CASE u = t
    <3> DEFINE held == mLockStack[t]
    <3>1. held \in Seq(Locks) /\ mLockStack'[t] = Append(held, lock)
      BY <1>1, <1>3
    <3> HIDE DEF held
    <3>2. /\ Len(held) \in Nat /\ Len(Append(held, lock)) = Len(held) + 1
          /\ Append(held, lock)[Len(held) + 1] = lock
          /\ \A j \in 1 .. Len(held) : Append(held, lock)[j] = held[j]
      BY <3>1
    <3>3. i \in 1 .. Len(held) \/ i = Len(held) + 1
      BY <1>5, <2>2, <3>1, <3>2
    <3> QED
      BY <2>2, <3>1, <3>2, <3>3 DEF held
  <2> QED
    BY <2>1, <2>2
<1>6. ASSUME NEW u \in IoThreads, NEW v \in IoThreads,
             NEW i \in 1 .. Len(mLockStack'[u]), NEW j \in 1 .. Len(mLockStack'[v]),
             mLockStack'[u][i] = mLockStack'[v][j]
      PROVE  u = v
  BY <1>4, <1>5, <1>6, ZenonT(60) DEF Exclusive
<1> QED
  BY <1>3, <1>6 DEF Exclusive

LEMMA InOrderFacts ==
  ASSUME NEW t \in IoThreads, NEW lock,
         \/ mLockStack[t] = <<>>
         \/ mLockStack[t] = <<"SessionManager">>
         \/ lock = "PlayerManager"
  PROVE  InOrder(t, lock)
<1>1. \A l : LockOrder(l) \in 1 .. 3
  BY DEF LockOrder
<1>2. LockOrder("SessionManager") = 1 /\ LockOrder("PlayerManager") = 3
  BY DEF LockOrder
<1>3. CASE mLockStack[t] = <<>>
  BY <1>3 DEF InOrder
<1>4. CASE mLockStack[t] = <<"SessionManager">>
  <2>1. Last(mLockStack[t]) = "SessionManager"
    BY <1>4 DEF Last
  <2> QED
    BY <2>1, <1>1, <1>2 DEF InOrder
<1>5. CASE lock = "PlayerManager"
  BY <1>5, <1>1, <1>2 DEF InOrder
<1> QED
  BY <1>3, <1>4, <1>5

(* A thread that leaves all it holds, the last lock first.                 *)
LEMMA LeaveOne ==
  ASSUME TypeOK, Exclusive, NEW t \in IoThreads, NEW lock \in Locks,
         mLockStack[t] = <<lock>>, LeaveLocks(t, <<lock>>)
  PROVE  /\ mLockStack' \in [IoThreads -> Seq(Locks)]
         /\ mLockStack'[t] = <<>> /\ halted' = FALSE
         /\ \A u \in IoThreads \ {t} : mLockStack'[u] = mLockStack[u]
         /\ Exclusive'
<1>1. mLockStack \in [IoThreads -> Seq(Locks)]
  BY DEF TypeOK
<1>2. SubSeq(<<lock>>, 1, 1) = <<lock>> /\ SubSeq(<<lock>>, 1, 0) = <<>>
  <2> DEFINE held == <<lock>>
  <2>1. held \in Seq(Locks) /\ Len(held) = 1
    OBVIOUS
  <2> HIDE DEF held
  <2>2. SubSeq(held, 1, Len(held)) = held
    BY <2>1, SubSeqFull
  <2>3. SubSeq(held, 1, 0) = <<>>
    BY SubSeqEmpty
  <2>4. SubSeq(held, 1, 1) = held
    BY <2>1, <2>2
  <2> QED
    BY <2>3, <2>4 DEF held
<1>3. Reverse(<<lock>>) = <<lock>>
  BY DEF Reverse
<1>4. Len(mLockStack[t]) = 1 /\ Len(<<lock>>) = 1
  OBVIOUS
<1>5. /\ halted' = (Reverse(SubSeq(mLockStack[t], 1, 1)) # <<lock>>)
      /\ mLockStack' = [mLockStack EXCEPT ![t] = SubSeq(mLockStack[t], 1, 0)]
  BY <1>4 DEF LeaveLocks
<1>6. /\ mLockStack' \in [IoThreads -> Seq(Locks)]
      /\ mLockStack'[t] = <<>>
      /\ \A u \in IoThreads \ {t} : mLockStack'[u] = mLockStack[u]
  BY <1>1, <1>2, <1>5
<1>7. halted' = FALSE
  BY <1>2, <1>3, <1>5
<1>8. Len(mLockStack'[t]) = 0
  BY <1>6
<1>9. ASSUME NEW u \in IoThreads, NEW v \in IoThreads,
             NEW i \in 1 .. Len(mLockStack'[u]), NEW j \in 1 .. Len(mLockStack'[v]),
             mLockStack'[u][i] = mLockStack'[v][j]
      PROVE  u = v
  <2>1. u # t /\ v # t
    BY <1>8
  <2>2. mLockStack'[u] = mLockStack[u] /\ mLockStack'[v] = mLockStack[v]
    BY <2>1, <1>6
  <2>3. /\ i \in 1 .. Len(mLockStack[u]) /\ j \in 1 .. Len(mLockStack[v])
        /\ mLockStack[u][i] = mLockStack[v][j]
    BY <2>2, <1>9
  <2> QED
    BY <2>3 DEF Exclusive
<1> QED
  BY <1>6, <1>7, <1>9 DEF Exclusive

LEMMA LeaveTwo ==
  ASSUME TypeOK, Exclusive, NEW t \in IoThreads, NEW lock \in Locks, NEW other \in Locks,
         mLockStack[t] = <<other, lock>>, LeaveLocks(t, <<lock, other>>)
  PROVE  /\ mLockStack' \in [IoThreads -> Seq(Locks)]
         /\ mLockStack'[t] = <<>> /\ halted' = FALSE
         /\ \A u \in IoThreads \ {t} : mLockStack'[u] = mLockStack[u]
         /\ Exclusive'
<1>1. mLockStack \in [IoThreads -> Seq(Locks)]
  BY DEF TypeOK
<1>2. SubSeq(<<other, lock>>, 1, 2) = <<other, lock>> /\ SubSeq(<<other, lock>>, 1, 0) = <<>>
  <2> DEFINE held == <<other, lock>>
  <2>1. held \in Seq(Locks) /\ Len(held) = 2
    OBVIOUS
  <2> HIDE DEF held
  <2>2. SubSeq(held, 1, Len(held)) = held
    BY <2>1, SubSeqFull
  <2>3. SubSeq(held, 1, 0) = <<>>
    BY SubSeqEmpty
  <2>4. SubSeq(held, 1, 2) = held
    BY <2>1, <2>2
  <2> QED
    BY <2>3, <2>4 DEF held
<1>3. Reverse(<<other, lock>>) = <<lock, other>>
  BY DEF Reverse
<1>4. Len(mLockStack[t]) = 2 /\ Len(<<lock, other>>) = 2
  OBVIOUS
<1>5. /\ halted' = (Reverse(SubSeq(mLockStack[t], 1, 2)) # <<lock, other>>)
      /\ mLockStack' = [mLockStack EXCEPT ![t] = SubSeq(mLockStack[t], 1, 0)]
  BY <1>4 DEF LeaveLocks
<1>6. /\ mLockStack' \in [IoThreads -> Seq(Locks)]
      /\ mLockStack'[t] = <<>>
      /\ \A u \in IoThreads \ {t} : mLockStack'[u] = mLockStack[u]
  BY <1>1, <1>2, <1>5
<1>7. halted' = FALSE
  BY <1>2, <1>3, <1>5
<1>8. Len(mLockStack'[t]) = 0
  BY <1>6
<1>9. ASSUME NEW u \in IoThreads, NEW v \in IoThreads,
             NEW i \in 1 .. Len(mLockStack'[u]), NEW j \in 1 .. Len(mLockStack'[v]),
             mLockStack'[u][i] = mLockStack'[v][j]
      PROVE  u = v
  <2>1. u # t /\ v # t
    BY <1>8
  <2>2. mLockStack'[u] = mLockStack[u] /\ mLockStack'[v] = mLockStack[v]
    BY <2>1, <1>6
  <2>3. /\ i \in 1 .. Len(mLockStack[u]) /\ j \in 1 .. Len(mLockStack[v])
        /\ mLockStack[u][i] = mLockStack[v][j]
    BY <2>2, <1>9
  <2> QED
    BY <2>3 DEF Exclusive
<1> QED
  BY <1>6, <1>7, <1>9 DEF Exclusive

(* Two threads inside jobs of one player, or one inside a job and one in   *)
(* PlayerReset for it, would both hold its lock.                           *)
HoldsPlayer(t, p) ==
  \/ work[t].at \in Busy /\ work[t].job.mOwner = p
  \/ work[t].at = "playerReset" /\ work[t].job = p

LEMMA OneHolder ==
  ASSUME AllPlaced, Exclusive, NEW t \in IoThreads, NEW u \in IoThreads, NEW p,
         HoldsPlayer(t, p), HoldsPlayer(u, p)
  PROVE  t = u
<1>1. ASSUME NEW v \in IoThreads, HoldsPlayer(v, p)
      PROVE  \E i \in 1 .. Len(mLockStack[v]) : mLockStack[v][i] = p
  <2>1. CASE work[v].at \in Busy /\ work[v].job.mOwner = p
    <3>1. mLockStack[v] = <<p>>
      BY <2>1 DEF AllPlaced, Placed
    <3> QED
      BY <3>1
  <2>2. CASE work[v].at = "playerReset" /\ work[v].job = p
    <3>1. mLockStack[v] = <<"SessionManager", p>>
      BY <2>2 DEF AllPlaced, Placed
    <3>2. 2 \in 1 .. Len(mLockStack[v]) /\ mLockStack[v][2] = p
      BY <3>1
    <3> QED
      BY <3>2
  <2> QED
    BY <1>1, <2>1, <2>2 DEF HoldsPlayer
<1> QED
  BY <1>1 DEF Exclusive

LEMMA GotoFacts ==
  ASSUME TypeOK, NEW t \in IoThreads, NEW place \in Places, Goto(t, place)
  PROVE  /\ work' \in [IoThreads -> [at : Places, job : Players \cup Job \cup {<<>>}]]
         /\ work'[t].at = place /\ work'[t].job = work[t].job
         /\ \A u \in IoThreads \ {t} : work'[u] = work[u]
  BY DEF TypeOK, Goto

-----------------------------------------------------------------------------
(* What a step leaves as it is.                                            *)
LEMMA PlayersKept ==
  ASSUME Registered, Alone, UNCHANGED <<player, mPlayerMap, restarted>>
  PROVE  Registered' /\ Alone'
  BY DEF Registered, Alone

LEMMA PlacedKept ==
  ASSUME TypeOK, AllPlaced, NEW u \in IoThreads, work'[u] = work[u],
         mLockStack'[u] = mLockStack[u], mTimerJobQueue'[u] = mTimerJobQueue[u],
         now' \in {now, now + 1},
         work[u].at \in {"decay", "nextTick"} => player'[work[u].job.mOwner].mIsAlive
  PROVE  Placed(u)'
<1>1. ASSUME work[u].at \in Busy PROVE work[u].job.mExecutionTick <= now'
  <2>1. work[u].job \in Job /\ work[u].job.mExecutionTick <= now
    BY <1>1 DEF AllPlaced, Placed
  <2>2. work[u].job.mExecutionTick \in Nat /\ now \in Int
    BY <2>1 DEF Job, TypeOK
  <2> QED
    BY <2>1, <2>2
<1> QED
  BY <1>1 DEF AllPlaced, Placed

LEMMA TicksKept ==
  ASSUME Ticking, OneLiveTick, UNCHANGED <<mTimerJobQueue, rushed>>,
         \A p \in Players : player'[p].mIsAlive => player[p].mIsAlive,
         \A u \in IoThreads : work'[u].at = "pop" <=> work[u].at = "pop",
         \A u \in IoThreads, p \in Players : Starting(u, p)' => Starting(u, p)
  PROVE  Ticking' /\ OneLiveTick'
<1>1. ASSUME NEW u \in IoThreads, NEW i PROVE Live(u, i)' <=> Live(u, i)
  BY DEF Live
<1>2. ASSUME NEW u \in IoThreads, NEW i, NEW p PROVE TickJob(u, i, p)' <=> TickJob(u, i, p)
  BY <1>1 DEF TickJob
<1>3. Ticking'
  BY <1>1 DEF Ticking
<1>4. OneLiveTick'
  BY <1>2 DEF OneLiveTick
<1> QED
  BY <1>3, <1>4

-----------------------------------------------------------------------------
LEMMA PlayersInit == Init => IInv
<1> SUFFICES ASSUME Init PROVE IInv
  OBVIOUS
<1> DEFINE none == <<>>
<1>1. DOMAIN none = {} /\ Len(none) = 0 /\ none \in Seq(Job) /\ none \in Seq(Locks)
      /\ none \in Seq({"DoBuffToAllPlayers", "CheckBuffTimeout"})
  OBVIOUS
<1>2. /\ now = 0 /\ mTimerJobQueue = [t \in IoThreads |-> none]
      /\ work = [t \in IoThreads |-> Loop]
      /\ mLockStack = [t \in IoThreads |-> none] /\ halted = FALSE
      /\ connected = {} /\ restarted = {} /\ rushed = {}
      /\ player = [p \in Players |-> AtRest] /\ mBuffList = [p \in Players |-> 0]
      /\ mPlayerMap = none /\ mCurrentIssueId = 0
      /\ central = [tasks |-> none, owner |-> Nobody, seen |-> {}, reading |-> FALSE]
  BY DEF Init
<1>3. Loop = [at |-> "loop", job |-> none]
  BY DEF Loop
<1> HIDE DEF none
<1>4. TypeOK
  <2>1. now \in 0 .. MaxClock /\ mCurrentIssueId \in Nat
    BY <1>2, PlayersAssumption
  <2>8. halted \in BOOLEAN
    BY <1>2
  <2>7. {connected, restarted, rushed} \subseteq SUBSET Players
    BY <1>2
  <2>2. DOMAIN mPlayerMap \subseteq 1 .. mCurrentIssueId
        /\ \A i \in DOMAIN mPlayerMap : mPlayerMap[i] \in Players
    BY <1>1, <1>2
  <2>3. player \in [Players -> [mPlayerId : Nat \cup {-1}, mIsAlive : BOOLEAN,
                                mHeartBeat : {-1, HeartBeat}]]
        /\ mBuffList \in [Players -> Nat]
    BY <1>2 DEF AtRest
  <2>4. /\ mTimerJobQueue \in [IoThreads -> Seq(Job)]
        /\ mLockStack \in [IoThreads -> Seq(Locks)]
    BY <1>1, <1>2
  <2>5. work \in [IoThreads -> [at : Places, job : Players \cup Job \cup {<<>>}]]
    BY <1>2, <1>3 DEF Places, none
  <2>6. central \in [tasks : Seq({"DoBuffToAllPlayers", "CheckBuffTimeout"}),
                     owner : IoThreads \cup {Nobody}, seen : SUBSET (Nat \X Players),
                     reading : BOOLEAN]
    BY <1>1, <1>2
  <2> QED
    BY <2>1, <2>2, <2>3, <2>4, <2>5, <2>6, <2>7, <2>8 DEF TypeOK
<1>5. ExecuterSound
  BY <1>2, FS_EmptySet DEF ExecuterSound, none
<1>6. AllPlaced
  BY <1>2, <1>3 DEF AllPlaced, Placed, Busy, none
<1>7. Exclusive
  BY <1>1, <1>2 DEF Exclusive
<1>8. Registered /\ Ticking
  BY <1>2 DEF Registered, Ticking, AtRest
<1>9. Alone
  BY <1>1, <1>2 DEF Alone
<1>10. OneLiveTick
  BY <1>1, <1>2 DEF OneLiveTick, TickJob
<1> QED
  BY <1>2, <1>4, <1>5, <1>6, <1>7, <1>8, <1>9, <1>10 DEF IInv

LEMMA TickKeeps ==
  ASSUME IInv, Tick
  PROVE  IInv'
<1> USE DEF IInv, Tick
<1>1. TypeOK'
  BY PlayersAssumption DEF TypeOK
<1>2. AllPlaced'
  <2>1. ASSUME NEW u \in IoThreads PROVE Placed(u)'
    BY PlacedKept DEF AllPlaced, Placed
  <2> QED
    BY <2>1 DEF AllPlaced
<1>3. ExecuterSound' /\ Exclusive'
  BY DEF ExecuterSound, Exclusive
<1>4. Registered' /\ Alone'
  BY PlayersKept
<1>5. Ticking' /\ OneLiveTick'
  BY TicksKept DEF Starting
<1> QED
  BY <1>1, <1>2, <1>3, <1>4, <1>5

LEMMA AcceptKeeps ==
  ASSUME IInv, NEW t \in IoThreads, NEW p \in Players, AcceptCompletion(t, p)
  PROVE  IInv'
<1> USE DEF IInv
<1> DEFINE q == mTimerJobQueue[t]
           e == [mOwner |-> p, mTask |-> "Start", mExecutionTick |-> now + StartDelay]
<1>1. /\ ~halted /\ work[t].at = "loop"
      /\ PushTimerJob(t, p, "Start", StartDelay) /\ connected' = connected \cup {p}
      /\ UNCHANGED <<now, work, mLockStack, halted, player, mBuffList, mPlayerMap,
                     mCurrentIssueId, central, restarted, rushed>>
  BY DEF AcceptCompletion, At
<1>2. /\ mTimerJobQueue' \in [IoThreads -> Seq(Job)]
      /\ \A u \in IoThreads \ {t} : mTimerJobQueue'[u] = mTimerJobQueue[u]
      /\ \E k \in 1 .. Len(q) + 1 :
           /\ Len(mTimerJobQueue'[t]) = Len(q) + 1
           /\ \A j \in 1 .. Len(q) + 1 :
                mTimerJobQueue'[t][j] = IF j < k THEN q[j] ELSE IF j = k THEN e ELSE q[j - 1]
  BY <1>1, PushFacts, PlayersAssumption DEF Tasks
<1>3. PICK k \in 1 .. Len(q) + 1 :
        /\ Len(mTimerJobQueue'[t]) = Len(q) + 1
        /\ \A j \in 1 .. Len(q) + 1 :
             mTimerJobQueue'[t][j] = IF j < k THEN q[j] ELSE IF j = k THEN e ELSE q[j - 1]
  BY <1>2
<1>4. Len(q) \in Nat /\ e.mTask = "Start"
  BY DEF TypeOK
<1> HIDE DEF q, e
<1>5. TypeOK'
  BY <1>1, <1>2, SMTT(60) DEF TypeOK
<1>6. AllPlaced'
  <2>1. ASSUME NEW u \in IoThreads \ {t} PROVE Placed(u)'
    BY <1>1, <1>2, PlacedKept DEF AllPlaced, Placed
  <2>2. Placed(t)'
    BY <1>1 DEF AllPlaced, Placed, Busy
  <2> QED
    BY <2>1, <2>2 DEF AllPlaced
<1>7. ExecuterSound' /\ Exclusive'
  BY <1>1 DEF ExecuterSound, Exclusive
<1>8. Registered' /\ Alone'
  BY <1>1, PlayersKept
<1>9. Ticking'
  <2>1. ASSUME NEW r \in Players, player'[r].mIsAlive
        PROVE  \E u \in IoThreads : \E i \in 1 .. Len(mTimerJobQueue'[u]) :
                 mTimerJobQueue'[u][i].mOwner = r /\ Live(u, i)'
    <3>4. PICK u \in IoThreads : \E i \in 1 .. Len(mTimerJobQueue[u]) :
            mTimerJobQueue[u][i].mOwner = r /\ Live(u, i)
      BY <1>1, <2>1 DEF Ticking
    <3>1. PICK i \in 1 .. Len(mTimerJobQueue[u]) :
            mTimerJobQueue[u][i].mOwner = r /\ Live(u, i)
      BY <3>4
    <3>2. CASE u # t
      BY <1>1, <1>2, <3>1, <3>2 DEF Live
    <3>3. CASE u = t
      <4> DEFINE j == IF i < k THEN i ELSE i + 1
      <4>1. j \in 1 .. Len(q) + 1 /\ j # k /\ (IF j < k THEN j ELSE j - 1) = i
        BY <1>4, <3>3 DEF q
      <4>2. mTimerJobQueue'[t][j] = q[i]
        BY <4>1, <1>3
      <4>3. Live(t, j)'
        BY <1>1 DEF Live
      <4> QED
        BY <1>3, <3>1, <3>3, <4>1, <4>2, <4>3 DEF q
    <3> QED
      BY <3>2, <3>3
  <2> QED
    BY <2>1 DEF Ticking
<1>10. OneLiveTick'
  <2> DEFINE old(i) == IF i < k THEN i ELSE i - 1
  <2>1. ASSUME NEW r, NEW i \in Nat, TickJob(t, i, r)'
        PROVE  TickJob(t, old(i), r) /\ i # k
    <3>1. i \in 1 .. Len(q) + 1 /\ mTimerJobQueue'[t][i].mTask = "OnTick"
          /\ mTimerJobQueue'[t][i].mOwner = r
      BY <2>1, <1>3 DEF TickJob
    <3>2. i # k
      BY <3>1, <1>3, <1>4
    <3>3. mTimerJobQueue'[t][i] = q[old(i)]
      BY <3>1, <3>2, <1>3
    <3>4. old(i) \in 1 .. Len(q)
      BY <3>1, <3>2, <1>4
    <3> QED
      BY <1>1, <3>1, <3>2, <3>3, <3>4 DEF q, TickJob, Live
  <2>2. ASSUME NEW u \in IoThreads \ {t}, NEW r, NEW i, TickJob(u, i, r)'
        PROVE  TickJob(u, i, r)
    BY <1>1, <1>2, <2>2 DEF TickJob, Live
  <2>3. ASSUME NEW u \in IoThreads, NEW r, Starting(u, r)' PROVE Starting(u, r)
    BY <1>1, <2>3 DEF Starting
  <2>4. \A i, j \in Nat : i # k /\ j # k /\ old(i) = old(j) => i = j
    OBVIOUS
  <2>5. \A i \in Nat : i # k => old(i) \in Nat
    OBVIOUS
  <2> HIDE DEF old
  <2>6. ASSUME NEW r \in Players \ rushed', NEW u \in IoThreads, NEW v \in IoThreads,
               NEW i \in Nat, NEW j \in Nat, TickJob(u, i, r)', TickJob(v, j, r)'
        PROVE  u = v /\ i = j
    <3>1. r \in Players \ rushed
      BY <1>1
    <3>2. CASE u = t /\ v = t
      BY <3>1, <3>2, <2>1, <2>4, <2>5, <2>6 DEF OneLiveTick
    <3>3. CASE u = t /\ v # t
      BY <3>1, <3>3, <2>1, <2>2, <2>5, <2>6 DEF OneLiveTick
    <3>4. CASE u # t /\ v = t
      BY <3>1, <3>4, <2>1, <2>2, <2>5, <2>6 DEF OneLiveTick
    <3>5. CASE u # t /\ v # t
      BY <3>1, <3>5, <2>2, <2>6 DEF OneLiveTick
    <3> QED
      BY <3>2, <3>3, <3>4, <3>5
  <2>7. ASSUME NEW r \in Players \ rushed', NEW u \in IoThreads, NEW v \in IoThreads,
               NEW i \in Nat, Starting(u, r)', TickJob(v, i, r)'
        PROVE  FALSE
    <3>1. r \in Players \ rushed
      BY <1>1
    <3>2. CASE v = t
      BY <3>1, <3>2, <2>1, <2>3, <2>5, <2>7 DEF OneLiveTick
    <3>3. CASE v # t
      BY <3>1, <3>3, <2>2, <2>3, <2>7 DEF OneLiveTick
    <3> QED
      BY <3>2, <3>3
  <2> QED
    BY <2>6, <2>7 DEF OneLiveTick
<1> QED
  BY <1>1, <1>5, <1>6, <1>7, <1>8, <1>9, <1>10

LEMMA ReturnKeeps ==
  ASSUME IInv, NEW t \in IoThreads, NEW p \in Players, ReturnClientSession(t, p)
  PROVE  IInv'
<1> USE DEF IInv
<1>1. /\ ~halted /\ work[t].at = "loop" /\ EnterLock(t, "SessionManager")
      /\ work' = [work EXCEPT ![t] = [at |-> "sessionReset", job |-> p]]
      /\ UNCHANGED <<now, mTimerJobQueue, connected, player, mBuffList, mPlayerMap,
                     mCurrentIssueId, central, restarted, rushed>>
  BY DEF ReturnClientSession, At
<1>2. mLockStack[t] = <<>>
  BY <1>1 DEF AllPlaced, Placed
<1>3. /\ mLockStack' \in [IoThreads -> Seq(Locks)]
      /\ mLockStack'[t] = Append(mLockStack[t], "SessionManager")
      /\ \A u \in IoThreads \ {t} : mLockStack'[u] = mLockStack[u]
      /\ Exclusive'
  BY <1>1, EnterFacts DEF Locks, Managers
<1>4. halted' = FALSE
  BY <1>1, <1>2, InOrderFacts DEF EnterLock
<1>5. /\ work' \in [IoThreads -> [at : Places, job : Players \cup Job \cup {<<>>}]]
      /\ work'[t].at = "sessionReset" /\ work'[t].job = p
      /\ \A u \in IoThreads \ {t} : work'[u] = work[u]
  BY <1>1 DEF TypeOK, Places
<1>6. TypeOK'
  <2>1. {connected, restarted, rushed}' \subseteq SUBSET Players
    BY <1>1 DEF TypeOK
  <2>2. halted' \in BOOLEAN
    BY <1>4
  <2> QED
    BY <1>1, <1>3, <1>5, <2>1, <2>2 DEF TypeOK
<1>7. AllPlaced'
  <2>1. ASSUME NEW u \in IoThreads \ {t} PROVE Placed(u)'
    BY <1>1, <1>3, <1>5, PlacedKept DEF AllPlaced, Placed
  <2>2. mLockStack'[t] = <<"SessionManager">>
    BY <1>2, <1>3
  <2>3. Placed(t)'
    BY <1>5, <2>2 DEF Placed, Busy
  <2> QED
    BY <2>1, <2>3 DEF AllPlaced
<1>8. Ticking' /\ OneLiveTick'
  <2>1. ASSUME NEW u \in IoThreads
        PROVE  /\ work'[u].at = "pop" <=> work[u].at = "pop"
               /\ \A r \in Players : Starting(u, r)' => Starting(u, r)
    BY <1>1, <1>5 DEF Starting
  <2> QED
    BY <1>1, <2>1, TicksKept
<1>9. Registered' /\ Alone' /\ ExecuterSound'
  BY <1>1, PlayersKept DEF ExecuterSound
<1> QED
  BY <1>3, <1>4, <1>6, <1>7, <1>8, <1>9

LEMMA EnterDoSyncKeeps ==
  ASSUME IInv, NEW t \in IoThreads, EnterDoSync(t)
  PROVE  IInv'
<1> USE DEF IInv
<1>1. /\ ~halted /\ work[t].at = "sessionReset" /\ EnterLock(t, work[t].job)
      /\ Goto(t, "playerReset")
      /\ UNCHANGED <<now, mTimerJobQueue, connected, player, mBuffList, mPlayerMap,
                     mCurrentIssueId, central, restarted, rushed>>
  BY DEF EnterDoSync, At
<1>2. mLockStack[t] = <<"SessionManager">> /\ work[t].job \in Players
  BY <1>1 DEF AllPlaced, Placed
<1>3. /\ mLockStack' \in [IoThreads -> Seq(Locks)]
      /\ mLockStack'[t] = Append(mLockStack[t], work[t].job)
      /\ \A u \in IoThreads \ {t} : mLockStack'[u] = mLockStack[u]
      /\ Exclusive'
  BY <1>1, <1>2, EnterFacts DEF Locks
<1>4. halted' = FALSE
  BY <1>1, <1>2, InOrderFacts DEF EnterLock
<1>5. /\ work' \in [IoThreads -> [at : Places, job : Players \cup Job \cup {<<>>}]]
      /\ work'[t].at = "playerReset" /\ work'[t].job = work[t].job
      /\ \A u \in IoThreads \ {t} : work'[u] = work[u]
  BY <1>1, GotoFacts DEF Places
<1>6. TypeOK'
  <2>1. {connected, restarted, rushed}' \subseteq SUBSET Players
    BY <1>1 DEF TypeOK
  <2>2. halted' \in BOOLEAN
    BY <1>4
  <2> QED
    BY <1>1, <1>3, <1>5, <2>1, <2>2 DEF TypeOK
<1>7. AllPlaced'
  <2>1. ASSUME NEW u \in IoThreads \ {t} PROVE Placed(u)'
    BY <1>1, <1>3, <1>5, PlacedKept DEF AllPlaced, Placed
  <2>2. mLockStack'[t] = <<"SessionManager", work'[t].job>>
    BY <1>2, <1>3, <1>5, AppendToOne
  <2>3. Placed(t)'
    BY <1>2, <1>5, <2>2 DEF Placed, Busy
  <2> QED
    BY <2>1, <2>3 DEF AllPlaced
<1>8. Ticking' /\ OneLiveTick'
  <2>1. ASSUME NEW u \in IoThreads
        PROVE  /\ work'[u].at = "pop" <=> work[u].at = "pop"
               /\ \A r \in Players : Starting(u, r)' => Starting(u, r)
    BY <1>1, <1>5 DEF Starting
  <2> QED
    BY <1>1, <2>1, TicksKept
<1>9. Registered' /\ Alone' /\ ExecuterSound'
  BY <1>1, PlayersKept DEF ExecuterSound
<1> QED
  BY <1>3, <1>4, <1>6, <1>7, <1>8, <1>9

LEMMA PlayerResetKeeps ==
  ASSUME IInv, NEW t \in IoThreads, PlayerReset(t)
  PROVE  IInv'
<1> USE DEF IInv
<1> DEFINE p == work[t].job
           id == player[p].mPlayerId
<1>1. /\ ~halted /\ work[t].at = "playerReset"
      /\ mPlayerMap' = [i \in DOMAIN mPlayerMap \ {id} |-> mPlayerMap[i]]
      /\ player' = [player EXCEPT ![p] = AtRest]
      /\ connected' = connected \ {p}
      /\ LeaveLocks(t, <<p, "SessionManager">>) /\ work' = [work EXCEPT ![t] = Loop]
      /\ UNCHANGED <<now, mTimerJobQueue, mBuffList, mCurrentIssueId, central,
                     restarted, rushed>>
  BY DEF PlayerReset, At
<1>2. mLockStack[t] = <<"SessionManager", p>> /\ p \in Players
  BY <1>1 DEF AllPlaced, Placed
<1>3. /\ mLockStack' \in [IoThreads -> Seq(Locks)]
      /\ mLockStack'[t] = <<>> /\ halted' = FALSE
      /\ \A u \in IoThreads \ {t} : mLockStack'[u] = mLockStack[u]
      /\ Exclusive'
  BY <1>1, <1>2, LeaveTwo DEF Locks, Managers
<1>4. /\ work' \in [IoThreads -> [at : Places, job : Players \cup Job \cup {<<>>}]]
      /\ work'[t] = Loop
      /\ \A u \in IoThreads \ {t} : work'[u] = work[u]
  BY <1>1 DEF TypeOK, Places, Loop
<1>5. /\ player' \in [Players -> [mPlayerId : Nat \cup {-1}, mIsAlive : BOOLEAN,
                                  mHeartBeat : {-1, HeartBeat}]]
      /\ player'[p] = AtRest /\ ~player'[p].mIsAlive
      /\ \A r \in Players \ {p} : player'[r] = player[r]
  BY <1>1, <1>2 DEF TypeOK, AtRest
<1>6. /\ DOMAIN mPlayerMap' = DOMAIN mPlayerMap \ {id}
      /\ \A i \in DOMAIN mPlayerMap' : mPlayerMap'[i] = mPlayerMap[i]
  BY <1>1
<1>7. TypeOK'
  <2>1. {connected, restarted, rushed}' \subseteq SUBSET Players
    BY <1>1 DEF TypeOK
  <2> QED
    BY <1>1, <1>3, <1>4, <1>5, <1>6, <2>1 DEF TypeOK
<1>8. work'[t].at = "loop" /\ work'[t].job = <<>>
  BY <1>4 DEF Loop
<1> HIDE DEF p, id
<1>9. AllPlaced'
  <2>1. ASSUME NEW u \in IoThreads \ {t} PROVE Placed(u)'
    <3>1. ASSUME work[u].at \in {"decay", "nextTick"}
          PROVE  player'[work[u].job.mOwner].mIsAlive
      <4>1. /\ work[u].job \in Job /\ work[u].at \in Busy
            /\ player[work[u].job.mOwner].mIsAlive
        BY <3>1 DEF AllPlaced, Placed, Busy
      <4>2. work[u].job.mOwner \in Players
        BY <4>1 DEF Job
      <4>3. work[u].job.mOwner # p
        BY <1>1, <4>1, OneHolder DEF HoldsPlayer, p
      <4> QED
        BY <4>1, <4>2, <4>3, <1>5
    <3> QED
      BY <1>1, <1>3, <1>4, <3>1, PlacedKept
  <2>2. Placed(t)'
    BY <1>3, <1>8 DEF Placed, Busy
  <2> QED
    BY <2>1, <2>2 DEF AllPlaced
<1>10. Registered'
  <2>1. ASSUME NEW r \in Players, player'[r].mIsAlive
        PROVE  /\ player'[r].mHeartBeat = HeartBeat
               /\ player'[r].mPlayerId \in DOMAIN mPlayerMap'
               /\ mPlayerMap'[player'[r].mPlayerId] = r
    <3>1. r # p /\ player'[r] = player[r]
      BY <1>5, <2>1
    <3>2. /\ player[r].mHeartBeat = HeartBeat /\ player[r].mPlayerId \in DOMAIN mPlayerMap
          /\ mPlayerMap[player[r].mPlayerId] = r
      BY <2>1, <3>1 DEF Registered
    <3>3. player[r].mPlayerId # id
      <4>1. CASE player[p].mIsAlive
        BY <4>1, <1>2, <3>1, <3>2 DEF Registered, id
      <4>2. CASE ~player[p].mIsAlive
        <5>1. id = -1
          BY <4>2, <1>2 DEF Registered, AtRest, id
        <5>2. player[r].mPlayerId \in 1 .. mCurrentIssueId
          BY <3>2 DEF TypeOK
        <5> QED
          BY <5>1, <5>2
      <4> QED
        BY <4>1, <4>2
    <3> QED
      BY <1>6, <3>1, <3>2, <3>3
  <2>2. ASSUME NEW r \in Players, ~player'[r].mIsAlive PROVE player'[r] = AtRest
    BY <1>5, <2>2 DEF Registered
  <2> QED
    BY <2>1, <2>2 DEF Registered
<1>11. Alone'
  <2>1. ASSUME NEW r \in Players \ restarted', NEW i \in DOMAIN mPlayerMap',
               mPlayerMap'[i] = r
        PROVE  player'[r].mIsAlive /\ player'[r].mPlayerId = i
    <3>1. i \in DOMAIN mPlayerMap /\ mPlayerMap[i] = r /\ i # id /\ r \notin restarted
      BY <1>1, <1>6, <2>1
    <3>2. player[r].mIsAlive /\ player[r].mPlayerId = i
      BY <3>1 DEF Alone
    <3>3. r # p
      BY <3>1, <3>2 DEF id
    <3> QED
      BY <3>2, <3>3, <1>5
  <2> QED
    BY <2>1 DEF Alone
<1>12. Ticking' /\ OneLiveTick'
  <2>1. ASSUME NEW u \in IoThreads
        PROVE  /\ work'[u].at = "pop" <=> work[u].at = "pop"
               /\ \A r \in Players : Starting(u, r)' => Starting(u, r)
    BY <1>1, <1>4, <1>8 DEF Starting
  <2>2. \A r \in Players : player'[r].mIsAlive => player[r].mIsAlive
    BY <1>5
  <2> QED
    BY <1>1, <2>1, <2>2, TicksKept
<1>13. ExecuterSound'
  BY <1>1 DEF ExecuterSound
<1> QED
  BY <1>3, <1>7, <1>9, <1>10, <1>11, <1>12, <1>13

-----------------------------------------------------------------------------
(* The timer jobs.                                                         *)
LEMMA DoTimerJobFacts ==
  ASSUME IInv, NEW t \in IoThreads, NEW task, DoTimerJob(t, task),
         UNCHANGED <<now, mTimerJobQueue>>
  PROVE  /\ work[t].at = "loop"
         /\ mTimerJobQueue[t] # <<>> /\ mTimerJobQueue[t][1] \in Job
         /\ Head(mTimerJobQueue[t]) = mTimerJobQueue[t][1]
         /\ mTimerJobQueue[t][1].mTask = task
         /\ mLockStack' \in [IoThreads -> Seq(Locks)] /\ Exclusive' /\ halted' = FALSE
         /\ \A u \in IoThreads \ {t} : mLockStack'[u] = mLockStack[u]
         /\ work' \in [IoThreads -> [at : Places, job : Players \cup Job \cup {<<>>}]]
         /\ work'[t].at = "onTick" /\ work'[t].job = mTimerJobQueue[t][1]
         /\ \A u \in IoThreads \ {t} : work'[u] = work[u]
         /\ Placed(t)'
<1> USE DEF IInv
<1> DEFINE job == Head(mTimerJobQueue[t])
<1>1. /\ ~halted /\ work[t].at = "loop"
      /\ mTimerJobQueue[t] # <<>> /\ job.mExecutionTick <= now
      /\ job.mTask = task /\ EnterLock(t, job.mOwner)
      /\ work' = [work EXCEPT ![t] = [at |-> "onTick", job |-> job]]
  BY DEF DoTimerJob, At, IsDue
<1>2. job = mTimerJobQueue[t][1] /\ job \in Job
  BY <1>1 DEF TypeOK
<1> HIDE DEF job
<1>3. job.mOwner \in Players /\ job.mOwner \in Locks
  BY <1>2 DEF Job, Locks
<1>4. mLockStack[t] = <<>>
  BY <1>1 DEF AllPlaced, Placed
<1>5. /\ mLockStack' \in [IoThreads -> Seq(Locks)]
      /\ mLockStack'[t] = Append(mLockStack[t], job.mOwner)
      /\ \A u \in IoThreads \ {t} : mLockStack'[u] = mLockStack[u]
      /\ Exclusive'
  BY <1>1, <1>3, EnterFacts
<1>6. halted' = FALSE
  BY <1>1, <1>4, InOrderFacts DEF EnterLock
<1>7. /\ work' \in [IoThreads -> [at : Places, job : Players \cup Job \cup {<<>>}]]
      /\ work'[t].at = "onTick" /\ work'[t].job = job
      /\ \A u \in IoThreads \ {t} : work'[u] = work[u]
  BY <1>1, <1>2 DEF TypeOK, Places
<1>8. mLockStack'[t] = <<job.mOwner>>
  BY <1>4, <1>5
<1>9. Placed(t)'
  BY <1>1, <1>2, <1>7, <1>8 DEF Placed, Busy
<1> QED
  BY <1>1, <1>2, <1>5, <1>6, <1>7, <1>9 DEF job

LEMMA OnTickKeeps ==
  ASSUME IInv, NEW t \in IoThreads, OnTick(t)
  PROVE  IInv'
<1> USE DEF IInv
<1>1. /\ DoTimerJob(t, "OnTick")
      /\ UNCHANGED <<now, mTimerJobQueue, connected, player, mBuffList, mPlayerMap,
                     mCurrentIssueId, central, restarted, rushed>>
  BY DEF OnTick
<1>2. /\ work[t].at = "loop" /\ mTimerJobQueue[t][1].mTask = "OnTick"
      /\ mLockStack' \in [IoThreads -> Seq(Locks)] /\ Exclusive' /\ halted' = FALSE
      /\ \A u \in IoThreads \ {t} : mLockStack'[u] = mLockStack[u]
      /\ work' \in [IoThreads -> [at : Places, job : Players \cup Job \cup {<<>>}]]
      /\ work'[t].at = "onTick" /\ work'[t].job = mTimerJobQueue[t][1]
      /\ \A u \in IoThreads \ {t} : work'[u] = work[u]
      /\ Placed(t)'
  BY <1>1, DoTimerJobFacts
<1>3. TypeOK'
  <2>1. {connected, restarted, rushed}' \subseteq SUBSET Players
    BY <1>1 DEF TypeOK
  <2>2. halted' \in BOOLEAN
    BY <1>2
  <2> QED
    BY <1>1, <1>2, <2>1, <2>2 DEF TypeOK
<1>4. AllPlaced'
  <2>1. ASSUME NEW u \in IoThreads \ {t} PROVE Placed(u)'
    BY <1>1, <1>2, PlacedKept DEF AllPlaced, Placed
  <2> QED
    BY <1>2, <2>1 DEF AllPlaced
<1>5. Ticking' /\ OneLiveTick'
  <2>1. ASSUME NEW u \in IoThreads
        PROVE  /\ work'[u].at = "pop" <=> work[u].at = "pop"
               /\ \A r \in Players : Starting(u, r)' => Starting(u, r)
    BY <1>1, <1>2 DEF Starting
  <2> QED
    BY <1>1, <2>1, TicksKept
<1>6. Registered' /\ Alone' /\ ExecuterSound'
  BY <1>1, PlayersKept DEF ExecuterSound
<1> QED
  BY <1>2, <1>3, <1>4, <1>5, <1>6

LEMMA StartKeeps ==
  ASSUME IInv, NEW t \in IoThreads, Start(t)
  PROVE  IInv'
<1> USE DEF IInv
<1> DEFINE p == mTimerJobQueue[t][1].mOwner
           id == mCurrentIssueId + 1
<1>1. /\ DoTimerJob(t, "Start") /\ UNCHANGED <<now, mTimerJobQueue>>
  BY DEF Start
<1>2. /\ work[t].at = "loop" /\ mTimerJobQueue[t] # <<>>
      /\ mTimerJobQueue[t][1] \in Job
      /\ Head(mTimerJobQueue[t]) = mTimerJobQueue[t][1]
      /\ mLockStack' \in [IoThreads -> Seq(Locks)] /\ Exclusive' /\ halted' = FALSE
      /\ \A u \in IoThreads \ {t} : mLockStack'[u] = mLockStack[u]
      /\ work' \in [IoThreads -> [at : Places, job : Players \cup Job \cup {<<>>}]]
      /\ work'[t].at = "onTick" /\ work'[t].job = mTimerJobQueue[t][1]
      /\ \A u \in IoThreads \ {t} : work'[u] = work[u]
      /\ Placed(t)'
  BY <1>1, DoTimerJobFacts
<1>3. /\ mCurrentIssueId' = id /\ mPlayerMap' = RegisterPlayer(id, p)
      /\ player' = [player EXCEPT ![p] = [mPlayerId |-> id, mHeartBeat |-> HeartBeat,
                                          mIsAlive |-> TRUE]]
      /\ restarted' = restarted \cup {q \in {p} : player[q].mIsAlive}
      /\ rushed' = rushed \cup {q \in {p} : \E u \in IoThreads : Jobs(u, q, "OnTick") # {}}
      /\ UNCHANGED <<connected, mBuffList, central>>
  BY <1>2 DEF Start
<1>4. p \in Players
  BY <1>2 DEF Job
<1>5. mCurrentIssueId \in Nat /\ id \in Nat /\ id \notin DOMAIN mPlayerMap
  BY DEF TypeOK
<1>6. /\ DOMAIN mPlayerMap' = DOMAIN mPlayerMap \cup {id} /\ mPlayerMap'[id] = p
      /\ \A i \in DOMAIN mPlayerMap : mPlayerMap'[i] = mPlayerMap[i]
  BY <1>3, <1>5 DEF RegisterPlayer
<1> HIDE DEF p
<1>7. /\ player' \in [Players -> [mPlayerId : Nat \cup {-1}, mIsAlive : BOOLEAN,
                                  mHeartBeat : {-1, HeartBeat}]]
      /\ player'[p].mPlayerId = id /\ player'[p].mHeartBeat = HeartBeat
      /\ player'[p].mIsAlive
      /\ \A r \in Players \ {p} : player'[r] = player[r]
  BY <1>3, <1>4, <1>5 DEF TypeOK
<1>8. TypeOK'
  <2>1. {connected, restarted, rushed}' \subseteq SUBSET Players
    BY <1>3, <1>4 DEF TypeOK
  <2>2. halted' \in BOOLEAN
    BY <1>2
  <2>3. DOMAIN mPlayerMap' \subseteq 1 .. mCurrentIssueId' /\ mCurrentIssueId' \in Nat
    BY <1>3, <1>5, <1>6 DEF TypeOK
  <2>4. \A i \in DOMAIN mPlayerMap' : mPlayerMap'[i] \in Players
    BY <1>4, <1>6 DEF TypeOK
  <2> QED
    BY <1>1, <1>2, <1>3, <1>7, <2>1, <2>2, <2>3, <2>4 DEF TypeOK
<1>9. AllPlaced'
  <2>1. ASSUME NEW u \in IoThreads \ {t} PROVE Placed(u)'
    <3>1. ASSUME work[u].at \in {"decay", "nextTick"}
          PROVE  player'[work[u].job.mOwner].mIsAlive
      <4>1. /\ work[u].job \in Job /\ player[work[u].job.mOwner].mIsAlive
        BY <3>1 DEF AllPlaced, Placed, Busy
      <4>2. work[u].job.mOwner \in Players
        BY <4>1 DEF Job
      <4> QED
        BY <4>1, <4>2, <1>7
    <3> QED
      BY <1>1, <1>2, <3>1, PlacedKept
  <2> QED
    BY <1>2, <2>1 DEF AllPlaced
<1> HIDE DEF id
<1>10. Registered'
  <2>1. ASSUME NEW r \in Players
        PROVE  /\ ~player'[r].mIsAlive => player'[r] = AtRest
               /\ player'[r].mIsAlive => /\ player'[r].mHeartBeat = HeartBeat
                                         /\ player'[r].mPlayerId \in DOMAIN mPlayerMap'
                                         /\ mPlayerMap'[player'[r].mPlayerId] = r
    <3>1. CASE r = p
      BY <3>1, <1>6, <1>7
    <3>2. CASE r # p
      BY <3>2, <1>6, <1>7 DEF Registered
    <3> QED
      BY <3>1, <3>2
  <2> QED
    BY <2>1 DEF Registered
<1>11. Alone'
  <2>1. ASSUME NEW r \in Players \ restarted', NEW i \in DOMAIN mPlayerMap',
               mPlayerMap'[i] = r
        PROVE  player'[r].mIsAlive /\ player'[r].mPlayerId = i
    <3>1. CASE i = id
      BY <3>1, <2>1, <1>6, <1>7
    <3>2. CASE i # id
      <4>1. i \in DOMAIN mPlayerMap /\ mPlayerMap[i] = r /\ r \notin restarted
        BY <3>2, <2>1, <1>3, <1>6
      <4>2. player[r].mIsAlive /\ player[r].mPlayerId = i
        BY <4>1 DEF Alone
      <4>3. r # p
        BY <4>2, <2>1, <1>3
      <4> QED
        BY <4>2, <4>3, <1>7
    <3> QED
      BY <3>1, <3>2
  <2> QED
    BY <2>1 DEF Alone
<1>12. ASSUME NEW u \in IoThreads, NEW i PROVE Live(u, i)' <=> Live(u, i)
  BY <1>2 DEF Live
<1>13. Ticking'
  <2>1. ASSUME NEW r \in Players, player'[r].mIsAlive
        PROVE  \E u \in IoThreads : \E i \in 1 .. Len(mTimerJobQueue'[u]) :
                 mTimerJobQueue'[u][i].mOwner = r /\ Live(u, i)'
    <3>1. CASE r = p
      <4>1. 1 \in 1 .. Len(mTimerJobQueue[t])
        BY <1>2 DEF TypeOK
      <4>2. mTimerJobQueue'[t][1].mOwner = p /\ Live(t, 1)'
        BY <1>1, <1>2 DEF Live, p
      <4> QED
        BY <3>1, <4>1, <4>2, <1>1
    <3>2. CASE r # p
      BY <3>2, <2>1, <1>1, <1>7, <1>12 DEF Ticking
    <3> QED
      BY <3>1, <3>2
  <2> QED
    BY <2>1 DEF Ticking
<1>14. OneLiveTick'
  <2>1. ASSUME NEW u \in IoThreads, NEW i, NEW r, TickJob(u, i, r)'
        PROVE  TickJob(u, i, r)
    BY <1>1, <1>12, <2>1 DEF TickJob
  <2>2. ASSUME NEW r \in Players \ rushed', r = p, NEW u \in IoThreads, NEW i
        PROVE  ~TickJob(u, i, r)
    <3>1. Jobs(u, r, "OnTick") = {}
      BY <2>2, <1>3
    <3>2. TickJob(u, i, r) => i \in Jobs(u, r, "OnTick")
      BY DEF TickJob, Jobs, TypeOK
    <3> QED
      BY <3>1, <3>2
  <2>3. ASSUME NEW r \in Players, r # p, NEW u \in IoThreads, Starting(u, r)'
        PROVE  Starting(u, r)
    BY <2>3, <1>2 DEF Starting, p
  <2>4. rushed \subseteq rushed'
    BY <1>3
  <2> QED
    BY <2>1, <2>2, <2>3, <2>4 DEF OneLiveTick
<1>15. ExecuterSound'
  BY <1>3 DEF ExecuterSound
<1> QED
  BY <1>2, <1>8, <1>9, <1>10, <1>11, <1>13, <1>14, <1>15

(* OnTick posts a task to the executer and goes on. *)
LEMMA DispatchKeeps ==
  ASSUME IInv, NEW t \in IoThreads, NEW place \in {"decay", "nextTick"},
         NEW task \in {"DoBuffToAllPlayers", "CheckBuffTimeout"},
         work[t].at \in {"onTick", "decay"}, player[work[t].job.mOwner].mIsAlive,
         GCEDispatch(t, task), Goto(t, place),
         UNCHANGED <<now, mTimerJobQueue, mLockStack, halted, connected, player,
                     mBuffList, mPlayerMap, mCurrentIssueId, restarted, rushed>>
  PROVE  IInv'
<1> USE DEF IInv
<1>1. /\ work' \in [IoThreads -> [at : Places, job : Players \cup Job \cup {<<>>}]]
      /\ work'[t].at = place /\ work'[t].job = work[t].job
      /\ \A u \in IoThreads \ {t} : work'[u] = work[u]
  BY GotoFacts DEF Places
<1> DEFINE Names == {"DoBuffToAllPlayers", "CheckBuffTimeout"}
<1>2. /\ central.tasks \in Seq(Names) /\ central.owner \in IoThreads \cup {Nobody}
      /\ central \in [tasks : Seq(Names), owner : IoThreads \cup {Nobody},
                      seen : SUBSET (Nat \X Players), reading : BOOLEAN]
  BY DEF TypeOK
<1>3. /\ central'.tasks = Append(central.tasks, task)
      /\ central'.owner = (IF central.owner = Nobody THEN t ELSE central.owner)
      /\ central'.seen = central.seen
      /\ central' \in [tasks : Seq(Names), owner : IoThreads \cup {Nobody},
                       seen : SUBSET (Nat \X Players), reading : BOOLEAN]
  <2> DEFINE owner == IF central.owner = Nobody THEN t ELSE central.owner
             tasks == Append(central.tasks, task)
  <2>1. owner \in IoThreads \cup {Nobody} /\ tasks \in Seq(Names)
    BY <1>2
  <2>2. central' = [central EXCEPT !.tasks = tasks, !.owner = owner]
    BY DEF GCEDispatch
  <2> HIDE DEF owner, tasks, Names
  <2>3. central' = [tasks |-> tasks, owner |-> owner, seen |-> central.seen,
                    reading |-> central.reading]
    BY <1>2, <2>2
  <2>4. /\ central'.tasks = tasks /\ central'.owner = owner /\ central'.seen = central.seen
    BY <2>3
  <2>5. central' \in [tasks : Seq(Names), owner : IoThreads \cup {Nobody},
                      seen : SUBSET (Nat \X Players), reading : BOOLEAN]
    BY <1>2, <2>1, <2>3
  <2> QED
    BY <2>4, <2>5 DEF tasks, owner
<1>4. TypeOK'
  <2>1. {connected, restarted, rushed}' \subseteq SUBSET Players
    BY DEF TypeOK
  <2> QED
    BY <1>1, <1>3, <2>1 DEF TypeOK
<1>5. ExecuterSound'
  <2>1. central'.owner # Nobody
    BY <1>3, PlayersAssumption DEF PlayersAssumption
  <2>2. central'.tasks # <<>>
    BY <1>2, <1>3
  <2> QED
    BY <1>3, <2>1, <2>2 DEF ExecuterSound
<1>6. AllPlaced'
  <2>1. ASSUME NEW u \in IoThreads \ {t} PROVE Placed(u)'
    BY <1>1, PlacedKept DEF AllPlaced, Placed
  <2>2. Placed(t)'
    BY <1>1 DEF AllPlaced, Placed, Busy
  <2> QED
    BY <2>1, <2>2 DEF AllPlaced
<1>7. Ticking' /\ OneLiveTick'
  <2>1. ASSUME NEW u \in IoThreads
        PROVE  /\ work'[u].at = "pop" <=> work[u].at = "pop"
               /\ \A r \in Players : Starting(u, r)' => Starting(u, r)
    BY <1>1 DEF Starting
  <2> QED
    BY <2>1, TicksKept
<1>8. Registered' /\ Alone' /\ Exclusive'
  BY PlayersKept DEF Exclusive
<1> QED
  BY <1>4, <1>5, <1>6, <1>7, <1>8

LEMMA BuffKeeps ==
  ASSUME IInv, NEW t \in IoThreads, Buff(t)
  PROVE  IInv'
  BY DispatchKeeps DEF Buff, At

LEMMA DecayKeeps ==
  ASSUME IInv, NEW t \in IoThreads, Decay(t)
  PROVE  IInv'
  BY DispatchKeeps DEF Decay, At

(* The next tick goes behind the job that runs, which is due already; if   *)
(* that job was a tick it will be popped, if it was the start there was no *)
(* tick.                                                                   *)
LEMMA NextTickKeeps ==
  ASSUME IInv, NEW t \in IoThreads, NextTick(t)
  PROVE  IInv'
<1> USE DEF IInv
<1> DEFINE q == mTimerJobQueue[t]
           p == work[t].job.mOwner
           e == [mOwner |-> p, mTask |-> "OnTick", mExecutionTick |-> now + HeartBeat]
<1>1. /\ ~halted /\ work[t].at = "nextTick" /\ Goto(t, "pop")
      /\ PushTimerJob(t, p, "OnTick", player[p].mHeartBeat)
      /\ UNCHANGED <<now, mLockStack, halted, connected, player, mBuffList, mPlayerMap,
                     mCurrentIssueId, central, restarted, rushed>>
  BY DEF NextTick, At
<1>2. /\ work[t].job \in Job /\ q # <<>> /\ q[1] = work[t].job
      /\ mLockStack[t] = <<p>>
      /\ work[t].job.mExecutionTick <= now /\ player[p].mIsAlive
  BY <1>1 DEF AllPlaced, Placed, Busy
<1>3. p \in Players /\ player[p].mHeartBeat = HeartBeat
  BY <1>2 DEF Job, Registered
<1>4. q[1].mExecutionTick < now + HeartBeat /\ HeartBeat \in Nat
  BY <1>2, PlayersAssumption, SMTT(60) DEF PlayersAssumption, Job, TypeOK
<1>5. /\ mTimerJobQueue' \in [IoThreads -> Seq(Job)]
      /\ \A u \in IoThreads \ {t} : mTimerJobQueue'[u] = mTimerJobQueue[u]
      /\ \E k \in 1 .. Len(q) + 1 :
           /\ Len(mTimerJobQueue'[t]) = Len(q) + 1
           /\ \A j \in 1 .. Len(q) + 1 :
                mTimerJobQueue'[t][j] = IF j < k THEN q[j] ELSE IF j = k THEN e ELSE q[j - 1]
           /\ q # <<>> /\ q[1].mExecutionTick < now + HeartBeat => k >= 2
  BY <1>1, <1>3, <1>4, PushFacts DEF Tasks
<1>6. PICK k \in 2 .. Len(q) + 1 :
        /\ Len(mTimerJobQueue'[t]) = Len(q) + 1
        /\ \A j \in 1 .. Len(q) + 1 :
             mTimerJobQueue'[t][j] = IF j < k THEN q[j] ELSE IF j = k THEN e ELSE q[j - 1]
  <2> HIDE DEF q, e
  <2>1. PICK k \in 1 .. Len(q) + 1 :
          /\ Len(mTimerJobQueue'[t]) = Len(q) + 1
          /\ \A j \in 1 .. Len(q) + 1 :
               mTimerJobQueue'[t][j] = IF j < k THEN q[j] ELSE IF j = k THEN e ELSE q[j - 1]
          /\ q # <<>> /\ q[1].mExecutionTick < now + HeartBeat => k >= 2
    BY <1>5
  <2>2. k \in 2 .. Len(q) + 1
    BY <2>1, <1>2, <1>4
  <2> QED
    BY <2>1, <2>2
<1>7. Len(q) \in Nat /\ Len(q) >= 1 /\ e.mTask = "OnTick" /\ e.mOwner = p
  BY <1>2 DEF TypeOK
<1>8. /\ work' \in [IoThreads -> [at : Places, job : Players \cup Job \cup {<<>>}]]
      /\ work'[t].at = "pop" /\ work'[t].job = work[t].job
      /\ \A u \in IoThreads \ {t} : work'[u] = work[u]
  BY <1>1, GotoFacts DEF Places
<1> HIDE DEF q, e
<1>9. mTimerJobQueue'[t][1] = q[1] /\ mTimerJobQueue'[t] # <<>>
  <2>1. 1 \in 1 .. Len(q) + 1 /\ 1 < k /\ Len(q) + 1 # 0
    BY <1>7
  <2>2. mTimerJobQueue'[t][1] = q[1]
    BY <2>1, <1>6
  <2>3. mTimerJobQueue'[t] # <<>>
    BY <2>1, <1>6
  <2> QED
    BY <2>2, <2>3
<1>10. TypeOK'
  <2>1. {connected, restarted, rushed}' \subseteq SUBSET Players
    BY <1>1, SMTT(60) DEF TypeOK
  <2> QED
    BY <1>1, <1>5, <1>8, <2>1 DEF TypeOK
<1>11. AllPlaced'
  <2>1. ASSUME NEW u \in IoThreads \ {t} PROVE Placed(u)'
    BY <1>1, <1>5, <1>8, PlacedKept DEF AllPlaced, Placed
  <2>2. Placed(t)'
    BY <1>1, <1>2, <1>8, <1>9 DEF Placed, Busy
  <2> QED
    BY <2>1, <2>2 DEF AllPlaced
<1> HIDE DEF p
<1>12. Ticking'
  <2>1. ASSUME NEW r \in Players, player'[r].mIsAlive
        PROVE  \E u \in IoThreads : \E i \in 1 .. Len(mTimerJobQueue'[u]) :
                 mTimerJobQueue'[u][i].mOwner = r /\ Live(u, i)'
    <3>1. CASE r = p
      <4>1. k \in 1 .. Len(mTimerJobQueue'[t]) /\ mTimerJobQueue'[t][k] = e
        BY <1>6, <1>7
      <4>2. Live(t, k)'
        BY DEF Live
      <4> QED
        BY <3>1, <4>1, <4>2, <1>7
    <3>2. CASE r # p
      <4>1. PICK u \in IoThreads : \E i \in 1 .. Len(mTimerJobQueue[u]) :
              mTimerJobQueue[u][i].mOwner = r /\ Live(u, i)
        BY <1>1, <2>1 DEF Ticking
      <4>2. PICK i \in 1 .. Len(mTimerJobQueue[u]) :
              mTimerJobQueue[u][i].mOwner = r /\ Live(u, i)
        BY <4>1
      <4>3. CASE u # t
        BY <1>5, <1>8, <4>2, <4>3 DEF Live
      <4>4. CASE u = t
        <5> DEFINE j == IF i < k THEN i ELSE i + 1
        <5>1. i # 1
          BY <1>2, <3>2, <4>2, <4>4 DEF q, p
        <5>2. j \in 2 .. Len(q) + 1 /\ j # k /\ (IF j < k THEN j ELSE j - 1) = i
          BY <1>7, <4>4, <5>1 DEF q
        <5>3. mTimerJobQueue'[t][j] = q[i]
          BY <5>2, <1>6
        <5>4. Live(t, j)'
          BY <5>2 DEF Live
        <5>5. j \in 1 .. Len(mTimerJobQueue'[t])
          BY <5>2, <1>6
        <5> QED
          BY <4>2, <4>4, <5>3, <5>4, <5>5 DEF q
      <4> QED
        BY <4>3, <4>4
    <3> QED
      BY <3>1, <3>2
  <2> QED
    BY <2>1 DEF Ticking
<1>13. OneLiveTick'
  <2> DEFINE old(i) == IF i < k THEN i ELSE i - 1
  <2>1. ASSUME NEW r, NEW i \in Nat, TickJob(t, i, r)', i # k
        PROVE  TickJob(t, old(i), r) /\ old(i) # 1
    <3>1. i \in 1 .. Len(q) + 1 /\ mTimerJobQueue'[t][i].mTask = "OnTick"
          /\ mTimerJobQueue'[t][i].mOwner = r /\ i # 1
      BY <2>1, <1>6, <1>8 DEF TickJob, Live
    <3>2. mTimerJobQueue'[t][i] = q[old(i)]
      BY <2>1, <3>1, <1>6
    <3>3. old(i) \in 1 .. Len(q) /\ old(i) # 1
      BY <2>1, <3>1, <1>7
    <3> QED
      BY <1>1, <3>1, <3>2, <3>3 DEF q, TickJob, Live
  <2>2. ASSUME NEW u \in IoThreads \ {t}, NEW r, NEW i, TickJob(u, i, r)'
        PROVE  TickJob(u, i, r)
    BY <1>5, <1>8, <2>2 DEF TickJob, Live
  <2>3. ASSUME NEW u \in IoThreads, NEW r, Starting(u, r)' PROVE Starting(u, r) /\ u # t
    BY <1>8, <2>3 DEF Starting
  <2>4. \A i, j \in Nat : i # k /\ j # k /\ old(i) = old(j) => i = j
    OBVIOUS
  <2>5. \A i \in Nat : i # k => old(i) \in Nat
    OBVIOUS
  <2>6. ASSUME NEW r, TickJob(t, k, r)' PROVE r = p
    BY <2>6, <1>6, <1>7 DEF TickJob
  <2> HIDE DEF old
  <2>7. ASSUME NEW r \in Players \ rushed', r = p, NEW u \in IoThreads, NEW i \in Nat,
               TickJob(u, i, r)'
        PROVE  u = t /\ i = k
    <3>1. SUFFICES ASSUME ~(u = t /\ i = k) PROVE FALSE
      OBVIOUS
    <3>2. PICK j \in Nat : TickJob(u, j, r) /\ ~(u = t /\ j = 1)
      BY <2>1, <2>2, <2>5, <2>7, <3>1
    <3>3. r \in Players \ rushed
      BY <1>1
    <3>4. CASE q[1].mTask = "OnTick"
      <4>1. TickJob(t, 1, p)
        BY <1>1, <1>2, <1>7, <3>4 DEF TickJob, Live, q, p
      <4> QED
        BY <2>7, <3>2, <3>3, <4>1 DEF OneLiveTick
    <3>5. CASE q[1].mTask = "Start"
      <4>1. Starting(t, p)
        BY <1>1, <1>2, <3>5 DEF Starting, q, p
      <4> QED
        BY <2>7, <3>2, <3>3, <4>1 DEF OneLiveTick
    <3>6. q[1].mTask \in {"Start", "OnTick"}
      BY <1>2 DEF Job, Tasks
    <3> QED
      BY <3>4, <3>5, <3>6
  <2>8. ASSUME NEW r \in Players \ rushed', NEW u \in IoThreads, NEW v \in IoThreads,
               NEW i \in Nat, NEW j \in Nat, TickJob(u, i, r)', TickJob(v, j, r)'
        PROVE  u = v /\ i = j
    <3>1. r \in Players \ rushed
      BY <1>1
    <3>2. CASE r = p
      BY <2>7, <2>8, <3>2
    <3>3. CASE r # p
      <4>1. (u = t => i # k) /\ (v = t => j # k)
        BY <2>6, <2>8, <3>3
      <4>2. CASE u = t /\ v = t
        BY <3>1, <4>1, <4>2, <2>1, <2>4, <2>5, <2>8 DEF OneLiveTick
      <4>3. CASE u = t /\ v # t
        BY <3>1, <4>1, <4>3, <2>1, <2>2, <2>5, <2>8 DEF OneLiveTick
      <4>4. CASE u # t /\ v = t
        BY <3>1, <4>1, <4>4, <2>1, <2>2, <2>5, <2>8 DEF OneLiveTick
      <4>5. CASE u # t /\ v # t
        BY <3>1, <4>5, <2>2, <2>8 DEF OneLiveTick
      <4> QED
        BY <4>2, <4>3, <4>4, <4>5
    <3> QED
      BY <3>2, <3>3
  <2>9. ASSUME NEW r \in Players \ rushed', NEW u \in IoThreads, NEW v \in IoThreads,
               NEW i \in Nat, Starting(u, r)', TickJob(v, i, r)'
        PROVE  FALSE
    <3>1. r \in Players \ rushed /\ Starting(u, r) /\ u # t
      BY <1>1, <2>3, <2>9
    <3>2. CASE r = p
      <4>1. HoldsPlayer(u, p) /\ HoldsPlayer(t, p)
        BY <3>1, <3>2, <1>1 DEF HoldsPlayer, Starting, Busy, p
      <4> QED
        BY <4>1, <3>1, OneHolder
    <3>3. CASE r # p
      <4>1. v = t => i # k
        BY <2>6, <2>9, <3>3
      <4>2. CASE v = t
        BY <3>1, <4>1, <4>2, <2>1, <2>5, <2>9 DEF OneLiveTick
      <4>3. CASE v # t
        BY <3>1, <4>3, <2>2, <2>9 DEF OneLiveTick
      <4> QED
        BY <4>2, <4>3
    <3> QED
      BY <3>2, <3>3
  <2> QED
    BY <2>8, <2>9 DEF OneLiveTick
<1>14. Registered' /\ Alone' /\ ExecuterSound' /\ Exclusive'
  BY <1>1, PlayersKept DEF ExecuterSound, Exclusive
<1> QED
  BY <1>1, <1>10, <1>11, <1>12, <1>13, <1>14

LEMMA PopKeeps ==
  ASSUME IInv, NEW t \in IoThreads, Pop(t)
  PROVE  IInv'
<1> USE DEF IInv
<1> DEFINE q == mTimerJobQueue[t]
           p == work[t].job.mOwner
<1>1. /\ ~halted /\ work[t].at \in {"pop", "onTick"}
      /\ work[t].at = "onTick" => ~player[p].mIsAlive
      /\ LeaveLocks(t, <<p>>) /\ work' = [work EXCEPT ![t] = Loop]
      /\ mTimerJobQueue' = [mTimerJobQueue EXCEPT ![t] = Tail(q)]
      /\ UNCHANGED <<now, connected, player, mBuffList, mPlayerMap, mCurrentIssueId,
                     central, restarted, rushed>>
  BY DEF Pop, At
<1>2. /\ work[t].job \in Job /\ q # <<>> /\ q[1] = work[t].job /\ mLockStack[t] = <<p>>
  BY <1>1 DEF AllPlaced, Placed, Busy
<1>3. p \in Players /\ p \in Locks /\ q \in Seq(Job)
  BY <1>2 DEF Job, Locks, TypeOK
<1>4. /\ mLockStack' \in [IoThreads -> Seq(Locks)]
      /\ mLockStack'[t] = <<>> /\ halted' = FALSE
      /\ \A u \in IoThreads \ {t} : mLockStack'[u] = mLockStack[u]
      /\ Exclusive'
  BY <1>1, <1>2, <1>3, LeaveOne
<1>5. /\ work' \in [IoThreads -> [at : Places, job : Players \cup Job \cup {<<>>}]]
      /\ work'[t] = Loop
      /\ \A u \in IoThreads \ {t} : work'[u] = work[u]
  BY <1>1 DEF TypeOK, Places, Loop
<1>6. work'[t].at = "loop" /\ work'[t].job = <<>>
  BY <1>5 DEF Loop
<1>7. /\ Tail(q) \in Seq(Job) /\ Len(q) \in Nat /\ Len(q) >= 1
      /\ Len(Tail(q)) = Len(q) - 1
      /\ \A i \in 1 .. Len(q) - 1 : Tail(q)[i] = q[i + 1]
  BY <1>2, <1>3
<1>8. /\ mTimerJobQueue' \in [IoThreads -> Seq(Job)] /\ mTimerJobQueue'[t] = Tail(q)
      /\ \A u \in IoThreads \ {t} : mTimerJobQueue'[u] = mTimerJobQueue[u]
  BY <1>1, <1>7 DEF TypeOK
<1> HIDE DEF q, p
<1>9. TypeOK'
  <2>1. {connected, restarted, rushed}' \subseteq SUBSET Players
    BY <1>1 DEF TypeOK
  <2>2. halted' \in BOOLEAN
    BY <1>4
  <2> QED
    BY <1>1, <1>4, <1>5, <1>8, <2>1, <2>2 DEF TypeOK
<1>10. AllPlaced'
  <2>1. ASSUME NEW u \in IoThreads \ {t} PROVE Placed(u)'
    BY <1>1, <1>4, <1>5, <1>8, PlacedKept DEF AllPlaced, Placed
  <2>2. Placed(t)'
    BY <1>4, <1>6 DEF Placed, Busy
  <2> QED
    BY <2>1, <2>2 DEF AllPlaced
<1>11. Ticking'
  <2>1. ASSUME NEW r \in Players, player'[r].mIsAlive
        PROVE  \E u \in IoThreads : \E i \in 1 .. Len(mTimerJobQueue'[u]) :
                 mTimerJobQueue'[u][i].mOwner = r /\ Live(u, i)'
    <3>1. PICK u \in IoThreads : \E i \in 1 .. Len(mTimerJobQueue[u]) :
            mTimerJobQueue[u][i].mOwner = r /\ Live(u, i)
      BY <1>1, <2>1 DEF Ticking
    <3>2. PICK i \in 1 .. Len(mTimerJobQueue[u]) :
            mTimerJobQueue[u][i].mOwner = r /\ Live(u, i)
      BY <3>1
    <3>3. CASE u # t
      BY <1>5, <1>8, <3>2, <3>3 DEF Live
    <3>4. CASE u = t
      <4>1. i # 1
        <5>1. CASE work[t].at = "pop"
          BY <3>2, <3>4, <5>1 DEF Live
        <5>2. CASE work[t].at = "onTick"
          BY <1>1, <1>2, <2>1, <3>2, <3>4, <5>2 DEF q, p
        <5> QED
          BY <1>1, <5>1, <5>2
      <4>2. i - 1 \in 1 .. Len(mTimerJobQueue'[t]) /\ mTimerJobQueue'[t][i - 1] = q[i]
        BY <3>4, <4>1, <1>7, <1>8 DEF q
      <4>3. Live(t, i - 1)'
        BY <1>6 DEF Live
      <4> QED
        BY <3>2, <3>4, <4>2, <4>3 DEF q
    <3> QED
      BY <3>3, <3>4
  <2> QED
    BY <2>1 DEF Ticking
<1>12. OneLiveTick'
  <2>1. ASSUME NEW r, NEW i \in Nat, TickJob(t, i, r)'
        PROVE  TickJob(t, i + 1, r)
    <3>1. i \in 1 .. Len(q) - 1 /\ mTimerJobQueue'[t][i] = q[i + 1]
      BY <2>1, <1>7, <1>8 DEF TickJob
    <3>2. i + 1 \in 1 .. Len(q) /\ i + 1 # 1
      BY <3>1, <1>7
    <3> QED
      BY <2>1, <3>1, <3>2 DEF TickJob, Live, q
  <2>2. ASSUME NEW u \in IoThreads \ {t}, NEW r, NEW i, TickJob(u, i, r)'
        PROVE  TickJob(u, i, r)
    BY <1>5, <1>8, <2>2 DEF TickJob, Live
  <2>3. ASSUME NEW u \in IoThreads, NEW r, Starting(u, r)' PROVE Starting(u, r)
    BY <1>5, <1>6, <2>3 DEF Starting
  <2>4. \A i, j \in Nat : i + 1 \in Nat /\ (i + 1 = j + 1 => i = j)
    OBVIOUS
  <2>5. ASSUME NEW r \in Players \ rushed', NEW u \in IoThreads, NEW v \in IoThreads,
               NEW i \in Nat, NEW j \in Nat, TickJob(u, i, r)', TickJob(v, j, r)'
        PROVE  u = v /\ i = j
    <3>1. r \in Players \ rushed
      BY <1>1
    <3>2. CASE u = t /\ v = t
      BY <3>1, <3>2, <2>1, <2>4, <2>5 DEF OneLiveTick
    <3>3. CASE u = t /\ v # t
      BY <3>1, <3>3, <2>1, <2>2, <2>4, <2>5 DEF OneLiveTick
    <3>4. CASE u # t /\ v = t
      BY <3>1, <3>4, <2>1, <2>2, <2>4, <2>5 DEF OneLiveTick
    <3>5. CASE u # t /\ v # t
      BY <3>1, <3>5, <2>2, <2>5 DEF OneLiveTick
    <3> QED
      BY <3>2, <3>3, <3>4, <3>5
  <2>6. ASSUME NEW r \in Players \ rushed', NEW u \in IoThreads, NEW v \in IoThreads,
               NEW i \in Nat, Starting(u, r)', TickJob(v, i, r)'
        PROVE  FALSE
    <3>1. r \in Players \ rushed /\ Starting(u, r)
      BY <1>1, <2>3, <2>6
    <3>2. CASE v = t
      BY <3>1, <3>2, <2>1, <2>4, <2>6 DEF OneLiveTick
    <3>3. CASE v # t
      BY <3>1, <3>3, <2>2, <2>6 DEF OneLiveTick
    <3> QED
      BY <3>2, <3>3
  <2> QED
    BY <2>5, <2>6 DEF OneLiveTick
<1>13. Registered' /\ Alone' /\ ExecuterSound'
  BY <1>1, PlayersKept DEF ExecuterSound
<1> QED
  BY <1>4, <1>9, <1>10, <1>11, <1>12, <1>13

-----------------------------------------------------------------------------
(* The executer.                                                           *)
LEMMA SeenFinite ==
  ASSUME NEW f, NEW n \in Nat, DOMAIN f \subseteq 1 .. n
  PROVE  IsFiniteSet({<<i, f[i]>> : i \in DOMAIN f})
<1> DEFINE T == {<<i, f[i]>> : i \in DOMAIN f}
           g == [i \in DOMAIN f |-> <<i, f[i]>>]
<1>1. IsFiniteSet(DOMAIN f)
  BY CountInSeq
<1>2. g \in Surjection(DOMAIN f, T)
  BY DEF Surjection
<1> HIDE DEF T, g
<1>3. IsFiniteSet(T)
  BY <1>1, <1>2, FS_Surjection
<1> QED
  BY <1>3 DEF T

LEMMA GetCurrentKeeps ==
  ASSUME IInv, NEW t \in IoThreads, GetCurrentPlayers(t)
  PROVE  IInv'
<1> USE DEF IInv
<1> DEFINE read == {<<i, mPlayerMap[i]>> : i \in DOMAIN mPlayerMap}
           Names == {"DoBuffToAllPlayers", "CheckBuffTimeout"}
<1>1. /\ central' = [central EXCEPT !.reading = TRUE, !.seen = read]
      /\ halted' = ~InOrder(t, "PlayerManager")
      /\ UNCHANGED <<now, mTimerJobQueue, work, mLockStack, connected, player,
                     mBuffList, mPlayerMap, mCurrentIssueId, restarted, rushed>>
  BY DEF GetCurrentPlayers
<1>2. halted' = FALSE
  BY <1>1, InOrderFacts
<1>3. IsFiniteSet(read)
  BY SeenFinite DEF TypeOK
<1>4. read \in SUBSET (Nat \X Players)
  BY DEF TypeOK
<1>5. central \in [tasks : Seq(Names), owner : IoThreads \cup {Nobody},
                   seen : SUBSET (Nat \X Players), reading : BOOLEAN]
  BY DEF TypeOK
<1> HIDE DEF read
<1>6. central' = [tasks |-> central.tasks, owner |-> central.owner, seen |-> read,
                  reading |-> TRUE]
  BY <1>1, <1>5
<1>7. TypeOK'
  <2>1. {connected, restarted, rushed}' \subseteq SUBSET Players
    BY <1>1 DEF TypeOK
  <2>2. halted' \in BOOLEAN
    BY <1>2
  <2>3. central' \in [tasks : Seq(Names), owner : IoThreads \cup {Nobody},
                      seen : SUBSET (Nat \X Players), reading : BOOLEAN]
    BY <1>4, <1>5, <1>6
  <2> QED
    BY <1>1, <2>1, <2>2, <2>3 DEF TypeOK
<1>8. ExecuterSound'
  BY <1>3, <1>6 DEF ExecuterSound
<1>9. AllPlaced'
  <2>1. ASSUME NEW u \in IoThreads PROVE Placed(u)'
    BY <1>1, PlacedKept DEF AllPlaced, Placed
  <2> QED
    BY <2>1 DEF AllPlaced
<1>10. Ticking' /\ OneLiveTick'
  BY <1>1, TicksKept DEF Starting
<1>11. Registered' /\ Alone' /\ Exclusive'
  BY <1>1, PlayersKept DEF Exclusive
<1> QED
  BY <1>2, <1>7, <1>8, <1>9, <1>10, <1>11

(* A decay gives time only to a player whose heartbeat is not positive. *)
LEMMA DecayFacts ==
  ASSUME TypeOK, NEW p \in Players, NEW left \in Nat, NEW times \in Nat
  PROVE  /\ Decayed(p, left, times) \in Nat
         /\ 0 < left /\ left < Decayed(p, left, times) => player[p].mHeartBeat = -1
<1> DEFINE hb == player[p].mHeartBeat
<1>1. hb \in {-1, HeartBeat} /\ HeartBeat \in Nat
  BY PlayersAssumption DEF PlayersAssumption, TypeOK
<1>2. \A a, b \in Nat : a * b \in Nat
  OBVIOUS
<1>3. times * (-1) = -times
  OBVIOUS
<1>4. times * hb \in Int /\ (hb # -1 => times * hb >= 0)
  <2>1. CASE hb = -1
    BY <2>1, <1>3
  <2>2. CASE hb = HeartBeat
    BY <2>2, <1>1, <1>2
  <2> QED
    BY <1>1, <2>1, <2>2
<1> DEFINE gone == times * hb
<1>5. Decayed(p, left, times) = IF left = 0 \/ left <= gone THEN 0 ELSE left - gone
  BY DEF Decayed
<1>6. gone \in Int /\ (hb # -1 => gone >= 0)
  BY <1>4
<1> HIDE DEF gone, hb
<1> QED
  BY <1>5, <1>6 DEF hb

LEMMA TimesFinite ==
  ASSUME ExecuterSound, NEW p
  PROVE  Cardinality({e \in central.seen : e[2] = p}) \in Nat
  BY FS_Subset, FS_CardinalityType DEF ExecuterSound

LEMMA VisitKeeps ==
  ASSUME IInv, NEW t \in IoThreads, VisitPlayers(t)
  PROVE  IInv'
<1> USE DEF IInv
<1> DEFINE Names == {"DoBuffToAllPlayers", "CheckBuffTimeout"}
           Times(p) == Cardinality({e \in central.seen : e[2] = p})
           tasks == central.tasks
           owner == IF Len(tasks) = 1 THEN Nobody ELSE t
           Visited(p) ==
             CASE Times(p) = 0                        -> mBuffList[p]
               [] Head(tasks) = "DoBuffToAllPlayers" -> AddBuff(p, mBuffList[p])
               [] OTHER -> Decayed(p, mBuffList[p], Times(p))
<1>1. /\ ~halted /\ central.owner = t
      /\ mBuffList' = [p \in Players |-> Visited(p)]
      /\ central' = [tasks |-> Tail(tasks), reading |-> FALSE, seen |-> {}, owner |-> owner]
      /\ UNCHANGED <<now, mTimerJobQueue, work, mLockStack, halted, connected, player,
                     mPlayerMap, mCurrentIssueId, restarted, rushed>>
  BY DEF VisitPlayers
<1>2. tasks \in Seq(Names) /\ tasks # <<>>
  BY <1>1, PlayersAssumption DEF PlayersAssumption, TypeOK, ExecuterSound
<1>3. Tail(tasks) \in Seq(Names) /\ (Tail(tasks) = <<>> <=> Len(tasks) = 1)
  <2> DEFINE rest == Tail(tasks)
  <2> HIDE DEF tasks, Names
  <2>1. rest \in Seq(Names) /\ Len(rest) = Len(tasks) - 1 /\ Len(tasks) \in Nat
    BY <1>2
  <2> HIDE DEF rest
  <2>2. rest = <<>> <=> Len(rest) = 0
    BY <2>1, EmptySeq
  <2>3. rest = <<>> <=> Len(tasks) = 1
    BY <2>1, <2>2
  <2> QED
    BY <2>1, <2>3 DEF rest
<1>4. ASSUME NEW p \in Players PROVE Visited(p) \in Nat
  <2>1. mBuffList[p] \in Nat /\ Duration \in Nat
    BY PlayersAssumption DEF PlayersAssumption, TypeOK
  <2>2. Times(p) \in Nat
    BY TimesFinite
  <2>3. Decayed(p, mBuffList[p], Times(p)) \in Nat
    BY <2>1, <2>2, DecayFacts
  <2>4. AddBuff(p, mBuffList[p]) \in Nat
    BY <2>1 DEF AddBuff
  <2> HIDE DEF Times, tasks
  <2> QED
    BY <2>1, <2>3, <2>4
<1> HIDE DEF Visited, tasks
<1>5. TypeOK'
  <2>1. {connected, restarted, rushed}' \subseteq SUBSET Players
    BY <1>1 DEF TypeOK
  <2>2. mBuffList' \in [Players -> Nat]
    BY <1>1, <1>4
  <2>3. central' \in [tasks : Seq(Names), owner : IoThreads \cup {Nobody},
                      seen : SUBSET (Nat \X Players), reading : BOOLEAN]
    BY <1>1, <1>3
  <2> QED
    BY <1>1, <2>1, <2>2, <2>3 DEF TypeOK
<1>6. ExecuterSound'
  <2>1. IsFiniteSet({})
    BY FS_EmptySet
  <2>2. owner = Nobody <=> Len(tasks) = 1
    BY PlayersAssumption DEF PlayersAssumption
  <2> QED
    BY <1>1, <1>3, <2>1, <2>2 DEF ExecuterSound
<1>7. AllPlaced'
  <2>1. ASSUME NEW u \in IoThreads PROVE Placed(u)'
    BY <1>1, PlacedKept DEF AllPlaced, Placed
  <2> QED
    BY <2>1 DEF AllPlaced
<1>8. Ticking' /\ OneLiveTick'
  BY <1>1, TicksKept DEF Starting
<1>9. Registered' /\ Alone' /\ Exclusive'
  BY <1>1, PlayersKept DEF Exclusive
<1> QED
  BY <1>1, <1>5, <1>6, <1>7, <1>8, <1>9

-----------------------------------------------------------------------------
LEMMA PlayersStep == IInv /\ [Next]_vars => IInv'
<1> SUFFICES ASSUME IInv, [Next]_vars PROVE IInv'
  OBVIOUS
<1>1. CASE Tick
  BY <1>1, TickKeeps
<1>2. ASSUME NEW t \in IoThreads, Proceed(t) PROVE IInv'
  BY <1>2, EnterDoSyncKeeps, PlayerResetKeeps, StartKeeps, OnTickKeeps, BuffKeeps,
     DecayKeeps, NextTickKeeps, PopKeeps, GetCurrentKeeps, VisitKeeps DEF Proceed
<1>3. ASSUME NEW t \in IoThreads, NEW p \in Players,
             AcceptCompletion(t, p) \/ ReturnClientSession(t, p)
      PROVE  IInv'
  BY <1>3, AcceptKeeps, ReturnKeeps
<1>4. CASE UNCHANGED vars
  BY <1>4 DEF vars, IInv, TypeOK, ExecuterSound, AllPlaced, Placed, Exclusive,
     Registered, Alone, Ticking, Live, OneLiveTick, TickJob, Starting
<1> QED
  BY <1>1, <1>2, <1>3, <1>4 DEF Next

(* The inductive invariant holds of every state of the program. *)
THEOREM PlayersInvariant == Spec => []IInv
  BY PlayersInit, PlayersStep, PTL DEF Spec

(* No assertion of LockOrderChecker fails: locks are taken in the order of *)
(* their classes and given back last first (LockOrderChecker.cpp).         *)
THEOREM LocksObeyTheirOrder == Spec => []LocksInOrder
<1>1. IInv => LocksInOrder
  BY DEF IInv, LocksInOrder
<1> QED
  BY <1>1, PlayersInvariant, PTL

(* DoTimerJob pops the job that it ran (Timer.cpp). *)
THEOREM TheJobThatRanIsPopped == Spec => []PopsWhatItRan
<1>1. ASSUME IInv PROVE PopsWhatItRan
  <2>1. ASSUME NEW t \in IoThreads, work[t].at \in Busy
        PROVE  Head(mTimerJobQueue[t]) = work[t].job
    <3>1. mTimerJobQueue[t] # <<>> /\ mTimerJobQueue[t][1] = work[t].job
      BY <1>1, <2>1 DEF IInv, AllPlaced, Placed
    <3>2. mTimerJobQueue[t] \in Seq(Job)
      BY <1>1 DEF IInv, TypeOK
    <3> QED
      BY <3>1, <3>2
  <2> QED
    BY <2>1 DEF PopsWhatItRan, Busy
<1> QED
  BY <1>1, PlayersInvariant, PTL

(* The player map is the set of the living players under their ids, but    *)
(* for a player that was started twice (Player.cpp, PlayerManager.cpp).    *)
THEOREM TheMapIsTheLiving == Spec => []MapHoldsTheLiving
<1>1. ASSUME IInv PROVE MapHoldsTheLiving
  <2>1. ASSUME NEW p \in Players \ restarted
        PROVE  {i \in DOMAIN mPlayerMap : mPlayerMap[i] = p}
                 = {i \in {player[p].mPlayerId} : player[p].mIsAlive}
    BY <1>1, <2>1 DEF IInv, Registered, Alone
  <2> QED
    BY <1>1, <2>1 DEF IInv, MapHoldsTheLiving
<1> QED
  BY <1>1, PlayersInvariant, PTL

LEMMA CountPair ==
  ASSUME NEW T, NEW a, NEW b, T \subseteq {a, b}
  PROVE  Cardinality(T) <= 2 /\ (a = b => Cardinality(T) <= 1)
<1>1. IsFiniteSet({a}) /\ Cardinality({a}) = 1
  BY FS_Singleton
<1>2. IsFiniteSet({a} \cup {b}) /\ Cardinality({a} \cup {b}) \in {1, 2}
  BY <1>1, FS_AddElement
<1>3. Cardinality(T) <= Cardinality({a} \cup {b}) /\ IsFiniteSet(T)
  <2>1. T \subseteq {a} \cup {b}
    OBVIOUS
  <2> QED
    BY <1>2, <2>1, FS_Subset
<1>4. a = b => Cardinality({a} \cup {b}) = 1
  <2>1. a = b => {a} \cup {b} = {a}
    OBVIOUS
  <2> QED
    BY <1>1, <2>1
<1>5. Cardinality(T) \in Nat
  BY <1>3, FS_CardinalityType
<1> QED
  BY <1>2, <1>3, <1>4, <1>5

(* A living player always has a job to come, and one tick, not two, but    *)
(* for a player that was started while a tick was pending (Player.cpp,     *)
(* Timer.cpp).                                                             *)
THEOREM OneTickADueTime == Spec => []OneTickPerHeartBeat
<1>1. ASSUME IInv PROVE AliveTicks
  <2>1. ASSUME NEW p \in Players, player[p].mIsAlive
        PROVE  \E t \in IoThreads : Jobs(t, p, "OnTick") \cup Jobs(t, p, "Start") # {}
    <3>1. PICK t \in IoThreads : \E i \in 1 .. Len(mTimerJobQueue[t]) :
            mTimerJobQueue[t][i].mOwner = p
      BY <1>1, <2>1 DEF IInv, Ticking
    <3>2. PICK i \in 1 .. Len(mTimerJobQueue[t]) : mTimerJobQueue[t][i].mOwner = p
      BY <3>1
    <3>3. i \in DOMAIN mTimerJobQueue[t] /\ mTimerJobQueue[t][i] \in Job
      BY <1>1, <3>2 DEF IInv, TypeOK
    <3>4. mTimerJobQueue[t][i].mTask \in {"Start", "OnTick"}
      BY <3>3 DEF Job, Tasks
    <3>5. i \in Jobs(t, p, "OnTick") \cup Jobs(t, p, "Start")
      BY <3>2, <3>3, <3>4 DEF Jobs
    <3> QED
      BY <3>5
  <2> QED
    BY <2>1 DEF AliveTicks
<1>2. ASSUME IInv, NEW p \in Players \ rushed
      PROVE  Cardinality(UNION {{<<t, i>> : i \in Jobs(t, p, "OnTick")} : t \in IoThreads})
               <= IF \E t \in IoThreads : work[t].at = "pop" /\ work[t].job.mOwner = p
                  THEN 2 ELSE 1
  <2> DEFINE Ticks == UNION {{<<t, i>> : i \in Jobs(t, p, "OnTick")} : t \in IoThreads}
             Popping(t) == work[t].at = "pop" /\ work[t].job.mOwner = p
  <2>1. ASSUME NEW s \in Ticks
        PROVE  \E t \in IoThreads, i \in Nat :
                 s = <<t, i>> /\ (TickJob(t, i, p) \/ (Popping(t) /\ i = 1))
    <3>1. PICK t \in IoThreads : \E i \in Jobs(t, p, "OnTick") : s = <<t, i>>
      BY <2>1
    <3>2. PICK i \in Jobs(t, p, "OnTick") : s = <<t, i>>
      BY <3>1
    <3>3. /\ i \in 1 .. Len(mTimerJobQueue[t]) /\ i \in Nat
          /\ mTimerJobQueue[t][i].mOwner = p /\ mTimerJobQueue[t][i].mTask = "OnTick"
      BY <1>2, <3>2 DEF Jobs, IInv, TypeOK
    <3>4. CASE Live(t, i)
      BY <3>2, <3>3, <3>4 DEF TickJob
    <3>5. CASE ~Live(t, i)
      <4>1. i = 1 /\ work[t].at = "pop"
        BY <3>5 DEF Live
      <4>2. mTimerJobQueue[t][1] = work[t].job
        BY <1>2, <4>1 DEF IInv, AllPlaced, Placed, Busy
      <4> QED
        BY <3>2, <3>3, <4>1, <4>2
    <3> QED
      BY <3>4, <3>5
  <2>2. ASSUME NEW t \in IoThreads, NEW u \in IoThreads, Popping(t), Popping(u)
        PROVE  t = u
    BY <1>2, <2>2, OneHolder DEF IInv, HoldsPlayer, Busy
  <2>3. ASSUME NEW t \in IoThreads, NEW u \in IoThreads, NEW i \in Nat, NEW j \in Nat,
               TickJob(t, i, p), TickJob(u, j, p)
        PROVE  t = u /\ i = j
    BY <1>2, <2>3 DEF IInv, OneLiveTick
  <2>4. \E a : \A t \in IoThreads, i \in Nat : TickJob(t, i, p) => <<t, i>> = a
    <3>1. CASE \E t \in IoThreads, i \in Nat : TickJob(t, i, p)
      <4>1. PICK t \in IoThreads, i \in Nat : TickJob(t, i, p)
        BY <3>1
      <4>2. \A u \in IoThreads, j \in Nat : TickJob(u, j, p) => <<u, j>> = <<t, i>>
        BY <4>1, <2>3
      <4> QED
        BY <4>2
    <3>2. CASE ~\E t \in IoThreads, i \in Nat : TickJob(t, i, p)
      BY <3>2
    <3> QED
      BY <3>1, <3>2
  <2>5. PICK a : \A t \in IoThreads, i \in Nat : TickJob(t, i, p) => <<t, i>> = a
    BY <2>4
  <2> HIDE DEF Ticks, Popping
  <2>6. CASE \E t \in IoThreads : Popping(t)
    <3>1. PICK t \in IoThreads : Popping(t)
      BY <2>6
    <3>2. Ticks \subseteq {a, <<t, 1>>}
      BY <2>1, <2>2, <2>5, <3>1
    <3>3. Cardinality(Ticks) <= 2
      BY <3>2, CountPair
    <3> QED
      BY <2>6, <3>3 DEF Ticks, Popping
  <2>7. CASE ~\E t \in IoThreads : Popping(t)
    <3>1. Ticks \subseteq {a, a}
      BY <2>1, <2>5, <2>7
    <3>2. Cardinality(Ticks) <= 1
      BY <3>1, CountPair
    <3> QED
      BY <2>7, <3>2 DEF Ticks, Popping
  <2> QED
    BY <2>6, <2>7
<1>3. IInv => OneTickPerHeartBeat
  BY <1>1, <1>2 DEF OneTickPerHeartBeat
<1> QED
  BY <1>3, PlayersInvariant, PTL

(* A buff gets longer only after its player was reset, and then the player *)
(* is not in the map any more (PlayerWideEvent.cpp, DecayTickBuff).        *)
THEOREM BuffsInTheMapRunOut == Spec => RegisteredBuffsRunOut
<1> DEFINE NoneGains ==
      \A p \in Players \ restarted :
        0 < mBuffList[p] /\ mBuffList[p] < mBuffList'[p]
          => \A i \in DOMAIN mPlayerMap : mPlayerMap[i] # p
<1>1. ASSUME IInv, [Next]_vars PROVE NoneGains
  <2>1. CASE UNCHANGED mBuffList
    <3>1. \A p \in Players : mBuffList[p] \in Nat
      BY <1>1 DEF IInv, TypeOK
    <3> QED
      BY <2>1, <3>1
  <2>2. ASSUME NEW t \in IoThreads, VisitPlayers(t), NEW p \in Players \ restarted,
               0 < mBuffList[p], mBuffList[p] < mBuffList'[p]
        PROVE  \A i \in DOMAIN mPlayerMap : mPlayerMap[i] # p
    <3> DEFINE times == Cardinality({e \in central.seen : e[2] = p})
    <3>1. times \in Nat /\ mBuffList[p] \in Nat
      BY <1>1, TimesFinite DEF IInv, TypeOK
    <3>2. mBuffList'[p] \in {mBuffList[p], AddBuff(p, mBuffList[p]),
                             Decayed(p, mBuffList[p], times)}
      BY <2>2 DEF VisitPlayers
    <3> HIDE DEF times
    <3>3. AddBuff(p, mBuffList[p]) = mBuffList[p]
      BY <2>2, <3>1 DEF AddBuff
    <3>4. mBuffList'[p] = Decayed(p, mBuffList[p], times)
      BY <2>2, <3>1, <3>2, <3>3
    <3>5. player[p].mHeartBeat = -1
      BY <1>1, <2>2, <3>1, <3>4, DecayFacts DEF IInv
    <3>6. ~player[p].mIsAlive
      BY <1>1, <3>5, PlayersAssumption DEF PlayersAssumption, IInv, Registered
    <3> QED
      BY <1>1, <3>6 DEF IInv, Alone
  <2>3. [Next]_vars => UNCHANGED mBuffList \/ \E t \in IoThreads : VisitPlayers(t)
    BY DEF Next, Proceed, vars, Tick, AcceptCompletion, ReturnClientSession, EnterDoSync,
       PlayerReset, Start, OnTick, Buff, Decay, NextTick, Pop, GetCurrentPlayers
  <2> QED
    BY <1>1, <2>1, <2>2, <2>3
<1>2. IInv /\ [Next]_vars => [NoneGains]_vars
  BY <1>1
<1> QED
  BY <1>2, PlayersInvariant, PTL DEF Spec, RegisteredBuffsRunOut
=============================================================================
