-------------------------- MODULE SessionPool_proofs --------------------------
(***************************************************************************)
(* Proofs about SessionPool, for every pool, every finite set of I/O       *)
(* threads and every set of calls that may fail.                           *)
(***************************************************************************)
EXTENDS SessionPool, FiniteSetTheorems, TLAPS

StepSet == [do : Steps, s : Sessions]

(* The steps of given kinds on a session, for any assignment of stacks. *)
StepsIn(w, s, dos) ==
  UNION {{<<t, i>> : i \in {j \in DOMAIN w[t] : w[t][j].s = s /\ w[t][j].do \in dos}} :
         t \in IoThreads}

Tally(w, s, dos) == Cardinality(StepsIn(w, s, dos))

Stacks == [IoThreads -> Seq(StepSet)]

Hit(e, s, dos) == IF e.s = s /\ e.do \in dos THEN 1 ELSE 0

-----------------------------------------------------------------------------
(* Counting the steps on a session. *)
LEMMA StepsInElement ==
  ASSUME NEW w, NEW s, NEW dos, NEW p
  PROVE  p \in StepsIn(w, s, dos) <=>
           \E t \in IoThreads : \E i \in DOMAIN w[t] :
             p = <<t, i>> /\ w[t][i].s = s /\ w[t][i].do \in dos
  BY DEF StepsIn

LEMMA StepsInFinite ==
  ASSUME NEW w \in Stacks, NEW s, NEW dos
  PROVE  IsFiniteSet(StepsIn(w, s, dos)) /\ Tally(w, s, dos) \in Nat
  <1> DEFINE On(t) == {<<t, i>> : i \in {j \in DOMAIN w[t] : w[t][j].s = s
        /\ w[t][j].do \in dos}}
             f == [t \in IoThreads |-> On(t)]
             All == {On(t) : t \in IoThreads}
  <1>1. \A t \in IoThreads : IsFiniteSet(On(t))
    <2> TAKE t \in IoThreads
    <2>1. Len(w[t]) \in Nat /\ DOMAIN w[t] = 1 .. Len(w[t])
      BY DEF Stacks
    <2>2. IsFiniteSet(1 .. Len(w[t]))
      BY <2>1, FS_Interval
    <2>6. IsFiniteSet({t})
      BY FS_Singleton
    <2>3. IsFiniteSet({t} \X (1 .. Len(w[t])))
      BY <2>2, <2>6, FS_Product
    <2>4. On(t) \in SUBSET ({t} \X (1 .. Len(w[t])))
      BY <2>1
    <2>5. QED
      BY <2>3, <2>4, FS_Subset
  <1>2. f \in Surjection(IoThreads, All)
    BY DEF Surjection
  <1>3. IsFiniteSet(All)
    BY <1>2, FS_Surjection, SessionPoolAssumption DEF SessionPoolAssumption
  <1>4. \A T \in All : IsFiniteSet(T)
    BY <1>1
  <1>5. IsFiniteSet(UNION All)
    BY <1>3, <1>4, FS_UNION
  <1>6. QED
    BY <1>5, FS_CardinalityType DEF StepsIn, Tally

(* A step that is there counts. *)
LEMMA TallyPositive ==
  ASSUME NEW w \in Stacks, NEW dos, NEW t \in IoThreads, NEW i \in DOMAIN w[t],
         w[t][i].do \in dos
  PROVE  Tally(w, w[t][i].s, dos) >= 1
  <1>1. StepsIn(w, w[t][i].s, dos) # {}
    BY StepsInElement
  <1>2. QED
    BY <1>1, StepsInFinite, FS_EmptySet DEF Tally

LEMMA TallyZero ==
  ASSUME NEW w \in Stacks, NEW s, NEW dos
  PROVE  Tally(w, s, dos) = 0 <=> StepsIn(w, s, dos) = {}
  BY StepsInFinite, FS_EmptySet DEF Tally

(* One more step on the stack of one thread. *)
LEMMA TallyAppend ==
  ASSUME NEW w \in Stacks, NEW t \in IoThreads, NEW e \in StepSet,
         NEW s, NEW dos
  PROVE  LET v == [w EXCEPT ![t] = Append(@, e)]
         IN  v \in Stacks /\ Tally(v, s, dos) = Tally(w, s, dos) + Hit(e, s, dos)
  <1> DEFINE v == [w EXCEPT ![t] = Append(@, e)]
             n == Len(w[t]) + 1
  <1>1. w[t] \in Seq(StepSet)
    BY DEF Stacks
  <1>2. v \in Stacks /\ v[t] = Append(w[t], e) /\ \A u \in IoThreads \ {t} : v[u] = w[u]
    BY <1>1 DEF Stacks
  <1>3. /\ DOMAIN v[t] = DOMAIN w[t] \cup {n} /\ n \notin DOMAIN w[t]
        /\ v[t][n] = e /\ \A i \in DOMAIN w[t] : v[t][i] = w[t][i]
    BY <1>1, <1>2
  <1> HIDE DEF v, n
  <1>4. <<t, n>> \notin StepsIn(w, s, dos)
    BY <1>3, StepsInElement
  <1>5. StepsIn(v, s, dos) =
          IF e.s = s /\ e.do \in dos THEN StepsIn(w, s, dos) \cup {<<t, n>>}
                                     ELSE StepsIn(w, s, dos)
    <2>1. ASSUME NEW p
          PROVE  p \in StepsIn(v, s, dos) <=>
                   p \in StepsIn(w, s, dos) \/ (p = <<t, n>> /\ e.s = s /\ e.do \in dos)
      <3>1. p \in StepsIn(v, s, dos) <=>
              \/ \E u \in IoThreads \ {t} : \E i \in DOMAIN w[u] :
                   p = <<u, i>> /\ w[u][i].s = s /\ w[u][i].do \in dos
              \/ \E i \in DOMAIN v[t] : p = <<t, i>> /\ v[t][i].s = s /\ v[t][i].do \in dos
        <4>1. p \in StepsIn(v, s, dos) <=>
                \E u \in IoThreads : \E i \in DOMAIN v[u] :
                  p = <<u, i>> /\ v[u][i].s = s /\ v[u][i].do \in dos
          BY StepsInElement
        <4>2. \A u \in IoThreads \ {t} :
                (\E i \in DOMAIN v[u] : p = <<u, i>> /\ v[u][i].s = s /\ v[u][i].do \in dos)
                <=> (\E i \in DOMAIN w[u] : p = <<u, i>> /\ w[u][i].s = s /\ w[u][i].do \in dos)
          BY <1>2
        <4>3. QED
          BY <4>1, <4>2
      <3>2. (\E i \in DOMAIN v[t] : p = <<t, i>> /\ v[t][i].s = s /\ v[t][i].do \in dos) <=>
              \/ \E i \in DOMAIN w[t] : p = <<t, i>> /\ w[t][i].s = s /\ w[t][i].do \in dos
              \/ p = <<t, n>> /\ e.s = s /\ e.do \in dos
        BY <1>3
      <3>3. p \in StepsIn(w, s, dos) <=>
              \/ \E u \in IoThreads \ {t} : \E i \in DOMAIN w[u] :
                   p = <<u, i>> /\ w[u][i].s = s /\ w[u][i].do \in dos
              \/ \E i \in DOMAIN w[t] : p = <<t, i>> /\ w[t][i].s = s /\ w[t][i].do \in dos
        BY StepsInElement
      <3>4. QED
        BY <3>1, <3>2, <3>3
    <2>2. QED
      BY <2>1
  <1>6. IsFiniteSet(StepsIn(w, s, dos)) /\ Tally(w, s, dos) \in Nat
    BY StepsInFinite
  <1>7. Cardinality(StepsIn(v, s, dos)) = Cardinality(StepsIn(w, s, dos)) + Hit(e, s, dos)
    <2>1. CASE e.s = s /\ e.do \in dos
      BY <2>1, <1>4, <1>5, <1>6, FS_AddElement, ZenonT(60) DEF Hit, Tally
    <2>2. CASE ~(e.s = s /\ e.do \in dos)
      BY <2>2, <1>5, <1>6 DEF Hit, Tally
    <2>3. QED
      BY <2>1, <2>2
  <1>8. QED
    BY <1>2, <1>7 DEF Tally, v

-----------------------------------------------------------------------------
(***************************************************************************)
(* The inductive invariant.  StackOK says what a handler's stack looks     *)
(* like, whatever happened; SessionGood is what holds of a session as long *)
(* as no FlushSend has revived one.                                        *)
(***************************************************************************)
(* Steps only a completion handler has: its context is deleted last. *)
Handling ==
  ReceiveSteps \cup {"accept", "load", "move", "postReply", "sendDone", "sendShort",
                     "releaseIssue"}

StackShape(u, list) ==
  \A i \in DOMAIN u :
    /\ u[i].do \in Handling => u[1] = Step("deleteContext", u[i].s)
    /\ u[i].do = "reset" => i > 1 /\ u[i - 1] = Step("resetSend", u[i].s)
    /\ u[i].do \in {"flush", "pop"} => i = 1 /\ list # <<>>

StackOK(t) == StackShape(work[t], LSendRequestSessionList[t])

Deletions == {"deleteContext", "releaseNew"}
Claiming  == {"accept", "releaseIssue"}
Returning == {"return", "resetSend"}
Sending   == {"sendDone", "sendShort"}

(* How often the pool, in this order, has session s. *)
Places(f, s) == {i \in DOMAIN f : f[i] = s}
Pooled(f, s) == Cardinality(Places(f, s))

PendingSum(p) ==
  p["ACCEPT"] + p["RECV_ZERO"] + p["RECV"] + p["SEND"] + p["DISCONNECT"] + p["DB"]

Issue(x) == IF x.issued THEN 1 ELSE 0
Open(x)  == IF x.socket = "open" THEN 1 ELSE 0

(* What an environment that spares these calls never does. *)
ClaimsKept == Fails \cap {"DisconnectEx", "acceptCompletion"} = {}
AcceptSucceeds == "acceptCompletion" \notin Fails
FirstReceiveSucceeds == "firstWSARecv" \notin Fails

(* A session with the numbers below.  "home" counts the places in the pool *)
(* it has, or is on its way to.                                            *)
Fit(iss, ref, pend, del, con, opn, pa, pd, pz, pr, clm, acc, rcv, pre, dis, home) ==
  /\ ref = iss + pend + del
  /\ con + pa + pd + clm <= iss
  /\ ClaimsKept => con + pa + pd + clm = iss
  /\ AcceptSucceeds /\ con + acc > 0 => opn = 1
  /\ pz + pr + rcv <= 1
  /\ pa + acc > 0 => pz + pr + rcv = 0
  /\ pre > 0 /\ con = 1 => opn = 1
  /\ con = 1 /\ FirstReceiveSucceeds => pz + pr + rcv = 1 \/ dis > 0
  /\ home <= 1
  /\ home = 1 => ref = 0

(* The numbers of session s: x is its state, w the stacks, f the pool. *)
GoodIn(x, w, f, s) ==
  Fit(Issue(x), x.mRefCount, PendingSum(x.pending), Tally(w, s, Deletions),
      x.mConnected, Open(x), x.pending["ACCEPT"], x.pending["DISCONNECT"],
      x.pending["RECV_ZERO"], x.pending["RECV"],
      Tally(w, s, Claiming), Tally(w, s, {"accept"}), Tally(w, s, ReceiveSteps),
      Tally(w, s, {"preRecv"}), Tally(w, s, {"disconnect"}),
      Pooled(f, s) + Tally(w, s, Returning))

SessionGood(s) == GoodIn(session[s], work, mFreeSessionList, s)

(* One send at a time, of a session x with snd completions in hand. *)
OneSend(x, snd) ==
  x.mSendPendingCount \in {0, 1} /\ x.pending["SEND"] + snd <= x.mSendPendingCount

OneSendIn(x, w, s) == OneSend(x, Tally(w, s, Sending))

(* Only a FlushSend that failed keeps mSendBufferLock beyond one step. *)
LockKeptByFailure ==
  flushFault = "none" => \A s \in Sessions : session[s].mSendBufferLock = Nobody

SessionsInv ==
  /\ Running => \A s \in Sessions : OneSendIn(session[s], work, s)
  /\ Sound => \A s \in Sessions : SessionGood(s)

IInv ==
  /\ PoolConserved
  /\ \A t \in IoThreads : StackOK(t)
  /\ LockKeptByFailure
  /\ SessionsInv
  /\ AssertsHold

-----------------------------------------------------------------------------
(* What replacing the end of a stack does to the counts. *)
Put(w, t, u) == [w EXCEPT ![t] = u]

LEMMA TallyPut ==
  ASSUME NEW w \in Stacks, NEW t \in IoThreads, NEW u \in Seq(StepSet), NEW e \in StepSet
  PROVE  /\ Put(w, t, u) \in Stacks /\ Put(w, t, Append(u, e)) \in Stacks
         /\ \A s, dos : Tally(Put(w, t, Append(u, e)), s, dos)
                          = Tally(Put(w, t, u), s, dos) + Hit(e, s, dos)
  <1>1. Put(w, t, u) \in Stacks /\ Put(w, t, u)[t] = u
    BY DEF Put, Stacks
  <1>2. [Put(w, t, u) EXCEPT ![t] = Append(@, e)] = Put(w, t, Append(u, e))
    BY DEF Put, Stacks
  <1>3. QED
    BY <1>1, <1>2, TallyAppend, SMTT(60)

(* The stack u of thread t grows by one, two, three or four steps. *)
LEMMA TallyPut1 ==
  ASSUME NEW w \in Stacks, NEW t \in IoThreads, NEW u \in Seq(StepSet),
         NEW a \in StepSet
  PROVE  /\ Put(w, t, u \o <<a>>) \in Stacks
         /\ \A s, dos : Tally(Put(w, t, u \o <<a>>), s, dos)
                          = Tally(Put(w, t, u), s, dos) + Hit(a, s, dos)
  <1> DEFINE v == u \o <<a>>
  <1>1. v = Append(u, a)
    OBVIOUS
  <1> HIDE DEF v
  <1>2. /\ Put(w, t, v) \in Stacks
        /\ \A s, dos : Tally(Put(w, t, v), s, dos) = Tally(Put(w, t, u), s, dos)
             + Hit(a, s, dos)
    BY <1>1, TallyPut
  <1>3. QED
    BY <1>2 DEF v

LEMMA TallyPut2 ==
  ASSUME NEW w \in Stacks, NEW t \in IoThreads, NEW u \in Seq(StepSet),
         NEW a \in StepSet, NEW b \in StepSet
  PROVE  /\ Put(w, t, u \o <<a, b>>) \in Stacks
         /\ \A s, dos : Tally(Put(w, t, u \o <<a, b>>), s, dos)
                          = Tally(Put(w, t, u), s, dos) + Hit(a, s, dos) + Hit(b, s, dos)
  <1> DEFINE r == u \o <<a>>
             v == u \o <<a, b>>
  <1>1. v = Append(r, b) /\ r \in Seq(StepSet)
    OBVIOUS
  <1>2. \A s, dos : Tally(Put(w, t, r), s, dos)
                      = Tally(Put(w, t, u), s, dos) + Hit(a, s, dos)
    BY TallyPut1
  <1> HIDE DEF r, v
  <1>3. /\ Put(w, t, v) \in Stacks
        /\ \A s, dos : Tally(Put(w, t, v), s, dos) = Tally(Put(w, t, r), s, dos)
             + Hit(b, s, dos)
    BY <1>1, TallyPut
  <1>4. \A s, dos : Tally(Put(w, t, v), s, dos)
                      = Tally(Put(w, t, u), s, dos) + Hit(a, s, dos) + Hit(b, s, dos)
    BY <1>2, <1>3
  <1>5. QED
    BY <1>3, <1>4 DEF v

LEMMA TallyPut3 ==
  ASSUME NEW w \in Stacks, NEW t \in IoThreads, NEW u \in Seq(StepSet),
         NEW a \in StepSet, NEW b \in StepSet, NEW c \in StepSet
  PROVE  /\ Put(w, t, u \o <<a, b, c>>) \in Stacks
         /\ \A s, dos : Tally(Put(w, t, u \o <<a, b, c>>), s, dos)
                          = Tally(Put(w, t, u), s, dos) + Hit(a, s, dos) + Hit(b, s, dos)
                            + Hit(c, s, dos)
  <1> DEFINE r == u \o <<a, b>>
             v == u \o <<a, b, c>>
  <1>1. v = Append(r, c) /\ r \in Seq(StepSet)
    OBVIOUS
  <1>2. \A s, dos : Tally(Put(w, t, r), s, dos)
                      = Tally(Put(w, t, u), s, dos) + Hit(a, s, dos) + Hit(b, s, dos)
    BY TallyPut2
  <1> HIDE DEF r, v
  <1>3. /\ Put(w, t, v) \in Stacks
        /\ \A s, dos : Tally(Put(w, t, v), s, dos) = Tally(Put(w, t, r), s, dos)
             + Hit(c, s, dos)
    BY <1>1, TallyPut
  <1>4. \A s, dos : Tally(Put(w, t, v), s, dos)
                      = Tally(Put(w, t, u), s, dos) + Hit(a, s, dos) + Hit(b, s, dos)
                        + Hit(c, s, dos)
    BY <1>2, <1>3
  <1>5. QED
    BY <1>3, <1>4 DEF v

LEMMA TallyPut4 ==
  ASSUME NEW w \in Stacks, NEW t \in IoThreads, NEW u \in Seq(StepSet),
         NEW a \in StepSet, NEW b \in StepSet, NEW c \in StepSet, NEW d \in StepSet
  PROVE  /\ Put(w, t, u \o <<a, b, c, d>>) \in Stacks
         /\ \A s, dos : Tally(Put(w, t, u \o <<a, b, c, d>>), s, dos)
                          = Tally(Put(w, t, u), s, dos) + Hit(a, s, dos) + Hit(b, s, dos)
                            + Hit(c, s, dos) + Hit(d, s, dos)
  <1> DEFINE r == u \o <<a, b, c>>
             v == u \o <<a, b, c, d>>
  <1>1. v = Append(r, d) /\ r \in Seq(StepSet)
    OBVIOUS
  <1>2. \A s, dos : Tally(Put(w, t, r), s, dos)
                      = Tally(Put(w, t, u), s, dos) + Hit(a, s, dos) + Hit(b, s, dos)
                        + Hit(c, s, dos)
    BY TallyPut3
  <1> HIDE DEF r, v
  <1>3. /\ Put(w, t, v) \in Stacks
        /\ \A s, dos : Tally(Put(w, t, v), s, dos) = Tally(Put(w, t, r), s, dos)
             + Hit(d, s, dos)
    BY <1>1, TallyPut
  <1>4. \A s, dos : Tally(Put(w, t, v), s, dos)
                      = Tally(Put(w, t, u), s, dos) + Hit(a, s, dos) + Hit(b, s, dos)
                        + Hit(c, s, dos) + Hit(d, s, dos)
    BY <1>2, <1>3
  <1>5. QED
    BY <1>3, <1>4 DEF v

(* What a step of a handler does to the counts: its own step is gone, and  *)
(* the steps it leaves are there.                                          *)
Without(u) == SubSeq(u, 1, Len(u) - 1)

(* A stack is what is below its last step, and that step. *)
LEMMA StackSplits ==
  ASSUME NEW S, NEW u \in Seq(S), u # <<>>
  PROVE  /\ Without(u) \in Seq(S) /\ Len(Without(u)) = Len(u) - 1
         /\ u = Append(Without(u), u[Len(u)]) /\ u[Len(u)] \in S
         /\ \A i \in DOMAIN Without(u) : Without(u)[i] = u[i]
  <1>1. /\ Without(u) \in Seq(S) /\ Len(Without(u)) = Len(u) - 1 /\ u[Len(u)] \in S
        /\ \A i \in DOMAIN Without(u) : Without(u)[i] = u[i]
    <2>1. Len(u) \in Nat \ {0} /\ DOMAIN u = 1 .. Len(u)
      OBVIOUS
    <2>2. \A i \in 1 .. Len(u) : u[i] \in S
      OBVIOUS
    <2>3. Without(u) = [i \in 1 .. Len(u) - 1 |-> u[i]]
      BY <2>1 DEF Without
    <2>4. Without(u) \in Seq(S)
      BY <2>1, <2>2, <2>3
    <2>5. Len(Without(u)) = Len(u) - 1
      BY <2>1, <2>3
    <2>6. QED
      BY <2>1, <2>2, <2>3, <2>4, <2>5
  <1>2. u = Append(Without(u), u[Len(u)])
    BY <1>1
  <1>3. QED
    BY <1>1, <1>2

(* Done replaces the last step of a stack. *)
LEMMA DoneBase ==
  ASSUME work \in Stacks, NEW t \in IoThreads, NEW do, NEW s0, Ready(t, do, s0)
  PROVE  /\ Without(work[t]) \in Seq(StepSet) /\ Put(work, t, Without(work[t])) \in Stacks
         /\ \A s, dos : Tally(Put(work, t, Without(work[t])), s, dos)
                          = Tally(work, s, dos) - Hit(Step(do, s0), s, dos)
  <1> DEFINE u == Without(work[t])
             n(s, dos) == Tally(Put(work, t, u), s, dos)
             top == Step(do, s0)
  <1>1. /\ work[t] \in Seq(StepSet) /\ work[t] # <<>> /\ work[t][Len(work[t])] = top
    BY DEF Stacks, Ready
  <1>2. u \in Seq(StepSet) /\ work[t] = Append(u, top) /\ top \in StepSet
    BY <1>1, StackSplits
  <1>3. work = Put(work, t, Append(u, top))
    BY <1>2 DEF Put, Stacks
  <1> HIDE DEF u, top
  <1>4. \A s, dos : Tally(work, s, dos) = n(s, dos) + Hit(top, s, dos)
    BY <1>2, <1>3, TallyPut
  <1>5. Put(work, t, u) \in Stacks
    BY <1>2, TallyPut
  <1>6. \A s, dos : n(s, dos) \in Nat /\ Hit(top, s, dos) \in Nat
    BY <1>5, StepsInFinite DEF Hit
  <1>7. \A s, dos : n(s, dos) = Tally(work, s, dos) - Hit(top, s, dos)
    <2> HIDE DEF n
    <2>1. QED
      BY <1>4, <1>6
  <1>8. QED
    BY <1>2, <1>5, <1>7 DEF u, top

-----------------------------------------------------------------------------
(* Why one session is enough to look at. *)
(* The two stacks tell the same of every session but s0. *)
SameBut(w, v, s0) ==
  \A s \in Sessions \ {s0} : \A dos : Tally(v, s, dos) = Tally(w, s, dos)

(* The steps of a handler on s leave the counts of the others alone. *)
LEMMA OnlyOneSession ==
  ASSUME SessionsInv, Running, Sound' => Sound, NEW s0 \in Sessions,
         \A s \in Sessions \ {s0} : session'[s] = session[s],
         \A s \in Sessions \ {s0} : Pooled(mFreeSessionList', s) = Pooled(mFreeSessionList, s),
         SameBut(work, work', s0),
         Running' => OneSendIn(session'[s0], work', s0),
         Sound' => GoodIn(session'[s0], work', mFreeSessionList', s0)
  PROVE  SessionsInv'
  <1>1. ASSUME NEW s \in Sessions \ {s0}
        PROVE  OneSendIn(session'[s], work', s) = OneSendIn(session[s], work, s)
    BY <1>1 DEF OneSendIn, SameBut
  <1>2. ASSUME NEW s \in Sessions \ {s0}
        PROVE  GoodIn(session'[s], work', mFreeSessionList', s)
                 = GoodIn(session[s], work, mFreeSessionList, s)
    BY <1>2 DEF GoodIn, SameBut
  <1>3. Running' => \A s \in Sessions : OneSendIn(session'[s], work', s)
    BY <1>1 DEF SessionsInv
  <1>4. Sound' => \A s \in Sessions : GoodIn(session'[s], work', mFreeSessionList', s)
    BY <1>2 DEF SessionsInv, SessionGood
  <1>5. QED
    BY <1>3, <1>4 DEF SessionsInv, SessionGood

-----------------------------------------------------------------------------
LEMMA TypeStacks == TypeOK => work \in Stacks
  BY DEF TypeOK, Stacks, StepSet

SessionRec ==
  [mConnected : {0, 1}, mRefCount : Int, mSendPendingCount : Int,
   mSendBufferLock : IoThreads \cup {Nobody}, stored : Nat, sendLen : Nat,
   socket : {"new", "open", "closing"}, pending : [IoTypes -> Nat],
   issued : BOOLEAN]

(* The counts are natural numbers, and what counts for less counts less. *)
LEMMA Tallies ==
  ASSUME NEW w \in Stacks, NEW f \in Seq(Sessions), NEW s
  PROVE  /\ \A dos : Tally(w, s, dos) \in Nat
         /\ Tally(w, s, {"accept"}) <= Tally(w, s, Claiming)
         /\ Tally(w, s, {"preRecv"}) <= Tally(w, s, ReceiveSteps)
         /\ Pooled(f, s) \in Nat
  <1>1. \A dos : Tally(w, s, dos) \in Nat
    BY StepsInFinite
  <1>2. ASSUME NEW P, NEW Q, P \subseteq Q
        PROVE  Tally(w, s, P) <= Tally(w, s, Q)
    <2>1. StepsIn(w, s, P) \in SUBSET StepsIn(w, s, Q)
      BY <1>2, StepsInElement
    <2>2. QED
      BY <2>1, StepsInFinite, FS_Subset DEF Tally
  <1>3. {"accept"} \subseteq Claiming /\ {"preRecv"} \subseteq ReceiveSteps
    BY DEF Claiming, ReceiveSteps
  <1>4. Pooled(f, s) \in Nat
    <2>1. Places(f, s) \in SUBSET (1 .. Len(f)) /\ Len(f) \in Nat
      BY DEF Places
    <2>2. IsFiniteSet(1 .. Len(f))
      BY <2>1, FS_Interval
    <2>3. QED
      BY <2>1, <2>2, FS_Subset, FS_CardinalityType DEF Pooled
  <1>5. QED
    BY <1>1, <1>2, <1>3, <1>4

(* Whose step it is decides whose counts change. *)
One(do, dos) == IF do \in dos THEN 1 ELSE 0

(* What one step adds to the count of a kind of steps. *)
LEMMA HitIsOne ==
  ASSUME NEW do, NEW s, NEW dos
  PROVE  Hit(Step(do, s), s, dos) = One(do, dos) /\ One(do, dos) \in {0, 1}
  BY DEF Hit, Step, One

LEMMA HitsNoOther ==
  ASSUME NEW do, NEW s, NEW r, r # s, NEW dos
  PROVE  Hit(Step(do, s), r, dos) = 0
  BY DEF Hit, Step

(* Done(t, more) for the stacks the handlers leave: nothing, one step, two, four. *)
LEMMA DoneNone ==
  ASSUME work \in Stacks, NEW t \in IoThreads, NEW s \in Sessions, NEW do, Ready(t, do, s),
         Done(t, <<>>)
  PROVE  /\ work' \in Stacks /\ SameBut(work, work', s)
         /\ \A dos : Tally(work', s, dos)
                        = Tally(work, s, dos) - One(do, dos)
  <1> DEFINE u == Without(work[t])
             E == Step(do, s)
  <1>2. \A dos : /\ Hit(E, s, dos) = One(do, dos)
    BY HitIsOne
  <1>3. \A r \in Sessions \ {s} : \A dos :
          /\ Hit(E, r, dos) = 0
    BY HitsNoOther
  <1>4. \A r, dos : Tally(work, r, dos) \in Nat
    BY StepsInFinite
  <1>5. /\ u \in Seq(StepSet) /\ Put(work, t, u) \in Stacks
        /\ \A r, dos : Tally(Put(work, t, u), r, dos) = Tally(work, r, dos) - Hit(E, r, dos)
    BY DoneBase
  <1>6. work' = Put(work, t, u)
    BY <1>5 DEF Done, Put, Without
  <1> HIDE DEF u, E
  <1>7. work' \in Stacks /\
          \A r, dos : Tally(work', r, dos)
                        = Tally(work, r, dos) - Hit(E, r, dos)
    BY <1>5, <1>6
  <1>8. SameBut(work, work', s)
    BY <1>3, <1>4, <1>7 DEF SameBut
  <1>9. QED
    BY <1>2, <1>7, <1>8

LEMMA DoneOne ==
  ASSUME work \in Stacks, NEW t \in IoThreads, NEW s \in Sessions, NEW do, Ready(t, do, s),
         NEW a \in Steps, Done(t, <<Step(a, s)>>)
  PROVE  /\ work' \in Stacks /\ SameBut(work, work', s)
         /\ \A dos : Tally(work', s, dos)
                        = Tally(work, s, dos) - One(do, dos) + One(a, dos)
  <1> DEFINE u == Without(work[t])
             E == Step(do, s)
             A == Step(a, s)
  <1>1. A \in StepSet
    BY DEF Step, StepSet
  <1>2. \A dos : /\ Hit(E, s, dos) = One(do, dos) /\ Hit(A, s, dos) = One(a, dos)
    BY HitIsOne
  <1>3. \A r \in Sessions \ {s} : \A dos :
          /\ Hit(E, r, dos) = 0 /\ Hit(A, r, dos) = 0
    BY HitsNoOther
  <1>4. \A r, dos : Tally(work, r, dos) \in Nat
    BY StepsInFinite
  <1>5. /\ u \in Seq(StepSet) /\ Put(work, t, u) \in Stacks
        /\ \A r, dos : Tally(Put(work, t, u), r, dos) = Tally(work, r, dos) - Hit(E, r, dos)
    BY DoneBase
  <1>6. work' = Put(work, t, u \o <<A>>)
    BY DEF Done, Put, Without
  <1> HIDE DEF u, E, A
  <1>7. work' \in Stacks /\
          \A r, dos : Tally(work', r, dos)
                        = Tally(work, r, dos) - Hit(E, r, dos) + Hit(A, r, dos)
    <2>1. work' \in Stacks /\
            \A r, dos : Tally(work', r, dos)
                          = Tally(Put(work, t, u), r, dos) + Hit(A, r, dos)
      BY <1>1, <1>5, <1>6, TallyPut1
    <2>2. QED
      BY <2>1, <1>5
  <1>8. SameBut(work, work', s)
    BY <1>3, <1>4, <1>7 DEF SameBut
  <1>9. QED
    BY <1>2, <1>7, <1>8

LEMMA DoneTwo ==
  ASSUME work \in Stacks, NEW t \in IoThreads, NEW s \in Sessions, NEW do, Ready(t, do, s),
         NEW a \in Steps, NEW b \in Steps, Done(t, <<Step(a, s), Step(b, s)>>)
  PROVE  /\ work' \in Stacks /\ SameBut(work, work', s)
         /\ \A dos : Tally(work', s, dos)
                        = Tally(work, s, dos) - One(do, dos) + One(a, dos) + One(b, dos)
  <1> DEFINE u == Without(work[t])
             E == Step(do, s)
             A == Step(a, s)
             B == Step(b, s)
  <1>1. A \in StepSet /\ B \in StepSet
    BY DEF Step, StepSet
  <1>2. \A dos : /\ Hit(E, s, dos) = One(do, dos) /\ Hit(A, s, dos) = One(a, dos)
                 /\ Hit(B, s, dos) = One(b, dos)
    BY HitIsOne
  <1>3. \A r \in Sessions \ {s} : \A dos :
          /\ Hit(E, r, dos) = 0 /\ Hit(A, r, dos) = 0
          /\ Hit(B, r, dos) = 0
    BY HitsNoOther
  <1>4. \A r, dos : Tally(work, r, dos) \in Nat
    BY StepsInFinite
  <1>5. /\ u \in Seq(StepSet) /\ Put(work, t, u) \in Stacks
        /\ \A r, dos : Tally(Put(work, t, u), r, dos) = Tally(work, r, dos) - Hit(E, r, dos)
    BY DoneBase
  <1>6. work' = Put(work, t, u \o <<A, B>>)
    BY DEF Done, Put, Without
  <1> HIDE DEF u, E, A, B
  <1>7. work' \in Stacks /\
          \A r, dos : Tally(work', r, dos)
                        = Tally(work, r, dos) - Hit(E, r, dos) + Hit(A, r, dos) + Hit(B, r, dos)
    <2>1. work' \in Stacks /\
            \A r, dos : Tally(work', r, dos)
                          = Tally(Put(work, t, u), r, dos) + Hit(A, r, dos) + Hit(B, r, dos)
      BY <1>1, <1>5, <1>6, TallyPut2
    <2>2. QED
      BY <2>1, <1>5
  <1>8. SameBut(work, work', s)
    BY <1>3, <1>4, <1>7 DEF SameBut
  <1>9. QED
    BY <1>2, <1>7, <1>8

LEMMA DoneFour ==
  ASSUME work \in Stacks, NEW t \in IoThreads, NEW s \in Sessions, NEW do, Ready(t, do, s),
         NEW a \in Steps, NEW b \in Steps, NEW c \in Steps, NEW d \in Steps,
         Done(t, <<Step(a, s), Step(b, s), Step(c, s), Step(d, s)>>)
  PROVE  /\ work' \in Stacks /\ SameBut(work, work', s)
         /\ \A dos : Tally(work', s, dos)
                        = Tally(work, s, dos) - One(do, dos) + One(a, dos) + One(b, dos)
                          + One(c, dos) + One(d, dos)
  <1> DEFINE u == Without(work[t])
             E == Step(do, s)
             A == Step(a, s)
             B == Step(b, s)
             C == Step(c, s)
             D == Step(d, s)
  <1>1. A \in StepSet /\ B \in StepSet /\ C \in StepSet /\ D \in StepSet
    BY DEF Step, StepSet
  <1>2. \A dos : /\ Hit(E, s, dos) = One(do, dos) /\ Hit(A, s, dos) = One(a, dos)
                 /\ Hit(B, s, dos) = One(b, dos) /\ Hit(C, s, dos) = One(c, dos)
                 /\ Hit(D, s, dos) = One(d, dos)
    BY HitIsOne
  <1>3. \A r \in Sessions \ {s} : \A dos :
          /\ Hit(E, r, dos) = 0 /\ Hit(A, r, dos) = 0
          /\ Hit(B, r, dos) = 0 /\ Hit(C, r, dos) = 0
          /\ Hit(D, r, dos) = 0
    BY HitsNoOther
  <1>4. \A r, dos : Tally(work, r, dos) \in Nat
    BY StepsInFinite
  <1>5. /\ u \in Seq(StepSet) /\ Put(work, t, u) \in Stacks
        /\ \A r, dos : Tally(Put(work, t, u), r, dos) = Tally(work, r, dos) - Hit(E, r, dos)
    BY DoneBase
  <1>6. work' = Put(work, t, u \o <<A, B, C, D>>)
    BY DEF Done, Put, Without
  <1> HIDE DEF u, E, A, B, C, D
  <1>7. work' \in Stacks /\
          \A r, dos : Tally(work', r, dos)
                        = Tally(work, r, dos) - Hit(E, r, dos) + Hit(A, r, dos)
                          + Hit(B, r, dos) + Hit(C, r, dos) + Hit(D, r, dos)
    <2>1. work' \in Stacks /\
            \A r, dos : Tally(work', r, dos)
                          = Tally(Put(work, t, u), r, dos) + Hit(A, r, dos) + Hit(B, r, dos)
                            + Hit(C, r, dos) + Hit(D, r, dos)
      BY <1>1, <1>5, <1>6, TallyPut4
    <2>2. QED
      BY <2>1, <1>5
  <1>8. SameBut(work, work', s)
    BY <1>3, <1>4, <1>7 DEF SameBut
  <1>9. QED
    BY <1>2, <1>7, <1>8

(* The counts the invariant speaks of, and by how much a step moves them:  *)
(* deletions, claims, "accept", receive steps, "preRecv", disconnections,  *)
(* returns and send completions.                                           *)
Moves(w, v, s, del, clm, acc, rcv, pre, dis, ret, snd) ==
  /\ Tally(v, s, Deletions) = Tally(w, s, Deletions) + del
  /\ Tally(v, s, Claiming) = Tally(w, s, Claiming) + clm
  /\ Tally(v, s, {"accept"}) = Tally(w, s, {"accept"}) + acc
  /\ Tally(v, s, ReceiveSteps) = Tally(w, s, ReceiveSteps) + rcv
  /\ Tally(v, s, {"preRecv"}) = Tally(w, s, {"preRecv"}) + pre
  /\ Tally(v, s, {"disconnect"}) = Tally(w, s, {"disconnect"}) + dis
  /\ Tally(v, s, Returning) = Tally(w, s, Returning) + ret
  /\ Tally(v, s, Sending) = Tally(w, s, Sending) + snd

(* Which of them a step counts for. *)
Row(do, del, clm, acc, rcv, pre, dis, ret, snd) ==
  /\ One(do, Deletions) = del /\ One(do, Claiming) = clm /\ One(do, {"accept"}) = acc
  /\ One(do, ReceiveSteps) = rcv /\ One(do, {"preRecv"}) = pre
  /\ One(do, {"disconnect"}) = dis /\ One(do, Returning) = ret /\ One(do, Sending) = snd

(* Which of the counts each kind of step belongs to. *)
LEMMA Rows ==
  /\ Row("deleteContext", 1, 0, 0, 0, 0, 0, 0, 0)
  /\ Row("releaseNew", 1, 0, 0, 0, 0, 0, 0, 0)
  /\ Row("releaseIssue", 0, 1, 0, 0, 0, 0, 0, 0)
  /\ Row("accept", 0, 1, 1, 0, 0, 0, 0, 0)
  /\ Row("preRecv", 0, 0, 0, 1, 1, 0, 0, 0)
  /\ Row("preRecvOrClose", 0, 0, 0, 1, 0, 0, 0, 0)
  /\ Row("postRecvOrClose", 0, 0, 0, 1, 0, 0, 0, 0)
  /\ Row("disconnect", 0, 0, 0, 0, 0, 1, 0, 0)
  /\ Row("return", 0, 0, 0, 0, 0, 0, 1, 0)
  /\ Row("resetSend", 0, 0, 0, 0, 0, 0, 1, 0)
  /\ Row("sendDone", 0, 0, 0, 0, 0, 0, 0, 1)
  /\ Row("sendShort", 0, 0, 0, 0, 0, 0, 0, 1)
  /\ Row("reset", 0, 0, 0, 0, 0, 0, 0, 0)
  /\ Row("load", 0, 0, 0, 0, 0, 0, 0, 0)
  /\ Row("move", 0, 0, 0, 0, 0, 0, 0, 0)
  /\ Row("postReply", 0, 0, 0, 0, 0, 0, 0, 0)
  /\ Row("flush", 0, 0, 0, 0, 0, 0, 0, 0)
  /\ Row("unlock", 0, 0, 0, 0, 0, 0, 0, 0)
  /\ Row("pop", 0, 0, 0, 0, 0, 0, 0, 0)
  BY DEF Row, One, Deletions, Claiming, ReceiveSteps, Returning, Sending

(* The counts of s move by a step that is gone and by steps that are there now. *)
Loses(w, v, s, do) ==
  Moves(w, v, s,
        0 - One(do, Deletions),
        0 - One(do, Claiming),
        0 - One(do, {"accept"}),
        0 - One(do, ReceiveSteps),
        0 - One(do, {"preRecv"}),
        0 - One(do, {"disconnect"}),
        0 - One(do, Returning),
        0 - One(do, Sending))

Swaps1(w, v, s, do, a) ==
  Moves(w, v, s,
        One(a, Deletions) - One(do, Deletions),
        One(a, Claiming) - One(do, Claiming),
        One(a, {"accept"}) - One(do, {"accept"}),
        One(a, ReceiveSteps) - One(do, ReceiveSteps),
        One(a, {"preRecv"}) - One(do, {"preRecv"}),
        One(a, {"disconnect"}) - One(do, {"disconnect"}),
        One(a, Returning) - One(do, Returning),
        One(a, Sending) - One(do, Sending))

Swaps2(w, v, s, do, a, b) ==
  Moves(w, v, s,
        One(a, Deletions) + One(b, Deletions) - One(do, Deletions),
        One(a, Claiming) + One(b, Claiming) - One(do, Claiming),
        One(a, {"accept"}) + One(b, {"accept"}) - One(do, {"accept"}),
        One(a, ReceiveSteps) + One(b, ReceiveSteps) - One(do, ReceiveSteps),
        One(a, {"preRecv"}) + One(b, {"preRecv"}) - One(do, {"preRecv"}),
        One(a, {"disconnect"}) + One(b, {"disconnect"}) - One(do, {"disconnect"}),
        One(a, Returning) + One(b, Returning) - One(do, Returning),
        One(a, Sending) + One(b, Sending) - One(do, Sending))

Swaps4(w, v, s, do, a, b, c, d) ==
  Moves(w, v, s,
        One(a, Deletions) + One(b, Deletions) + One(c, Deletions)
          + One(d, Deletions) - One(do, Deletions),
        One(a, Claiming) + One(b, Claiming) + One(c, Claiming)
          + One(d, Claiming) - One(do, Claiming),
        One(a, {"accept"}) + One(b, {"accept"}) + One(c, {"accept"})
          + One(d, {"accept"}) - One(do, {"accept"}),
        One(a, ReceiveSteps) + One(b, ReceiveSteps) + One(c, ReceiveSteps)
          + One(d, ReceiveSteps) - One(do, ReceiveSteps),
        One(a, {"preRecv"}) + One(b, {"preRecv"}) + One(c, {"preRecv"})
          + One(d, {"preRecv"}) - One(do, {"preRecv"}),
        One(a, {"disconnect"}) + One(b, {"disconnect"}) + One(c, {"disconnect"})
          + One(d, {"disconnect"}) - One(do, {"disconnect"}),
        One(a, Returning) + One(b, Returning) + One(c, Returning)
          + One(d, Returning) - One(do, Returning),
        One(a, Sending) + One(b, Sending) + One(c, Sending)
          + One(d, Sending) - One(do, Sending))

Gains1(w, v, s, a) ==
  Moves(w, v, s,
        One(a, Deletions),
        One(a, Claiming),
        One(a, {"accept"}),
        One(a, ReceiveSteps),
        One(a, {"preRecv"}),
        One(a, {"disconnect"}),
        One(a, Returning),
        One(a, Sending))

Gains2(w, v, s, a, b) ==
  Moves(w, v, s,
        One(a, Deletions) + One(b, Deletions),
        One(a, Claiming) + One(b, Claiming),
        One(a, {"accept"}) + One(b, {"accept"}),
        One(a, ReceiveSteps) + One(b, ReceiveSteps),
        One(a, {"preRecv"}) + One(b, {"preRecv"}),
        One(a, {"disconnect"}) + One(b, {"disconnect"}),
        One(a, Returning) + One(b, Returning),
        One(a, Sending) + One(b, Sending))

Gains3(w, v, s, a, b, c) ==
  Moves(w, v, s,
        One(a, Deletions) + One(b, Deletions) + One(c, Deletions),
        One(a, Claiming) + One(b, Claiming) + One(c, Claiming),
        One(a, {"accept"}) + One(b, {"accept"}) + One(c, {"accept"}),
        One(a, ReceiveSteps) + One(b, ReceiveSteps) + One(c, ReceiveSteps),
        One(a, {"preRecv"}) + One(b, {"preRecv"}) + One(c, {"preRecv"}),
        One(a, {"disconnect"}) + One(b, {"disconnect"}) + One(c, {"disconnect"}),
        One(a, Returning) + One(b, Returning) + One(c, Returning),
        One(a, Sending) + One(b, Sending) + One(c, Sending))

(* A step is replaced by none, one, two or four others. *)
LEMMA LosesStep ==
  ASSUME work \in Stacks, NEW t \in IoThreads, NEW s \in Sessions, NEW do, Ready(t, do, s),
         Done(t, <<>>)
  PROVE  work' \in Stacks /\ SameBut(work, work', s) /\ Loses(work, work', s, do)
  <1>1. /\ work' \in Stacks /\ SameBut(work, work', s)
        /\ \A dos : Tally(work', s, dos)
                      = Tally(work, s, dos) - One(do, dos)
    BY DoneNone
  <1>2. \A step, dos : One(step, dos) \in Nat /\ Tally(work, s, dos) \in Nat
    BY StepsInFinite DEF One
  <1>3. \A dos : Tally(work', s, dos) = Tally(work, s, dos) + (0 - One(do, dos))
    BY <1>1, <1>2
  <1>4. QED
    BY <1>1, <1>3 DEF Moves, Loses

LEMMA SwapsSteps1 ==
  ASSUME work \in Stacks, NEW t \in IoThreads, NEW s \in Sessions, NEW do, Ready(t, do, s),
         NEW a \in Steps,
         Done(t, <<Step(a, s)>>)
  PROVE  work' \in Stacks /\ SameBut(work, work', s) /\ Swaps1(work, work', s, do, a)
  <1>1. /\ work' \in Stacks /\ SameBut(work, work', s)
        /\ \A dos : Tally(work', s, dos)
                      = Tally(work, s, dos) - One(do, dos) + One(a, dos)
    BY DoneOne
  <1>2. \A step, dos : One(step, dos) \in Nat /\ Tally(work, s, dos) \in Nat
    BY StepsInFinite DEF One
  <1>3. QED
    BY <1>1, <1>2 DEF Moves, Swaps1

LEMMA SwapsSteps2 ==
  ASSUME work \in Stacks, NEW t \in IoThreads, NEW s \in Sessions, NEW do, Ready(t, do, s),
         NEW a \in Steps, NEW b \in Steps,
         Done(t, <<Step(a, s), Step(b, s)>>)
  PROVE  work' \in Stacks /\ SameBut(work, work', s) /\ Swaps2(work, work', s, do, a, b)
  <1>1. /\ work' \in Stacks /\ SameBut(work, work', s)
        /\ \A dos : Tally(work', s, dos)
                      = Tally(work, s, dos) - One(do, dos) + One(a, dos) + One(b, dos)
    BY DoneTwo
  <1>2. \A step, dos : One(step, dos) \in Nat /\ Tally(work, s, dos) \in Nat
    BY StepsInFinite DEF One
  <1>3. QED
    BY <1>1, <1>2 DEF Moves, Swaps2

LEMMA SwapsSteps4 ==
  ASSUME work \in Stacks, NEW t \in IoThreads, NEW s \in Sessions, NEW do, Ready(t, do, s),
         NEW a \in Steps, NEW b \in Steps, NEW c \in Steps, NEW d \in Steps,
         Done(t, <<Step(a, s), Step(b, s), Step(c, s), Step(d, s)>>)
  PROVE  work' \in Stacks /\ SameBut(work, work', s) /\ Swaps4(work, work', s, do, a, b, c, d)
  <1>1. /\ work' \in Stacks /\ SameBut(work, work', s)
        /\ \A dos : Tally(work', s, dos)
                      = Tally(work, s, dos) - One(do, dos) + One(a, dos) + One(b, dos)
                        + One(c, dos) + One(d, dos)
    BY DoneFour
  <1>2. \A step, dos : One(step, dos) \in Nat /\ Tally(work, s, dos) \in Nat
    BY StepsInFinite DEF One
  <1>3. QED
    BY <1>1, <1>2 DEF Moves, Swaps4

(* A step on a stack counts. *)
LEMMA OwnStepCounts ==
  ASSUME work \in Stacks, NEW t \in IoThreads, NEW s, NEW do, Ready(t, do, s),
         NEW dos, do \in dos
  PROVE  Tally(work, s, dos) >= 1
  <1>1. work[t] \in Seq(StepSet) /\ work[t] # <<>> /\ work[t][Len(work[t])] = Step(do, s)
    BY DEF Ready, Stacks
  <1>2. Len(work[t]) \in DOMAIN work[t]
    BY <1>1
  <1>3. QED
    BY <1>1, <1>2, TallyPositive DEF Step

(* A completion handler holds its context. *)
LEMMA HandlingIsHeld ==
  ASSUME work \in Stacks, NEW t \in IoThreads, NEW s, NEW do, Ready(t, do, s),
         StackOK(t), do \in Handling
  PROVE  Tally(work, s, Deletions) >= 1
  <1>1. work[t] \in Seq(StepSet) /\ work[t] # <<>> /\ work[t][Len(work[t])] = Step(do, s)
    BY DEF Ready, Stacks
  <1>2. Len(work[t]) \in DOMAIN work[t] /\ 1 \in DOMAIN work[t]
    BY <1>1
  <1>3. work[t][Len(work[t])].do = do /\ work[t][Len(work[t])].s = s
    BY <1>1 DEF Step
  <1>4. work[t][1] = Step("deleteContext", s)
    BY <1>2, <1>3 DEF StackOK, StackShape
  <1>5. work[t][1].do \in Deletions /\ work[t][1].s = s
    <2>1. Step("deleteContext", s).do = "deleteContext" /\ Step("deleteContext", s).s = s
      BY DEF Step
    <2>2. QED
      BY <1>4, <2>1 DEF Deletions
  <1>6. QED
    BY <1>2, <1>5, TallyPositive

(* Everything the invariant reads of a session. *)
Numbers(x) ==
  /\ x.mConnected \in {0, 1} /\ x.mRefCount \in Int /\ x.mSendPendingCount \in Int
  /\ \A io \in IoTypes : x.pending[io] \in Nat

LEMMA RecNumbers ==
  ASSUME NEW x \in SessionRec
  PROVE  Numbers(x)
  BY DEF SessionRec, Numbers

(* The numbers are numbers. *)
Nums(iss, ref, pend, del, con, opn, pa, pd, pz, pr, clm, acc, rcv, pre, dis, home) ==
  /\ iss \in {0, 1} /\ ref \in Int /\ pend \in Nat /\ del \in Nat
  /\ con \in {0, 1} /\ opn \in {0, 1} /\ pa \in Nat /\ pd \in Nat /\ pz \in Nat /\ pr \in Nat
  /\ clm \in Nat /\ acc \in Nat /\ rcv \in Nat /\ pre \in Nat /\ dis \in Nat /\ home \in Nat
  /\ acc <= clm /\ pre <= rcv /\ pa + pd + pz + pr <= pend

(* A session whose numbers fit. *)
Fits(iss, ref, pend, del, con, opn, pa, pd, pz, pr, clm, acc, rcv, pre, dis, home) ==
  /\ Nums(iss, ref, pend, del, con, opn, pa, pd, pz, pr, clm, acc, rcv, pre, dis, home)
  /\ Fit(iss, ref, pend, del, con, opn, pa, pd, pz, pr, clm, acc, rcv, pre, dis, home)

(* What each kind of step does to the numbers. *)
(* A context is handed to the kernel or the database, by one who holds the session. *)
LEMMA FitNewContext ==
  \A iss, ref, pend, del, con, opn, pa, pd, pz, pr, clm, acc, rcv, pre, dis, home :
    /\ Fits(iss, ref, pend, del, con, opn, pa, pd, pz, pr,
            clm, acc, rcv, pre, dis, home)
    /\ ref # 0 \/ del >= 1
    => Fit(iss, ref + 1, pend + 1, del, con, opn, pa, pd, pz, pr, clm, acc, rcv, pre,
           dis, home)
  BY DEF Fits, Fit, Nums

(* A call with a new context fails in a FlushSend. *)
LEMMA FitFailedContext ==
  \A iss, ref, pend, del, con, opn, pa, pd, pz, pr, clm, acc, rcv, pre, dis, home :
    /\ Fits(iss, ref, pend, del, con, opn, pa, pd, pz, pr,
            clm, acc, rcv, pre, dis, home)
    /\ ref # 0
    => Fit(iss, ref + 1, pend, del + 1, con, opn, pa, pd, pz, pr, clm, acc, rcv, pre,
           dis + 1, home)
  BY DEF Fits, Fit, Nums

(* A completion is dequeued: its context is now to be deleted. *)
LEMMA FitAcceptDequeued ==
  \A iss, ref, pend, del, con, opn, pa, pd, pz, pr, clm, acc, rcv, pre, dis, home, o :
    /\ Fits(iss, ref, pend, del, con, opn, pa, pd, pz, pr,
            clm, acc, rcv, pre, dis, home)
    /\ o \in {0, 1}
    /\ pa >= 1
    /\ o = 1 \/ (o = opn /\ ~AcceptSucceeds)
    => Fit(iss, ref, pend - 1, del + 1, con, o, pa - 1, pd, pz, pr, clm + 1, acc + 1,
           rcv, pre, dis, home)
  BY DEF Fits, Fit, Nums

LEMMA FitRecvZeroDequeued ==
  \A iss, ref, pend, del, con, opn, pa, pd, pz, pr, clm, acc, rcv, pre, dis, home :
    /\ Fits(iss, ref, pend, del, con, opn, pa, pd, pz, pr,
            clm, acc, rcv, pre, dis, home)
    /\ pz >= 1
    => Fit(iss, ref, pend - 1, del + 1, con, opn, pa, pd, pz - 1, pr, clm, acc,
           rcv + 1, pre, dis, home)
  BY DEF Fits, Fit, Nums

LEMMA FitRecvDequeued ==
  \A iss, ref, pend, del, con, opn, pa, pd, pz, pr, clm, acc, rcv, pre, dis, home :
    /\ Fits(iss, ref, pend, del, con, opn, pa, pd, pz, pr,
            clm, acc, rcv, pre, dis, home)
    /\ pr >= 1
    => Fit(iss, ref, pend - 1, del + 1, con, opn, pa, pd, pz, pr - 1, clm, acc,
           rcv + 1, pre, dis, home)
  BY DEF Fits, Fit, Nums

LEMMA FitRecvFailed ==
  \A iss, ref, pend, del, con, opn, pa, pd, pz, pr, clm, acc, rcv, pre, dis, home :
    /\ Fits(iss, ref, pend, del, con, opn, pa, pd, pz, pr,
            clm, acc, rcv, pre, dis, home)
    /\ pr >= 1
    => Fit(iss, ref, pend - 1, del + 1, con, opn, pa, pd, pz, pr - 1, clm, acc, rcv,
           pre, dis + 1, home)
  BY DEF Fits, Fit, Nums

LEMMA FitOtherDequeued ==
  \A iss, ref, pend, del, con, opn, pa, pd, pz, pr, clm, acc, rcv, pre, dis, home, k :
    /\ Fits(iss, ref, pend, del, con, opn, pa, pd, pz, pr,
            clm, acc, rcv, pre, dis, home)
    /\ k \in {0, 1}
    => Fit(iss, ref, pend - 1, del + 1, con, opn, pa, pd, pz, pr, clm, acc, rcv, pre,
           dis + k, home)
  BY DEF Fits, Fit, Nums

LEMMA FitDisconnectDequeued ==
  \A iss, ref, pend, del, con, opn, pa, pd, pz, pr, clm, acc, rcv, pre, dis, home :
    /\ Fits(iss, ref, pend, del, con, opn, pa, pd, pz, pr,
            clm, acc, rcv, pre, dis, home)
    /\ pd >= 1
    => Fit(iss, ref, pend - 1, del + 1, con, opn, pa, pd - 1, pz, pr, clm + 1, acc,
           rcv, pre, dis, home)
  BY DEF Fits, Fit, Nums

(* AcceptCompletion and the three receives: posted, failed, or not connected. *)
LEMMA FitAccepted ==
  \A iss, ref, pend, del, con, opn, pa, pd, pz, pr, clm, acc, rcv, pre, dis, home :
    /\ Fits(iss, ref, pend, del, con, opn, pa, pd, pz, pr,
            clm, acc, rcv, pre, dis, home)
    /\ acc >= 1
    /\ opn = 1
    => Fit(iss, ref, pend, del, 1, opn, pa, pd, pz, pr, clm - 1, acc - 1, rcv + 1,
           pre + 1, dis, home)
  BY DEF Fits, Fit, Nums

LEMMA FitNotAccepted ==
  \A iss, ref, pend, del, con, opn, pa, pd, pz, pr, clm, acc, rcv, pre, dis, home :
    /\ Fits(iss, ref, pend, del, con, opn, pa, pd, pz, pr,
            clm, acc, rcv, pre, dis, home)
    /\ acc >= 1
    => Fit(iss, ref, pend, del, 1, opn, pa, pd, pz, pr, clm - 1, acc - 1, rcv, pre,
           dis + 1, home)
  BY DEF Fits, Fit, Nums

(* A receive step on a session that is not connected, ... *)
LEMMA FitNoFirstReceive ==
  \A iss, ref, pend, del, con, opn, pa, pd, pz, pr, clm, acc, rcv, pre, dis, home :
    /\ Fits(iss, ref, pend, del, con, opn, pa, pd, pz, pr,
            clm, acc, rcv, pre, dis, home)
    /\ con = 0
    /\ rcv >= 1
    => Fit(iss, ref, pend, del, con, opn, pa, pd, pz, pr, clm, acc, rcv - 1, pre - 1,
           dis, home)
  BY DEF Fits, Fit, Nums

LEMMA FitNoReceive ==
  \A iss, ref, pend, del, con, opn, pa, pd, pz, pr, clm, acc, rcv, pre, dis, home :
    /\ Fits(iss, ref, pend, del, con, opn, pa, pd, pz, pr,
            clm, acc, rcv, pre, dis, home)
    /\ con = 0
    /\ rcv >= 1
    => Fit(iss, ref, pend, del, con, opn, pa, pd, pz, pr, clm, acc, rcv - 1, pre,
           dis + 1, home)
  BY DEF Fits, Fit, Nums

(* ... that succeeds, ... *)
LEMMA FitFirstReceive ==
  \A iss, ref, pend, del, con, opn, pa, pd, pz, pr, clm, acc, rcv, pre, dis, home :
    /\ Fits(iss, ref, pend, del, con, opn, pa, pd, pz, pr,
            clm, acc, rcv, pre, dis, home)
    /\ rcv >= 1
    /\ del >= 1
    => Fit(iss, ref + 1, pend + 1, del, con, opn, pa, pd, pz + 1, pr, clm, acc, rcv - 1,
           pre - 1, dis, home)
  BY DEF Fits, Fit, Nums

LEMMA FitPreRecv ==
  \A iss, ref, pend, del, con, opn, pa, pd, pz, pr, clm, acc, rcv, pre, dis, home :
    /\ Fits(iss, ref, pend, del, con, opn, pa, pd, pz, pr,
            clm, acc, rcv, pre, dis, home)
    /\ rcv >= 1
    /\ del >= 1
    => Fit(iss, ref + 1, pend + 1, del, con, opn, pa, pd, pz + 1, pr, clm, acc, rcv - 1,
           pre, dis, home)
  BY DEF Fits, Fit, Nums

LEMMA FitPostRecv ==
  \A iss, ref, pend, del, con, opn, pa, pd, pz, pr, clm, acc, rcv, pre, dis, home :
    /\ Fits(iss, ref, pend, del, con, opn, pa, pd, pz, pr,
            clm, acc, rcv, pre, dis, home)
    /\ rcv >= 1
    /\ del >= 1
    => Fit(iss, ref + 1, pend + 1, del, con, opn, pa, pd, pz, pr + 1, clm, acc, rcv - 1,
           pre, dis, home)
  BY DEF Fits, Fit, Nums

(* ... and that fails. *)
LEMMA FitFirstReceiveFails ==
  \A iss, ref, pend, del, con, opn, pa, pd, pz, pr, clm, acc, rcv, pre, dis, home :
    /\ Fits(iss, ref, pend, del, con, opn, pa, pd, pz, pr,
            clm, acc, rcv, pre, dis, home)
    /\ rcv >= 1
    /\ del >= 1
    /\ pre >= 1
    /\ con = 1
    /\ opn = 0 \/ ~FirstReceiveSucceeds
    => Fit(iss, ref + 1, pend, del + 1, con, opn, pa, pd, pz, pr, clm, acc, rcv - 1,
           pre - 1, dis, home)
  BY DEF Fits, Fit, Nums

LEMMA FitReceiveFails ==
  \A iss, ref, pend, del, con, opn, pa, pd, pz, pr, clm, acc, rcv, pre, dis, home :
    /\ Fits(iss, ref, pend, del, con, opn, pa, pd, pz, pr,
            clm, acc, rcv, pre, dis, home)
    /\ rcv >= 1
    /\ del >= 1
    => Fit(iss, ref + 1, pend, del + 1, con, opn, pa, pd, pz, pr, clm, acc, rcv - 1,
           pre, dis + 1, home)
  BY DEF Fits, Fit, Nums

(* DisconnectRequest by one who comes too late, ... *)
LEMMA FitDisconnectedBefore ==
  \A iss, ref, pend, del, con, opn, pa, pd, pz, pr, clm, acc, rcv, pre, dis, home :
    /\ Fits(iss, ref, pend, del, con, opn, pa, pd, pz, pr,
            clm, acc, rcv, pre, dis, home)
    /\ con = 0
    => Fit(iss, ref, pend, del, con, opn, pa, pd, pz, pr, clm, acc, rcv, pre, dis - 1,
           home)
  BY DEF Fits, Fit, Nums

(* ... that goes on to DisconnectEx, ... *)
LEMMA FitDisconnects ==
  \A iss, ref, pend, del, con, opn, pa, pd, pz, pr, clm, acc, rcv, pre, dis, home :
    /\ Fits(iss, ref, pend, del, con, opn, pa, pd, pz, pr,
            clm, acc, rcv, pre, dis, home)
    /\ con = 1
    => Fit(iss, ref + 1, pend + 1, del, 0, 0, pa, pd + 1, pz, pr, clm, acc, rcv, pre,
           dis - 1, home)
  BY DEF Fits, Fit, Nums

(* ... and that fails there. *)
LEMMA FitDisconnectFails ==
  \A iss, ref, pend, del, con, opn, pa, pd, pz, pr, clm, acc, rcv, pre, dis, home :
    /\ Fits(iss, ref, pend, del, con, opn, pa, pd, pz, pr,
            clm, acc, rcv, pre, dis, home)
    /\ con = 1
    /\ ClaimsKept => AcceptSucceeds
    /\ opn = 0 \/ ~ClaimsKept
    => Fit(iss, ref + 1, pend, del + 1, 0, opn, pa, pd, pz, pr, clm, acc, rcv, pre,
           dis - 1, home)
  BY DEF Fits, Fit, Nums

(* ReleaseRef for a context and for the issue. *)
LEMMA FitReleaseContext ==
  \A iss, ref, pend, del, con, opn, pa, pd, pz, pr, clm, acc, rcv, pre, dis, home :
    /\ Fits(iss, ref, pend, del, con, opn, pa, pd, pz, pr,
            clm, acc, rcv, pre, dis, home)
    /\ del >= 1
    /\ ref # 1
    => Fit(iss, ref - 1, pend, del - 1, con, opn, pa, pd, pz, pr, clm, acc, rcv, pre,
           dis, home)
  BY DEF Fits, Fit, Nums

(* A reference is given up, the last one or not, of a context or of the issue. *)
LEMMA FitReleaseLastContext ==
  \A iss, ref, pend, del, con, opn, pa, pd, pz, pr, clm, acc, rcv, pre, dis, home :
    /\ Fits(iss, ref, pend, del, con, opn, pa, pd, pz, pr,
            clm, acc, rcv, pre, dis, home)
    /\ del >= 1
    /\ ref = 1
    => Fit(iss, ref - 1, pend, del - 1, con, opn, pa, pd, pz, pr, clm, acc, rcv, pre,
           dis, home + 1)
  BY DEF Fits, Fit, Nums

LEMMA FitReleaseIssue ==
  \A iss, ref, pend, del, con, opn, pa, pd, pz, pr, clm, acc, rcv, pre, dis, home :
    /\ Fits(iss, ref, pend, del, con, opn, pa, pd, pz, pr,
            clm, acc, rcv, pre, dis, home)
    /\ clm >= 1
    /\ ref # 1
    => Fit(0, ref - 1, pend, del, con, opn, pa, pd, pz, pr, clm - 1, acc, rcv, pre,
           dis, home)
  BY DEF Fits, Fit, Nums

LEMMA FitReleaseLastIssue ==
  \A iss, ref, pend, del, con, opn, pa, pd, pz, pr, clm, acc, rcv, pre, dis, home :
    /\ Fits(iss, ref, pend, del, con, opn, pa, pd, pz, pr,
            clm, acc, rcv, pre, dis, home)
    /\ clm >= 1
    /\ ref = 1
    => Fit(0, ref - 1, pend, del, con, opn, pa, pd, pz, pr, clm - 1, acc, rcv, pre,
           dis, home + 1)
  BY DEF Fits, Fit, Nums

(* A step that changes none of the numbers; SessionReset, which finds them at rest. *)
LEMMA FitSame ==
  \A iss, ref, pend, del, con, opn, pa, pd, pz, pr, clm, acc, rcv, pre, dis, home :
    /\ Fits(iss, ref, pend, del, con, opn, pa, pd, pz, pr,
            clm, acc, rcv, pre, dis, home)
    => Fit(iss, ref, pend, del, con, opn, pa, pd, pz, pr, clm, acc, rcv, pre, dis, home)
  BY DEF Fits, Fit, Nums

LEMMA FitReset ==
  \A iss, ref, pend, del, con, opn, pa, pd, pz, pr, clm, acc, rcv, pre, dis, home :
    /\ Fits(iss, ref, pend, del, con, opn, pa, pd, pz, pr,
            clm, acc, rcv, pre, dis, home)
    /\ home >= 1
    => Fit(iss, 0, pend, del, 0, opn, pa, pd, pz, pr, clm, acc, rcv, pre, dis, home)
  BY DEF Fits, Fit, Nums

(* The session is back in the pool, and is issued again. *)
LEMMA FitReturned ==
  \A iss, ref, pend, del, con, opn, pa, pd, pz, pr, clm, acc, rcv, pre, dis, home :
    /\ Fits(iss, ref, pend, del, con, opn, pa, pd, pz, pr,
            clm, acc, rcv, pre, dis, home)
    /\ home >= 1
    => Fit(iss, ref, pend, del, con, 0, pa, pd, pz, pr, clm, acc, rcv, pre, dis, home)
  BY DEF Fits, Fit, Nums

(* A session in the pool, or on its way there, is held by nobody. *)
LEMMA HomeIsUnheld ==
  \A iss, ref, pend, del, con, opn, pa, pd, pz, pr, clm, acc, rcv, pre, dis, home :
    /\ Fits(iss, ref, pend, del, con, opn, pa, pd, pz, pr,
            clm, acc, rcv, pre, dis, home)
    /\ home >= 1
    => /\ home = 1 /\ ref = 0 /\ iss = 0 /\ pend = 0 /\ del = 0 /\ con = 0 /\ clm = 0
       /\ acc = 0 /\ pa = 0 /\ pd = 0 /\ pz = 0 /\ pr = 0
  BY DEF Fits, Fit, Nums

(* It is issued again. *)
LEMMA FitIssued ==
  \A iss, ref, pend, del, con, opn, pa, pd, pz, pr, clm, acc, rcv, pre, dis, home :
    /\ Fits(iss, ref, pend, del, con, opn, pa, pd, pz, pr,
            clm, acc, rcv, pre, dis, home)
    /\ home >= 1
    /\ rcv = 0
    => Fit(1, ref + 2, pend + 1, del, con, opn, pa + 1, pd, pz, pr, clm, acc, rcv, pre,
           dis, home - 1)
  BY DEF Fits, Fit, Nums

LEMMA FitToDisconnect ==
  \A iss, ref, pend, del, con, opn, pa, pd, pz, pr, clm, acc, rcv, pre, dis, home :
    /\ Fits(iss, ref, pend, del, con, opn, pa, pd, pz, pr,
            clm, acc, rcv, pre, dis, home)
    => Fit(iss, ref, pend, del, con, opn, pa, pd, pz, pr, clm, acc, rcv, pre, dis + 1,
           home)
  BY DEF Fits, Fit, Nums

-----------------------------------------------------------------------------
(* The numbers of a session, before and after a step. *)
LEMMA NumbersOf ==
  ASSUME NEW x \in SessionRec, NEW w \in Stacks, NEW f \in Seq(Sessions), NEW s
  PROVE  Nums(Issue(x), x.mRefCount, PendingSum(x.pending), Tally(w, s, Deletions),
              x.mConnected, Open(x), x.pending["ACCEPT"], x.pending["DISCONNECT"],
              x.pending["RECV_ZERO"], x.pending["RECV"],
              Tally(w, s, Claiming), Tally(w, s, {"accept"}), Tally(w, s, ReceiveSteps),
              Tally(w, s, {"preRecv"}), Tally(w, s, {"disconnect"}),
              Pooled(f, s) + Tally(w, s, Returning))
  <1>1. /\ x.mConnected \in {0, 1} /\ x.mRefCount \in Int /\ x.pending["ACCEPT"] \in Nat
        /\ x.pending["DISCONNECT"] \in Nat /\ x.pending["RECV_ZERO"] \in Nat
        /\ x.pending["RECV"] \in Nat /\ x.pending["SEND"] \in Nat /\ x.pending["DB"] \in Nat
    BY DEF SessionRec, IoTypes
  <1>2. Issue(x) \in {0, 1} /\ Open(x) \in {0, 1}
    BY DEF Issue, Open
  <1>3. ASSUME NEW a \in Nat, NEW z \in Nat, NEW r \in Nat, NEW n \in Nat, NEW d \in Nat,
               NEW b \in Nat
        PROVE  a + z + r + n + d + b \in Nat /\ a + d + z + r <= a + z + r + n + d + b
    OBVIOUS
  <1>4. /\ PendingSum(x.pending) \in Nat
        /\ x.pending["ACCEPT"] + x.pending["DISCONNECT"] + x.pending["RECV_ZERO"]
             + x.pending["RECV"] <= PendingSum(x.pending)
    BY <1>1, <1>3 DEF PendingSum
  <1>5. /\ \A dos : Tally(w, s, dos) \in Nat
        /\ Tally(w, s, {"accept"}) <= Tally(w, s, Claiming)
        /\ Tally(w, s, {"preRecv"}) <= Tally(w, s, ReceiveSteps)
        /\ Pooled(f, s) \in Nat
    BY Tallies
  <1>6. Pooled(f, s) + Tally(w, s, Returning) \in Nat
    BY <1>5
  <1>7. QED
    BY <1>1, <1>2, <1>4, <1>5, <1>6 DEF Nums

(* One context more or less in "pending" is one more or less in the sum. *)
LEMMA PendingChange ==
  ASSUME NEW p \in [IoTypes -> Nat], NEW io \in IoTypes, NEW k \in Int,
         NEW q, q = [p EXCEPT ![io] = @ + k]
  PROVE  /\ PendingSum(q) = PendingSum(p) + k
         /\ q[io] = p[io] + k
         /\ \A other \in IoTypes \ {io} : q[other] = p[other]
  <1>1. q[io] = p[io] + k /\ \A other \in IoTypes \ {io} : q[other] = p[other]
    OBVIOUS
  <1>2. ASSUME NEW a \in Nat, NEW z \in Nat, NEW r \in Nat, NEW n \in Nat, NEW d \in Nat,
               NEW b \in Nat
        PROVE  /\ (a + k) + z + r + n + d + b = (a + z + r + n + d + b) + k
               /\ a + (z + k) + r + n + d + b = (a + z + r + n + d + b) + k
               /\ a + z + (r + k) + n + d + b = (a + z + r + n + d + b) + k
               /\ a + z + r + (n + k) + d + b = (a + z + r + n + d + b) + k
               /\ a + z + r + n + (d + k) + b = (a + z + r + n + d + b) + k
               /\ a + z + r + n + d + (b + k) = (a + z + r + n + d + b) + k
    OBVIOUS
  <1>3. /\ p["ACCEPT"] \in Nat /\ p["RECV_ZERO"] \in Nat /\ p["RECV"] \in Nat
        /\ p["SEND"] \in Nat /\ p["DISCONNECT"] \in Nat /\ p["DB"] \in Nat
    BY DEF IoTypes
  <1>4. CASE io = "ACCEPT"
    BY <1>1, <1>2, <1>3, <1>4 DEF PendingSum, IoTypes
  <1>5. CASE io = "RECV_ZERO"
    BY <1>1, <1>2, <1>3, <1>5 DEF PendingSum, IoTypes
  <1>6. CASE io = "RECV"
    BY <1>1, <1>2, <1>3, <1>6 DEF PendingSum, IoTypes
  <1>7. CASE io = "SEND"
    BY <1>1, <1>2, <1>3, <1>7 DEF PendingSum, IoTypes
  <1>8. CASE io = "DISCONNECT"
    BY <1>1, <1>2, <1>3, <1>8 DEF PendingSum, IoTypes
  <1>9. CASE io = "DB"
    BY <1>1, <1>2, <1>3, <1>9 DEF PendingSum, IoTypes
  <1>10. QED
    BY <1>1, <1>4, <1>5, <1>6, <1>7, <1>8, <1>9 DEF IoTypes

LEMMA Typed ==
  ASSUME TypeOK
  PROVE  /\ work \in Stacks /\ mFreeSessionList \in Seq(Sessions)
         /\ \A s \in Sessions : session[s] \in SessionRec /\ Numbers(session[s])
  BY TypeStacks, RecNumbers DEF TypeOK, SessionRec

(* What WithContext, WithFailedContext and Taken do to the numbers of a session. *)
LEMMA NewContext ==
  ASSUME NEW x \in SessionRec, NEW io \in IoTypes, NEW y, y = WithContext(x, io)
  PROVE  /\ y \in SessionRec
         /\ y.mRefCount = x.mRefCount + 1 /\ y.pending = [x.pending EXCEPT ![io] = @ + 1]
         /\ y.mConnected = x.mConnected /\ y.mSendPendingCount = x.mSendPendingCount
         /\ y.socket = x.socket /\ y.issued = x.issued
  <1> DEFINE q == [x.pending EXCEPT ![io] = @ + 1]
             z == [x EXCEPT !.mRefCount = @ + 1]
  <1>1. y = [z EXCEPT !.pending = q]
    BY DEF WithContext, SessionRec
  <1>2. q \in [IoTypes -> Nat]
    BY DEF SessionRec
  <1>3. /\ z \in SessionRec /\ z.mRefCount = x.mRefCount + 1
        /\ z.mConnected = x.mConnected /\ z.mSendPendingCount = x.mSendPendingCount
        /\ z.socket = x.socket /\ z.issued = x.issued
    BY DEF SessionRec
  <1> HIDE DEF q, z
  <1>4. y \in SessionRec
    BY <1>1, <1>2, <1>3 DEF SessionRec
  <1>5. /\ y.mRefCount = z.mRefCount /\ y.pending = q
        /\ y.mConnected = z.mConnected /\ y.mSendPendingCount = z.mSendPendingCount
        /\ y.socket = z.socket /\ y.issued = z.issued
    BY <1>1, <1>3 DEF SessionRec
  <1>6. QED
    BY <1>3, <1>4, <1>5 DEF q

(* y has the numbers of x, with a new context of type io, ... *)
Posted(x, y, io) ==
  /\ y.mRefCount = x.mRefCount + 1 /\ PendingSum(y.pending) = PendingSum(x.pending) + 1
  /\ y.pending[io] = x.pending[io] + 1
  /\ \A other \in IoTypes \ {io} : y.pending[other] = x.pending[other]
  /\ y.mConnected = x.mConnected /\ y.mSendPendingCount = x.mSendPendingCount
  /\ Open(y) = Open(x) /\ Issue(y) = Issue(x)

(* ... and with one less that is pending. *)
Dequeued(x, y, io) ==
  /\ y.mRefCount = x.mRefCount /\ PendingSum(y.pending) = PendingSum(x.pending) - 1
  /\ y.pending[io] = x.pending[io] - 1
  /\ \A other \in IoTypes \ {io} : y.pending[other] = x.pending[other]
  /\ y.mConnected = x.mConnected /\ y.mSendPendingCount = x.mSendPendingCount
  /\ Open(y) = Open(x) /\ Issue(y) = Issue(x)

LEMMA NewContextNumbers ==
  ASSUME NEW x \in SessionRec, NEW io \in IoTypes, NEW y, y = WithContext(x, io)
  PROVE  y \in SessionRec /\ Posted(x, y, io)
  <1>1. /\ y \in SessionRec
        /\ y.mRefCount = x.mRefCount + 1 /\ y.pending = [x.pending EXCEPT ![io] = @ + 1]
        /\ y.mConnected = x.mConnected /\ y.mSendPendingCount = x.mSendPendingCount
        /\ y.socket = x.socket /\ y.issued = x.issued
    BY NewContext
  <1>2. x.pending \in [IoTypes -> Nat]
    BY DEF SessionRec
  <1>3. /\ PendingSum(y.pending) = PendingSum(x.pending) + 1
        /\ y.pending[io] = x.pending[io] + 1
        /\ \A other \in IoTypes \ {io} : y.pending[other] = x.pending[other]
    BY <1>1, <1>2, PendingChange
  <1>4. Open(y) = Open(x) /\ Issue(y) = Issue(x)
    BY <1>1 DEF Open, Issue
  <1>5. QED
    BY <1>1, <1>3, <1>4 DEF Posted

LEMMA TakenNumbers ==
  ASSUME NEW x \in SessionRec, NEW io \in IoTypes, NEW y, y = [x EXCEPT !.pending[io] = @ - 1]
  PROVE  Dequeued(x, y, io)
  <1> DEFINE q == [x.pending EXCEPT ![io] = @ - 1]
  <1>1. x.pending \in [IoTypes -> Nat] /\ q = [x.pending EXCEPT ![io] = @ + (0 - 1)]
    BY DEF SessionRec
  <1>2. /\ y.mRefCount = x.mRefCount /\ y.pending = q
        /\ y.mConnected = x.mConnected /\ y.mSendPendingCount = x.mSendPendingCount
        /\ y.socket = x.socket /\ y.issued = x.issued
    BY DEF SessionRec
  <1> HIDE DEF q
  <1>3. /\ PendingSum(q) = PendingSum(x.pending) + (0 - 1)
        /\ q[io] = x.pending[io] + (0 - 1)
        /\ \A other \in IoTypes \ {io} : q[other] = x.pending[other]
    BY <1>1, PendingChange
  <1>4. PendingSum(x.pending) \in Nat /\ x.pending[io] \in Nat
    <2>1. \A i \in IoTypes : x.pending[i] \in Nat
      BY <1>1
    <2>2. QED
      BY <2>1 DEF PendingSum, IoTypes
  <1>5. PendingSum(q) = PendingSum(x.pending) - 1 /\ q[io] = x.pending[io] - 1
    BY <1>3, <1>4
  <1>6. Open(y) = Open(x) /\ Issue(y) = Issue(x)
    BY <1>2 DEF Open, Issue
  <1>7. QED
    BY <1>2, <1>3, <1>5, <1>6 DEF Dequeued

(* The same for a thread whose stack was empty. *)
Begins(t, u) == work[t] = <<>> /\ work' = [work EXCEPT ![t] = u]

(* A thread that had nothing to do starts with one, two or three steps. *)
LEMMA FreshOne ==
  ASSUME work \in Stacks, NEW t \in IoThreads, NEW s \in Sessions,
         NEW a \in Steps,
         Begins(t, <<Step(a, s)>>)
  PROVE  /\ work' \in Stacks /\ SameBut(work, work', s)
         /\ \A dos : Tally(work', s, dos) = Tally(work, s, dos) + One(a, dos)
  <1> DEFINE u == work[t]
             A == Step(a, s)
  <1>1. A \in StepSet
    BY DEF Step, StepSet
  <1>2. \A dos : /\ Hit(A, s, dos) = One(a, dos)
    BY HitIsOne
  <1>3. \A r \in Sessions \ {s} : \A dos :
          /\ Hit(A, r, dos) = 0
    BY HitsNoOther
  <1>4. \A r, dos : Tally(work, r, dos) \in Nat
    BY StepsInFinite
  <1>6. Put(work, t, u) = work /\ u = <<>>
    BY DEF Put, Stacks, Begins
  <1>5. u \in Seq(StepSet)
    BY DEF Stacks
  <1>7. work' = Put(work, t, u \o <<A>>)
    BY <1>6 DEF Put, Begins
  <1>8. \A r, dos : Tally(Put(work, t, u), r, dos) = Tally(work, r, dos)
    BY <1>6
  <1> HIDE DEF u, A
  <1>9. work' \in Stacks /\
          \A r, dos : Tally(work', r, dos) = Tally(work, r, dos) + Hit(A, r, dos)
    <2>1. work' \in Stacks /\
            \A r, dos : Tally(work', r, dos) = Tally(Put(work, t, u), r, dos) + Hit(A, r, dos)
      BY <1>1, <1>7, <1>5, TallyPut1
    <2>2. QED
      BY <2>1, <1>8
  <1>10. SameBut(work, work', s)
    BY <1>3, <1>4, <1>9 DEF SameBut
  <1>11. \A dos : Tally(work', s, dos) = Tally(work, s, dos) + One(a, dos)
    BY <1>2, <1>9
  <1>12. QED
    BY <1>9, <1>10, <1>11

LEMMA FreshTwo ==
  ASSUME work \in Stacks, NEW t \in IoThreads, NEW s \in Sessions,
         NEW a \in Steps, NEW b \in Steps,
         Begins(t, <<Step(a, s), Step(b, s)>>)
  PROVE  /\ work' \in Stacks /\ SameBut(work, work', s)
         /\ \A dos : Tally(work', s, dos) = Tally(work, s, dos) + One(a, dos) + One(b, dos)
  <1> DEFINE u == work[t]
             A == Step(a, s)
             B == Step(b, s)
  <1>1. A \in StepSet /\ B \in StepSet
    BY DEF Step, StepSet
  <1>2. \A dos : /\ Hit(A, s, dos) = One(a, dos) /\ Hit(B, s, dos) = One(b, dos)
    BY HitIsOne
  <1>3. \A r \in Sessions \ {s} : \A dos :
          /\ Hit(A, r, dos) = 0 /\ Hit(B, r, dos) = 0
    BY HitsNoOther
  <1>4. \A r, dos : Tally(work, r, dos) \in Nat
    BY StepsInFinite
  <1>6. Put(work, t, u) = work /\ u = <<>>
    BY DEF Put, Stacks, Begins
  <1>5. u \in Seq(StepSet)
    BY DEF Stacks
  <1>7. work' = Put(work, t, u \o <<A, B>>)
    BY <1>6 DEF Put, Begins
  <1>8. \A r, dos : Tally(Put(work, t, u), r, dos) = Tally(work, r, dos)
    BY <1>6
  <1> HIDE DEF u, A, B
  <1>9. work' \in Stacks /\
          \A r, dos : Tally(work', r, dos) = Tally(work, r, dos) + Hit(A, r, dos)
            + Hit(B, r, dos)
    <2>1. work' \in Stacks /\
            \A r, dos : Tally(work', r, dos) = Tally(Put(work, t, u), r, dos)
              + Hit(A, r, dos) + Hit(B, r, dos)
      BY <1>1, <1>7, <1>5, TallyPut2
    <2>2. QED
      BY <2>1, <1>8
  <1>10. SameBut(work, work', s)
    BY <1>3, <1>4, <1>9 DEF SameBut
  <1>11. \A dos : Tally(work', s, dos) = Tally(work, s, dos) + One(a, dos) + One(b, dos)
    BY <1>2, <1>9
  <1>12. QED
    BY <1>9, <1>10, <1>11

LEMMA FreshThree ==
  ASSUME work \in Stacks, NEW t \in IoThreads, NEW s \in Sessions,
         NEW a \in Steps, NEW b \in Steps, NEW c \in Steps,
         Begins(t, <<Step(a, s), Step(b, s), Step(c, s)>>)
  PROVE  /\ work' \in Stacks /\ SameBut(work, work', s)
         /\ \A dos : Tally(work', s, dos) = Tally(work, s, dos) + One(a, dos) + One(b, dos)
              + One(c, dos)
  <1> DEFINE u == work[t]
             A == Step(a, s)
             B == Step(b, s)
             C == Step(c, s)
  <1>1. A \in StepSet /\ B \in StepSet /\ C \in StepSet
    BY DEF Step, StepSet
  <1>2. \A dos : /\ Hit(A, s, dos) = One(a, dos) /\ Hit(B, s, dos) = One(b, dos)
                 /\ Hit(C, s, dos) = One(c, dos)
    BY HitIsOne
  <1>3. \A r \in Sessions \ {s} : \A dos :
          /\ Hit(A, r, dos) = 0 /\ Hit(B, r, dos) = 0
          /\ Hit(C, r, dos) = 0
    BY HitsNoOther
  <1>4. \A r, dos : Tally(work, r, dos) \in Nat
    BY StepsInFinite
  <1>6. Put(work, t, u) = work /\ u = <<>>
    BY DEF Put, Stacks, Begins
  <1>5. u \in Seq(StepSet)
    BY DEF Stacks
  <1>7. work' = Put(work, t, u \o <<A, B, C>>)
    BY <1>6 DEF Put, Begins
  <1>8. \A r, dos : Tally(Put(work, t, u), r, dos) = Tally(work, r, dos)
    BY <1>6
  <1> HIDE DEF u, A, B, C
  <1>9. work' \in Stacks /\
          \A r, dos : Tally(work', r, dos) = Tally(work, r, dos) + Hit(A, r, dos)
            + Hit(B, r, dos) + Hit(C, r, dos)
    <2>1. work' \in Stacks /\
            \A r, dos : Tally(work', r, dos) = Tally(Put(work, t, u), r, dos)
              + Hit(A, r, dos) + Hit(B, r, dos) + Hit(C, r, dos)
      BY <1>1, <1>7, <1>5, TallyPut3
    <2>2. QED
      BY <2>1, <1>8
  <1>10. SameBut(work, work', s)
    BY <1>3, <1>4, <1>9 DEF SameBut
  <1>11. \A dos : Tally(work', s, dos) = Tally(work, s, dos) + One(a, dos) + One(b, dos)
           + One(c, dos)
    BY <1>2, <1>9
  <1>12. QED
    BY <1>9, <1>10, <1>11

LEMMA GainsSteps1 ==
  ASSUME work \in Stacks, NEW t \in IoThreads, NEW s \in Sessions, NEW a \in Steps,
         Begins(t, <<Step(a, s)>>)
  PROVE  work' \in Stacks /\ SameBut(work, work', s) /\ Gains1(work, work', s, a)
  <1>1. /\ work' \in Stacks /\ SameBut(work, work', s)
        /\ \A dos : Tally(work', s, dos) = Tally(work, s, dos) + One(a, dos)
    BY FreshOne
  <1>2. \A step, dos : One(step, dos) \in Nat /\ Tally(work, s, dos) \in Nat
    BY StepsInFinite DEF One
  <1>3. QED
    BY <1>1, <1>2 DEF Moves, Gains1

LEMMA GainsSteps2 ==
  ASSUME work \in Stacks, NEW t \in IoThreads, NEW s \in Sessions, NEW a \in Steps,
         NEW b \in Steps,
         Begins(t, <<Step(a, s), Step(b, s)>>)
  PROVE  work' \in Stacks /\ SameBut(work, work', s) /\ Gains2(work, work', s, a, b)
  <1>1. /\ work' \in Stacks /\ SameBut(work, work', s)
        /\ \A dos : Tally(work', s, dos) = Tally(work, s, dos) + One(a, dos) + One(b, dos)
    BY FreshTwo
  <1>2. \A step, dos : One(step, dos) \in Nat /\ Tally(work, s, dos) \in Nat
    BY StepsInFinite DEF One
  <1>3. QED
    BY <1>1, <1>2 DEF Moves, Gains2

LEMMA GainsSteps3 ==
  ASSUME work \in Stacks, NEW t \in IoThreads, NEW s \in Sessions, NEW a \in Steps,
         NEW b \in Steps, NEW c \in Steps,
         Begins(t, <<Step(a, s), Step(b, s), Step(c, s)>>)
  PROVE  work' \in Stacks /\ SameBut(work, work', s) /\ Gains3(work, work', s, a, b, c)
  <1>1. /\ work' \in Stacks /\ SameBut(work, work', s)
        /\ \A dos : Tally(work', s, dos) = Tally(work, s, dos) + One(a, dos) + One(b, dos)
             + One(c, dos)
    BY FreshThree
  <1>2. \A step, dos : One(step, dos) \in Nat /\ Tally(work, s, dos) \in Nat
    BY StepsInFinite DEF One
  <1>3. QED
    BY <1>1, <1>2 DEF Moves, Gains3

(* The numbers of a session fit, as far as Good says. *)
FitsIn(x, w, f, s) ==
  Fits(Issue(x), x.mRefCount, PendingSum(x.pending), Tally(w, s, Deletions),
       x.mConnected, Open(x), x.pending["ACCEPT"], x.pending["DISCONNECT"],
       x.pending["RECV_ZERO"], x.pending["RECV"],
       Tally(w, s, Claiming), Tally(w, s, {"accept"}), Tally(w, s, ReceiveSteps),
       Tally(w, s, {"preRecv"}), Tally(w, s, {"disconnect"}),
       Pooled(f, s) + Tally(w, s, Returning))

(* The typed numbers of a session that is good. *)
LEMMA GoodFits ==
  ASSUME NEW x \in SessionRec, NEW w \in Stacks, NEW f \in Seq(Sessions), NEW s,
         GoodIn(x, w, f, s)
  PROVE  FitsIn(x, w, f, s)
  BY NumbersOf DEF GoodIn, Fits, FitsIn

(* What a step has to show, when it moves the counts of session s so. *)
FitAfter(y, w, f, s, del, clm, acc, rcv, pre, dis, ret) ==
  Fit(Issue(y), y.mRefCount, PendingSum(y.pending), Tally(w, s, Deletions) + del,
      y.mConnected, Open(y), y.pending["ACCEPT"], y.pending["DISCONNECT"],
      y.pending["RECV_ZERO"], y.pending["RECV"],
      Tally(w, s, Claiming) + clm, Tally(w, s, {"accept"}) + acc,
      Tally(w, s, ReceiveSteps) + rcv, Tally(w, s, {"preRecv"}) + pre,
      Tally(w, s, {"disconnect"}) + dis, (Pooled(f, s) + Tally(w, s, Returning)) + ret)

(* The core of the proof: a step that touches one session, moves its counts as
   given, and fits the moved counts, keeps the invariant of all sessions. *)
LEMMA SessionStep ==
  ASSUME TypeOK, SessionsInv, Running, Sound' => Sound, NEW s \in Sessions,
         mFreeSessionList' = mFreeSessionList,
         \A r \in Sessions \ {s} : session'[r] = session[r],
         work' \in Stacks, SameBut(work, work', s),
         NEW del, NEW clm, NEW acc, NEW rcv, NEW pre, NEW dis, NEW ret \in Int, NEW snd,
         Moves(work, work', s, del, clm, acc, rcv, pre, dis, ret, snd),
         OneSend(session[s], Tally(work, s, Sending))
           => OneSend(session'[s], Tally(work, s, Sending) + snd),
         Sound' /\ FitsIn(session[s], work, mFreeSessionList, s)
           => FitAfter(session'[s], work, mFreeSessionList, s, del, clm, acc, rcv, pre, dis,
             ret)
  PROVE  SessionsInv'
  <1>1. OneSendIn(session'[s], work', s)
    BY DEF SessionsInv, OneSendIn, Moves
  <1>2. ASSUME Sound'
        PROVE  GoodIn(session'[s], work', mFreeSessionList, s)
    <2>1. FitsIn(session[s], work, mFreeSessionList, s)
      BY <1>2, Typed, GoodFits DEF SessionsInv, SessionGood
    <2>2. FitAfter(session'[s], work, mFreeSessionList, s, del, clm, acc, rcv, pre, dis, ret)
      BY <1>2, <2>1
    <2>3. Pooled(mFreeSessionList, s) \in Nat /\ Tally(work, s, Returning) \in Nat
      BY Typed, Tallies
    <2>4. (Pooled(mFreeSessionList, s) + Tally(work, s, Returning)) + ret
            = Pooled(mFreeSessionList, s) + (Tally(work, s, Returning) + ret)
      BY <2>3
    <2>5. QED
      BY <2>2, <2>4 DEF FitAfter, GoodIn, Moves
  <1>3. QED
    BY <1>1, <1>2, OnlyOneSession

-----------------------------------------------------------------------------
(* What arithmetic needs to know of the counts of session s. *)
Counts(s) ==
  /\ \A dos : /\ Tally(work, s, dos) \in Nat
              /\ Tally(work, s, dos) + 0 = Tally(work, s, dos)
              /\ Tally(work, s, dos) + (-1) = Tally(work, s, dos) - 1
  /\ LET h == Pooled(mFreeSessionList, s) + Tally(work, s, Returning)
     IN  h \in Nat /\ h + 0 = h /\ h + (-1) = h - 1

LEMMA Counted ==
  ASSUME TypeOK, NEW s \in Sessions
  PROVE  Counts(s)
  <1>1. \A dos : Tally(work, s, dos) \in Nat
    BY Typed, Tallies
  <1>2. Pooled(mFreeSessionList, s) + Tally(work, s, Returning) \in Nat
    BY <1>1, Typed, Tallies
  <1>3. QED
    BY <1>1, <1>2 DEF Counts

(* A completion is taken from the port. *)
LEMMA TakenFromPort ==
  ASSUME TypeOK, NEW s \in Sessions, NEW io \in IoTypes, session' = Taken(s, io)
  PROVE  /\ \A r \in Sessions \ {s} : session'[r] = session[r]
         /\ Dequeued(session[s], session'[s], io)
  <1>1. /\ session'[s] = [session[s] EXCEPT !.pending[io] = @ - 1]
        /\ \A r \in Sessions \ {s} : session'[r] = session[r]
    BY DEF Taken, TypeOK
  <1>2. session[s] \in SessionRec
    BY Typed
  <1>3. QED
    BY <1>1, <1>2, TakenNumbers

(* What Dequeue does, and leaves alone. *)
LEMMA FromPort ==
  ASSUME TypeOK, NEW t \in IoThreads, NEW s \in Sessions, NEW io \in IoTypes, NEW steps,
         Dequeue(t, s, io, steps)
  PROVE  /\ Running /\ session[s].pending[io] >= 1
         /\ Begins(t, <<Step("deleteContext", s)>> \o steps)
         /\ mFreeSessionList' = mFreeSessionList /\ (Sound' => Sound)
  <1>1. session[s].pending[io] >= 1
    <2>1. session[s].pending[io] \in Nat /\ session[s].pending[io] > 0
      BY Typed DEF Numbers, Dequeue
    <2>2. QED
      BY <2>1
  <1>2. Running /\ Begins(t, <<Step("deleteContext", s)>> \o steps)
    BY DEF Dequeue, AtPort, Begins
  <1>3. mFreeSessionList' = mFreeSessionList /\ (Sound' => Sound)
    BY DEF Dequeue, managerVars, Sound, Running
  <1>4. QED
    BY <1>1, <1>2, <1>3

(* The listed sequences a thread may start with, or continue with. *)
LEMMA Listed ==
  ASSUME NEW S, NEW z \in Seq(S)
  PROVE  /\ Len(z) = 2 => z = <<z[1], z[2]>>
         /\ Len(z) = 3 => z = <<z[1], z[2], z[3]>>
  <1>1. z = [i \in 1 .. Len(z) |-> z[i]]
    OBVIOUS
  <1>2. ASSUME Len(z) = 2
        PROVE  z = <<z[1], z[2]>>
    <2>1. <<z[1], z[2]>> = [i \in 1 .. 2 |-> <<z[1], z[2]>>[i]]
      OBVIOUS
    <2>2. \A i \in 1 .. 2 : <<z[1], z[2]>>[i] = z[i]
      OBVIOUS
    <2>3. QED
      BY <1>1, <1>2, <2>1, <2>2
  <1>3. ASSUME Len(z) = 3
        PROVE  z = <<z[1], z[2], z[3]>>
    <2>1. <<z[1], z[2], z[3]>> = [i \in 1 .. 3 |-> <<z[1], z[2], z[3]>>[i]]
      OBVIOUS
    <2>2. \A i \in 1 .. 3 : <<z[1], z[2], z[3]>>[i] = z[i]
      OBVIOUS
    <2>3. QED
      BY <1>1, <1>3, <2>1, <2>2
  <1>4. QED
    BY <1>2, <1>3

LEMMA Joined ==
  ASSUME NEW S, NEW a \in S, NEW b \in S, NEW c \in S
  PROVE  <<a>> \o <<>> = <<a>> /\ <<a>> \o <<b>> = <<a, b>> /\ <<a>> \o <<b, c>> = <<a, b, c>>
  <1>1. \A u \in Seq(S) : /\ u \o <<>> = u /\ u \o <<b>> = Append(u, b)
                          /\ u \o <<b, c>> = Append(Append(u, b), c)
    OBVIOUS
  <1>2. <<a>> \in Seq(S)
    OBVIOUS
  <1>3. Append(<<a>>, b) = <<a, b>>
    <2> DEFINE z == Append(<<a>>, b)
    <2>1. z \in Seq(S) /\ Len(z) = 2 /\ z[1] = a /\ z[2] = b
      OBVIOUS
    <2> HIDE DEF z
    <2>2. z = <<a, b>>
      BY <2>1, Listed
    <2>3. QED
      BY <2>2 DEF z
  <1>4. Append(<<a, b>>, c) = <<a, b, c>>
    <2> DEFINE z == Append(<<a, b>>, c)
    <2>1. z \in Seq(S) /\ Len(z) = 3 /\ z[1] = a /\ z[2] = b /\ z[3] = c
      OBVIOUS
    <2> HIDE DEF z
    <2>2. z = <<a, b, c>>
      BY <2>1, Listed
    <2>3. QED
      BY <2>2 DEF z
  <1>5. QED
    BY <1>1, <1>2, <1>3, <1>4

LEMMA JoinedSteps ==
  \A a, b, c :
    <<a>> \o <<>> = <<a>> /\ <<a>> \o <<b>> = <<a, b>> /\ <<a>> \o <<b, c>> = <<a, b, c>>
  <1>1. ASSUME NEW a, NEW b, NEW c
        PROVE  <<a>> \o <<>> = <<a>> /\ <<a>> \o <<b>> = <<a, b>> /\ <<a>> \o <<b, c>>
               = <<a, b, c>>
    <2> DEFINE S == {a, b, c}
    <2>1. a \in S /\ b \in S /\ c \in S
      OBVIOUS
    <2> HIDE DEF S
    <2>2. QED
      BY <2>1, Joined
  <1>2. QED
    BY <1>1

(* The three ends of a receive step. *)
OnFalse(s, do) == IF do = "preRecv" THEN <<>> ELSE <<Step("disconnect", s)>>

NotConnected(t, s, do) ==
  session[s].mConnected = 0 /\ Done(t, OnFalse(s, do)) /\ session' = session

ReceivePosted(t, s, do) ==
  /\ Done(t, <<>>)
  /\ session' = [session EXCEPT ![s] =
       WithContext(@, IF do = "postRecvOrClose" THEN "RECV" ELSE "RECV_ZERO")]

ReceiveFailed(t, s, do) ==
  /\ session[s].mConnected = 1
  /\ session[s].socket # "open" \/ MayFail(RecvCall(do))
  /\ session' = [session EXCEPT ![s] = WithFailedContext(@)]
  /\ Done(t, OnFalse(s, do) \o <<Step("releaseNew", s)>>)

(* The three ends of Receive. *)
LEMMA ReceiveEnds ==
  ASSUME NEW t, NEW s, NEW do, Receive(t, s, do)
  PROVE  /\ Ready(t, do, s)
         /\ NotConnected(t, s, do) \/ ReceivePosted(t, s, do) \/ ReceiveFailed(t, s, do)
  BY Zenon DEF Receive, NotConnected, ReceivePosted, ReceiveFailed, OnFalse

(* A context was constructed, but never came to be with the kernel. *)
Referenced(x, y) ==
  /\ y.mRefCount = x.mRefCount + 1 /\ y.pending = x.pending
  /\ y.mConnected = x.mConnected /\ y.mSendPendingCount = x.mSendPendingCount
  /\ Open(y) = Open(x) /\ Issue(y) = Issue(x)

LEMMA FailedContextNumbers ==
  ASSUME NEW x \in SessionRec, NEW y, y = WithFailedContext(x)
  PROVE  Referenced(x, y)
  <1>1. /\ y.mRefCount = x.mRefCount + 1 /\ y.pending = x.pending
        /\ y.mConnected = x.mConnected /\ y.mSendPendingCount = x.mSendPendingCount
        /\ y.socket = x.socket /\ y.issued = x.issued
    BY DEF WithFailedContext, SessionRec
  <1>2. QED
    BY <1>1 DEF Referenced, Open, Issue

LEMMA JoinedEmpty == \A a : <<>> \o <<a>> = <<a>>
  <1>1. ASSUME NEW a
        PROVE  <<>> \o <<a>> = <<a>>
    <2>1. <<a>> \in Seq({a})
      OBVIOUS
    <2>2. \A u \in Seq({a}) : <<>> \o u = u
      OBVIOUS
    <2>3. QED
      BY <2>1, <2>2
  <1>2. QED
    BY <1>1

(* The steps of the threads keep what holds of the sessions. *)
LEMMA RequestLoadKeeps ==
  ASSUME TypeOK, SessionsInv, NEW t \in IoThreads, NEW s \in Sessions, StackOK(t),
         RequestLoad(t, s)
  PROVE  SessionsInv'
  <1> DEFINE x == session[s]
             y == session'[s]
  <1>1. work \in Stacks /\ x \in SessionRec /\ Numbers(x)
    BY Typed
  <1>2. Ready(t, "load", s) /\ Done(t, <<>>)
    BY DEF RequestLoad
  <1>3. y = WithContext(x, "DB") /\ \A r \in Sessions \ {s} : session'[r] = session[r]
    BY DEF RequestLoad, TypeOK
  <1>4. "DB" \in IoTypes
    BY DEF IoTypes
  <1>5. Posted(x, y, "DB")
    BY <1>1, <1>3, <1>4, NewContextNumbers
  <1>8. Counts(s)
    BY Counted
  <1>6. /\ work' \in Stacks /\ SameBut(work, work', s)
        /\ Moves(work, work', s, 0, 0, 0, 0, 0, 0, 0, 0)
    <2>1. work' \in Stacks /\ SameBut(work, work', s) /\ Loses(work, work', s, "load")
      BY <1>1, <1>2, LosesStep
    <2>2. Row("load", 0, 0, 0, 0, 0, 0, 0, 0)
      BY Rows
    <2>3. QED
      BY <2>1, <2>2 DEF Loses, Row
  <1>7. Tally(work, s, Deletions) >= 1
    BY <1>1, <1>2, HandlingIsHeld DEF Handling
  <1> HIDE DEF x, y
  <1>9. ASSUME OneSend(x, Tally(work, s, Sending))
        PROVE  OneSend(y, Tally(work, s, Sending) + 0)
    BY <1>5, <1>8, <1>9 DEF OneSend, Posted, Counts, IoTypes
  <1>10. ASSUME FitsIn(x, work, mFreeSessionList, s)
         PROVE  FitAfter(y, work, mFreeSessionList, s, 0, 0, 0, 0, 0, 0, 0)
    BY <1>5, <1>7, <1>8, <1>10, FitNewContext DEF FitsIn, FitAfter, Posted, Counts, IoTypes
  <1>11. QED
    BY <1>3, <1>6, <1>9, <1>10, SessionStep DEF RequestLoad, managerVars, Ready, Sound,
       Running, x, y
(* The session of a DisconnectEx that is under way, or that failed. *)
Disconnecting(x) ==
  [WithContext([x EXCEPT !.mConnected = 0], "DISCONNECT") EXCEPT !.socket = "closing"]

DisconnectFailed(x) == WithFailedContext([x EXCEPT !.mConnected = 0])

(* What DisconnectRequest, FlushSend and SessionReset do to the numbers. *)
LEMMA DisconnectingNumbers ==
  ASSUME NEW x \in SessionRec, NEW y, y = Disconnecting(x)
  PROVE  /\ y.mRefCount = x.mRefCount + 1 /\ PendingSum(y.pending) = PendingSum(x.pending) + 1
         /\ y.pending["DISCONNECT"] = x.pending["DISCONNECT"] + 1
         /\ \A io \in IoTypes \ {"DISCONNECT"} : y.pending[io] = x.pending[io]
         /\ y.mConnected = 0 /\ y.mSendPendingCount = x.mSendPendingCount
         /\ Open(y) = 0 /\ Issue(y) = Issue(x)
  <1> DEFINE c == [x EXCEPT !.mConnected = 0]
             d == WithContext(c, "DISCONNECT")
  <1>1. /\ c \in SessionRec /\ c.mRefCount = x.mRefCount /\ c.pending = x.pending
        /\ c.mConnected = 0 /\ c.mSendPendingCount = x.mSendPendingCount
        /\ c.issued = x.issued
    BY DEF SessionRec
  <1>2. "DISCONNECT" \in IoTypes
    BY DEF IoTypes
  <1> HIDE DEF c
  <1>3. d \in SessionRec /\ Posted(c, d, "DISCONNECT")
    BY <1>1, <1>2, NewContextNumbers
  <1>4. y = [d EXCEPT !.socket = "closing"]
    BY DEF Disconnecting, c
  <1> HIDE DEF d
  <1>5. /\ y.mRefCount = d.mRefCount /\ y.pending = d.pending /\ y.socket = "closing"
        /\ y.mConnected = d.mConnected /\ y.mSendPendingCount = d.mSendPendingCount
        /\ y.issued = d.issued
    BY <1>3, <1>4 DEF SessionRec
  <1>6. Open(y) = 0 /\ Issue(y) = Issue(d) /\ Issue(c) = Issue(x)
    BY <1>1, <1>5 DEF Open, Issue
  <1>7. QED
    BY <1>1, <1>3, <1>5, <1>6 DEF Posted

LEMMA DisconnectFailedNumbers ==
  ASSUME NEW x \in SessionRec, NEW y, y = DisconnectFailed(x)
  PROVE  /\ y.mRefCount = x.mRefCount + 1 /\ y.pending = x.pending
         /\ y.mConnected = 0 /\ y.mSendPendingCount = x.mSendPendingCount
         /\ Open(y) = Open(x) /\ Issue(y) = Issue(x)
  <1>1. /\ y.mRefCount = x.mRefCount + 1 /\ y.pending = x.pending
        /\ y.mConnected = 0 /\ y.mSendPendingCount = x.mSendPendingCount
        /\ y.socket = x.socket /\ y.issued = x.issued
    BY DEF DisconnectFailed, WithFailedContext, SessionRec
  <1>2. QED
    BY <1>1 DEF Open, Issue

(* The session after WSASend took its n oldest replies, or refused them. *)
LEMMA FlushIssueNumbers ==
  ASSUME NEW x \in SessionRec, NEW y, \E n \in Nat : y = WithSend(x, n)
  PROVE  /\ y.mRefCount = x.mRefCount + 1 /\ PendingSum(y.pending) = PendingSum(x.pending) + 1
         /\ y.pending["SEND"] = x.pending["SEND"] + 1
         /\ \A io \in IoTypes \ {"SEND"} : y.pending[io] = x.pending[io]
         /\ y.mConnected = x.mConnected /\ y.mSendPendingCount = x.mSendPendingCount + 1
         /\ Open(y) = Open(x) /\ Issue(y) = Issue(x)
  <1> DEFINE d == WithContext(x, "SEND")
  <1>1. "SEND" \in IoTypes
    BY DEF IoTypes
  <1>2. d \in SessionRec /\ Posted(x, d, "SEND")
    BY <1>1, NewContextNumbers
  <1>3. PICK n \in Nat : y = [d EXCEPT !.mSendPendingCount = @ + 1, !.sendLen = n]
    BY DEF WithSend
  <1> HIDE DEF d
  <1>4. /\ y.mRefCount = d.mRefCount /\ y.pending = d.pending /\ y.socket = d.socket
        /\ y.mConnected = d.mConnected /\ y.mSendPendingCount = d.mSendPendingCount + 1
        /\ y.issued = d.issued
    BY <1>2, <1>3 DEF SessionRec
  <1>5. Open(y) = Open(d) /\ Issue(y) = Issue(d)
    BY <1>4 DEF Open, Issue
  <1>6. QED
    BY <1>2, <1>4, <1>5 DEF Posted

LEMMA IssuedSend ==
  ASSUME TypeOK, NEW t \in IoThreads, NEW s \in Sessions, FlushIssue(t, s)
  PROVE  /\ \E n \in Nat : session'[s] = WithSend(session[s], n)
         /\ \A r \in Sessions \ {s} : session'[r] = session[r]
  <1>1. session[s].stored \in Nat
    BY DEF TypeOK
  <1>2. PICK n \in 1 .. session[s].stored :
          session' = [session EXCEPT ![s] = WithSend(session[s], n)]
    BY DEF FlushIssue
  <1>3. n \in Nat
    BY <1>1
  <1>4. QED
    BY <1>2, <1>3 DEF TypeOK

LEMMA FlushFailedNumbers ==
  ASSUME NEW x \in SessionRec, NEW t \in IoThreads,
         NEW y, y = [WithFailedContext(x) EXCEPT !.mSendBufferLock = t]
  PROVE  Referenced(x, y)
  <1>1. /\ y.mRefCount = x.mRefCount + 1 /\ y.pending = x.pending
        /\ y.mConnected = x.mConnected /\ y.mSendPendingCount = x.mSendPendingCount
        /\ y.socket = x.socket /\ y.issued = x.issued
    BY DEF WithFailedContext, SessionRec
  <1>2. QED
    BY <1>1 DEF Referenced, Open, Issue

(* SessionReset works on a session that is on its way to the pool. *)
LEMMA ResetIsReturning ==
  ASSUME TypeOK, work \in Stacks, NEW t \in IoThreads, NEW s \in Sessions, StackOK(t),
         Ready(t, "reset", s)
  PROVE  Pooled(mFreeSessionList, s) + Tally(work, s, Returning) >= 1
  <1> DEFINE n == Len(work[t])
  <1>1. work[t] \in Seq(StepSet) /\ work[t] # <<>> /\ work[t][n] = Step("reset", s)
    BY DEF Ready, Stacks
  <1>2. n \in DOMAIN work[t] /\ n \in Nat /\ DOMAIN work[t] = 1 .. n
    BY <1>1
  <1>3. work[t][n].do = "reset" /\ work[t][n].s = s
    BY <1>1 DEF Step
  <1>4. n > 1 /\ work[t][n - 1] = Step("resetSend", s)
    BY <1>2, <1>3 DEF StackOK, StackShape
  <1>5. n - 1 \in DOMAIN work[t]
    BY <1>2, <1>4
  <1>6. work[t][n - 1].do \in Returning /\ work[t][n - 1].s = s
    BY <1>4 DEF Step, Returning
  <1>7. Tally(work, s, Returning) >= 1
    BY <1>5, <1>6, TallyPositive
  <1>8. Tally(work, s, Returning) \in Nat /\ Pooled(mFreeSessionList, s) \in Nat
    BY Typed, Tallies
  <1>9. QED
    BY <1>7, <1>8

(* The sums the counts need. *)
LEMMA SmallSums ==
  /\ 0 + 0 + 0 + 0 - 0 = 0 /\ 0 + 0 + 0 + 1 - 0 = 1 /\ 0 + 0 + 0 = 0 /\ 0 + 0 + 1 + 0 - 0
       = 1 /\ 0 + 0 + 1 = 1
  /\ 0 + 0 - 0 = 0 /\ 0 + 0 - 1 = -1 /\ 0 + 0 = 0 /\ 0 + 1 + 0 = 1 /\ 0 + 1 - 0 = 1
  /\ 0 + 1 = 1 /\ 0 - 0 = 0 /\ 0 - 1 = -1 /\ 1 + 0 + 0 = 1 /\ 1 + 0 - 0 = 1
  /\ 1 + 0 - 1 = 0 /\ 1 + 0 = 1 /\ 1 - 0 = 1
  OBVIOUS

(* Every completion keeps the invariant of the sessions ... *)
LEMMA RecvZeroDequeuedKeeps ==
  ASSUME TypeOK, SessionsInv, NEW t \in IoThreads, NEW s \in Sessions, RecvZeroDequeued(t, s)
  PROVE  SessionsInv'
  <1> DEFINE x == session[s]
             y == session'[s]
  <1>1. "RECV_ZERO" \in IoTypes
          /\ Dequeue(t, s, "RECV_ZERO", <<Step("postRecvOrClose", s)>>) /\ session'
               = Taken(s, "RECV_ZERO")
    BY DEF RecvZeroDequeued, IoTypes
  <1>2. \A r \in Sessions \ {s} : session'[r] = session[r]
    BY <1>1, TakenFromPort
  <1>3. Dequeued(x, y, "RECV_ZERO")
    BY <1>1, TakenFromPort
  <1>4. Numbers(x) /\ x.pending["RECV_ZERO"] >= 1 /\ Counts(s)
    BY <1>1, Typed, FromPort, Counted
  <1>5. Running /\ mFreeSessionList' = mFreeSessionList /\ (Sound' => Sound)
    BY <1>1, FromPort
  <1>6. work \in Stacks /\ Begins(t, <<Step("deleteContext", s), Step("postRecvOrClose", s)>>)
    <2>1. Begins(t, <<Step("deleteContext", s)>> \o <<Step("postRecvOrClose", s)>>)
      BY <1>1, FromPort
    <2>2. <<Step("deleteContext", s)>> \o <<Step("postRecvOrClose", s)>>
            = <<Step("deleteContext", s), Step("postRecvOrClose", s)>>
      BY JoinedSteps
    <2>3. QED
      BY <2>1, <2>2, Typed
  <1>7. /\ work' \in Stacks /\ SameBut(work, work', s)
        /\ Moves(work, work', s, 1, 0, 0, 1, 0, 0, 0, 0)
    <2>1. "deleteContext" \in Steps /\ "postRecvOrClose" \in Steps
      BY DEF Steps, ReleaseSteps, ReceiveSteps
    <2>2. /\ work' \in Stacks /\ SameBut(work, work', s)
          /\ Gains2(work, work', s, "deleteContext", "postRecvOrClose")
      BY <1>6, <2>1, GainsSteps2
    <2>3. /\ Row("deleteContext", 1, 0, 0, 0, 0, 0, 0, 0)
          /\ Row("postRecvOrClose", 0, 0, 0, 1, 0, 0, 0, 0)
      BY Rows
    <2>4. Moves(work, work', s, 1 + 0, 0 + 0, 0 + 0, 0 + 1, 0 + 0, 0 + 0, 0 + 0, 0 + 0)
      BY <2>2, <2>3 DEF Gains2, Row
    <2>5. QED
      BY <2>2, <2>4, SmallSums, Zenon
  <1> HIDE DEF x, y
  <1>8. ASSUME OneSend(x, Tally(work, s, Sending))
        PROVE  OneSend(y, Tally(work, s, Sending) + 0)
    BY <1>3, <1>4, <1>8 DEF OneSend, Dequeued, Numbers, Counts, IoTypes
  <1>9. ASSUME FitsIn(x, work, mFreeSessionList, s)
        PROVE  FitAfter(y, work, mFreeSessionList, s, 1, 0, 0, 1, 0, 0, 0)
    BY <1>3, <1>4, <1>9, FitRecvZeroDequeued DEF FitsIn, FitAfter, Dequeued, Counts, IoTypes
  <1>10. QED
    BY <1>2, <1>5, <1>7, <1>8, <1>9, SessionStep DEF x, y

LEMMA RecvDequeuedKeeps ==
  ASSUME TypeOK, SessionsInv, NEW t \in IoThreads, NEW s \in Sessions, RecvDequeued(t, s)
  PROVE  SessionsInv'
  <1> DEFINE x == session[s]
             y == session'[s]
  <1>1. "RECV" \in IoTypes
          /\ Dequeue(t, s, "RECV", <<Step("preRecvOrClose", s), Step("move", s)>>)
               /\ session' = Taken(s, "RECV")
    BY DEF RecvDequeued, IoTypes
  <1>2. \A r \in Sessions \ {s} : session'[r] = session[r]
    BY <1>1, TakenFromPort
  <1>3. Dequeued(x, y, "RECV")
    BY <1>1, TakenFromPort
  <1>4. Numbers(x) /\ x.pending["RECV"] >= 1 /\ Counts(s)
    BY <1>1, Typed, FromPort, Counted
  <1>5. Running /\ mFreeSessionList' = mFreeSessionList /\ (Sound' => Sound)
    BY <1>1, FromPort
  <1>6. work \in Stacks
          /\ Begins(t, <<Step("deleteContext", s), Step("preRecvOrClose", s), Step("move", s)>>)
    <2>1. Begins(t, <<Step("deleteContext", s)>> \o <<Step("preRecvOrClose", s),
            Step("move", s)>>)
      BY <1>1, FromPort
    <2>2. <<Step("deleteContext", s)>> \o <<Step("preRecvOrClose", s), Step("move", s)>>
            = <<Step("deleteContext", s), Step("preRecvOrClose", s), Step("move", s)>>
      BY JoinedSteps
    <2>3. QED
      BY <2>1, <2>2, Typed
  <1>7. /\ work' \in Stacks /\ SameBut(work, work', s)
        /\ Moves(work, work', s, 1, 0, 0, 1, 0, 0, 0, 0)
    <2>1. "deleteContext" \in Steps /\ "preRecvOrClose" \in Steps /\ "move" \in Steps
      BY DEF Steps, ReleaseSteps, ReceiveSteps
    <2>2. /\ work' \in Stacks /\ SameBut(work, work', s)
          /\ Gains3(work, work', s, "deleteContext", "preRecvOrClose", "move")
      BY <1>6, <2>1, GainsSteps3
    <2>3. /\ Row("deleteContext", 1, 0, 0, 0, 0, 0, 0, 0)
          /\ Row("preRecvOrClose", 0, 0, 0, 1, 0, 0, 0, 0)
          /\ Row("move", 0, 0, 0, 0, 0, 0, 0, 0)
      BY Rows
    <2>4. Moves(work, work', s, 1 + 0 + 0, 0 + 0 + 0, 0 + 0 + 0, 0 + 1 + 0,
                0 + 0 + 0, 0 + 0 + 0, 0 + 0 + 0, 0 + 0 + 0)
      BY <2>2, <2>3 DEF Gains3, Row
    <2>5. QED
      BY <2>2, <2>4, SmallSums, Zenon
  <1> HIDE DEF x, y
  <1>8. ASSUME OneSend(x, Tally(work, s, Sending))
        PROVE  OneSend(y, Tally(work, s, Sending) + 0)
    BY <1>3, <1>4, <1>8 DEF OneSend, Dequeued, Numbers, Counts, IoTypes
  <1>9. ASSUME FitsIn(x, work, mFreeSessionList, s)
        PROVE  FitAfter(y, work, mFreeSessionList, s, 1, 0, 0, 1, 0, 0, 0)
    BY <1>3, <1>4, <1>9, FitRecvDequeued DEF FitsIn, FitAfter, Dequeued, Counts, IoTypes
  <1>10. QED
    BY <1>2, <1>5, <1>7, <1>8, <1>9, SessionStep DEF x, y

LEMMA RecvFailedKeeps ==
  ASSUME TypeOK, SessionsInv, NEW t \in IoThreads, NEW s \in Sessions, RecvFailed(t, s)
  PROVE  SessionsInv'
  <1> DEFINE x == session[s]
             y == session'[s]
  <1>1. "RECV" \in IoTypes /\ Dequeue(t, s, "RECV", <<Step("disconnect", s)>>) /\ session'
          = Taken(s, "RECV")
    BY DEF RecvFailed, IoTypes
  <1>2. \A r \in Sessions \ {s} : session'[r] = session[r]
    BY <1>1, TakenFromPort
  <1>3. Dequeued(x, y, "RECV")
    BY <1>1, TakenFromPort
  <1>4. Numbers(x) /\ x.pending["RECV"] >= 1 /\ Counts(s)
    BY <1>1, Typed, FromPort, Counted
  <1>5. Running /\ mFreeSessionList' = mFreeSessionList /\ (Sound' => Sound)
    BY <1>1, FromPort
  <1>6. work \in Stacks /\ Begins(t, <<Step("deleteContext", s), Step("disconnect", s)>>)
    <2>1. Begins(t, <<Step("deleteContext", s)>> \o <<Step("disconnect", s)>>)
      BY <1>1, FromPort
    <2>2. <<Step("deleteContext", s)>> \o <<Step("disconnect", s)>>
            = <<Step("deleteContext", s), Step("disconnect", s)>>
      BY JoinedSteps
    <2>3. QED
      BY <2>1, <2>2, Typed
  <1>7. /\ work' \in Stacks /\ SameBut(work, work', s)
        /\ Moves(work, work', s, 1, 0, 0, 0, 0, 1, 0, 0)
    <2>1. "deleteContext" \in Steps /\ "disconnect" \in Steps
      BY DEF Steps, ReleaseSteps, ReceiveSteps
    <2>2. /\ work' \in Stacks /\ SameBut(work, work', s)
          /\ Gains2(work, work', s, "deleteContext", "disconnect")
      BY <1>6, <2>1, GainsSteps2
    <2>3. /\ Row("deleteContext", 1, 0, 0, 0, 0, 0, 0, 0)
          /\ Row("disconnect", 0, 0, 0, 0, 0, 1, 0, 0)
      BY Rows
    <2>4. Moves(work, work', s, 1 + 0, 0 + 0, 0 + 0, 0 + 0, 0 + 0, 0 + 1, 0 + 0, 0 + 0)
      BY <2>2, <2>3 DEF Gains2, Row
    <2>5. QED
      BY <2>2, <2>4, SmallSums, Zenon
  <1> HIDE DEF x, y
  <1>8. ASSUME OneSend(x, Tally(work, s, Sending))
        PROVE  OneSend(y, Tally(work, s, Sending) + 0)
    BY <1>3, <1>4, <1>8 DEF OneSend, Dequeued, Numbers, Counts, IoTypes
  <1>9. ASSUME FitsIn(x, work, mFreeSessionList, s)
        PROVE  FitAfter(y, work, mFreeSessionList, s, 1, 0, 0, 0, 0, 1, 0)
    BY <1>3, <1>4, <1>9, FitRecvFailed DEF FitsIn, FitAfter, Dequeued, Counts, IoTypes
  <1>10. QED
    BY <1>2, <1>5, <1>7, <1>8, <1>9, SessionStep DEF x, y

LEMMA SendFullKeeps ==
  ASSUME TypeOK, SessionsInv, NEW t \in IoThreads, NEW s \in Sessions, SendFull(t, s)
  PROVE  SessionsInv'
  <1> DEFINE x == session[s]
             y == session'[s]
  <1>1. "SEND" \in IoTypes /\ Dequeue(t, s, "SEND", <<Step("sendDone", s)>>) /\ session'
          = Taken(s, "SEND")
    BY DEF SendFull, SendDequeued, IoTypes
  <1>2. \A r \in Sessions \ {s} : session'[r] = session[r]
    BY <1>1, TakenFromPort
  <1>3. Dequeued(x, y, "SEND")
    BY <1>1, TakenFromPort
  <1>4. Numbers(x) /\ x.pending["SEND"] >= 1 /\ Counts(s)
    BY <1>1, Typed, FromPort, Counted
  <1>5. Running /\ mFreeSessionList' = mFreeSessionList /\ (Sound' => Sound)
    BY <1>1, FromPort
  <1>6. work \in Stacks /\ Begins(t, <<Step("deleteContext", s), Step("sendDone", s)>>)
    <2>1. Begins(t, <<Step("deleteContext", s)>> \o <<Step("sendDone", s)>>)
      BY <1>1, FromPort
    <2>2. <<Step("deleteContext", s)>> \o <<Step("sendDone", s)>>
            = <<Step("deleteContext", s), Step("sendDone", s)>>
      BY JoinedSteps
    <2>3. QED
      BY <2>1, <2>2, Typed
  <1>7. /\ work' \in Stacks /\ SameBut(work, work', s)
        /\ Moves(work, work', s, 1, 0, 0, 0, 0, 0, 0, 1)
    <2>1. "deleteContext" \in Steps /\ "sendDone" \in Steps
      BY DEF Steps, ReleaseSteps, ReceiveSteps
    <2>2. /\ work' \in Stacks /\ SameBut(work, work', s)
          /\ Gains2(work, work', s, "deleteContext", "sendDone")
      BY <1>6, <2>1, GainsSteps2
    <2>3. /\ Row("deleteContext", 1, 0, 0, 0, 0, 0, 0, 0)
          /\ Row("sendDone", 0, 0, 0, 0, 0, 0, 0, 1)
      BY Rows
    <2>4. Moves(work, work', s, 1 + 0, 0 + 0, 0 + 0, 0 + 0, 0 + 0, 0 + 0, 0 + 0, 0 + 1)
      BY <2>2, <2>3 DEF Gains2, Row
    <2>5. QED
      BY <2>2, <2>4, SmallSums, Zenon
  <1> HIDE DEF x, y
  <1>8. ASSUME OneSend(x, Tally(work, s, Sending))
        PROVE  OneSend(y, Tally(work, s, Sending) + 1)
    BY <1>3, <1>4, <1>8 DEF OneSend, Dequeued, Numbers, Counts, IoTypes
  <1>9. ASSUME FitsIn(x, work, mFreeSessionList, s)
        PROVE  FitAfter(y, work, mFreeSessionList, s, 1, 0, 0, 0, 0, 0, 0)
    BY <1>3, <1>4, <1>9, FitOtherDequeued DEF FitsIn, FitAfter, Dequeued, Counts, IoTypes
  <1>10. QED
    BY <1>2, <1>5, <1>7, <1>8, <1>9, SessionStep DEF x, y

LEMMA SendShortKeeps ==
  ASSUME TypeOK, SessionsInv, NEW t \in IoThreads, NEW s \in Sessions, SendShort(t, s)
  PROVE  SessionsInv'
  <1> DEFINE x == session[s]
             y == session'[s]
  <1>1. "SEND" \in IoTypes
          /\ Dequeue(t, s, "SEND", <<Step("disconnect", s), Step("sendShort", s)>>)
               /\ session' = Taken(s, "SEND")
    BY DEF SendShort, SendDequeued, IoTypes
  <1>2. \A r \in Sessions \ {s} : session'[r] = session[r]
    BY <1>1, TakenFromPort
  <1>3. Dequeued(x, y, "SEND")
    BY <1>1, TakenFromPort
  <1>4. Numbers(x) /\ x.pending["SEND"] >= 1 /\ Counts(s)
    BY <1>1, Typed, FromPort, Counted
  <1>5. Running /\ mFreeSessionList' = mFreeSessionList /\ (Sound' => Sound)
    BY <1>1, FromPort
  <1>6. work \in Stacks
          /\ Begins(t, <<Step("deleteContext", s), Step("disconnect", s),
               Step("sendShort", s)>>)
    <2>1. Begins(t, <<Step("deleteContext", s)>> \o <<Step("disconnect", s),
            Step("sendShort", s)>>)
      BY <1>1, FromPort
    <2>2. <<Step("deleteContext", s)>> \o <<Step("disconnect", s), Step("sendShort", s)>>
            = <<Step("deleteContext", s), Step("disconnect", s), Step("sendShort", s)>>
      BY JoinedSteps
    <2>3. QED
      BY <2>1, <2>2, Typed
  <1>7. /\ work' \in Stacks /\ SameBut(work, work', s)
        /\ Moves(work, work', s, 1, 0, 0, 0, 0, 1, 0, 1)
    <2>1. "deleteContext" \in Steps /\ "disconnect" \in Steps /\ "sendShort" \in Steps
      BY DEF Steps, ReleaseSteps, ReceiveSteps
    <2>2. /\ work' \in Stacks /\ SameBut(work, work', s)
          /\ Gains3(work, work', s, "deleteContext", "disconnect", "sendShort")
      BY <1>6, <2>1, GainsSteps3
    <2>3. /\ Row("deleteContext", 1, 0, 0, 0, 0, 0, 0, 0)
          /\ Row("disconnect", 0, 0, 0, 0, 0, 1, 0, 0)
          /\ Row("sendShort", 0, 0, 0, 0, 0, 0, 0, 1)
      BY Rows
    <2>4. Moves(work, work', s, 1 + 0 + 0, 0 + 0 + 0, 0 + 0 + 0, 0 + 0 + 0,
                0 + 0 + 0, 0 + 1 + 0, 0 + 0 + 0, 0 + 0 + 1)
      BY <2>2, <2>3 DEF Gains3, Row
    <2>5. QED
      BY <2>2, <2>4, SmallSums, Zenon
  <1> HIDE DEF x, y
  <1>8. ASSUME OneSend(x, Tally(work, s, Sending))
        PROVE  OneSend(y, Tally(work, s, Sending) + 1)
    BY <1>3, <1>4, <1>8 DEF OneSend, Dequeued, Numbers, Counts, IoTypes
  <1>9. ASSUME FitsIn(x, work, mFreeSessionList, s)
        PROVE  FitAfter(y, work, mFreeSessionList, s, 1, 0, 0, 0, 0, 1, 0)
    BY <1>3, <1>4, <1>9, FitOtherDequeued DEF FitsIn, FitAfter, Dequeued, Counts, IoTypes
  <1>10. QED
    BY <1>2, <1>5, <1>7, <1>8, <1>9, SessionStep DEF x, y

LEMMA SendFailedKeeps ==
  ASSUME TypeOK, SessionsInv, NEW t \in IoThreads, NEW s \in Sessions, SendFailed(t, s)
  PROVE  SessionsInv'
  <1> DEFINE x == session[s]
             y == session'[s]
  <1>1. "SEND" \in IoTypes /\ Dequeue(t, s, "SEND", <<Step("disconnect", s)>>) /\ session'
          = Taken(s, "SEND")
    BY DEF SendFailed, SendDequeued, IoTypes
  <1>2. \A r \in Sessions \ {s} : session'[r] = session[r]
    BY <1>1, TakenFromPort
  <1>3. Dequeued(x, y, "SEND")
    BY <1>1, TakenFromPort
  <1>4. Numbers(x) /\ x.pending["SEND"] >= 1 /\ Counts(s)
    BY <1>1, Typed, FromPort, Counted
  <1>5. Running /\ mFreeSessionList' = mFreeSessionList /\ (Sound' => Sound)
    BY <1>1, FromPort
  <1>6. work \in Stacks /\ Begins(t, <<Step("deleteContext", s), Step("disconnect", s)>>)
    <2>1. Begins(t, <<Step("deleteContext", s)>> \o <<Step("disconnect", s)>>)
      BY <1>1, FromPort
    <2>2. <<Step("deleteContext", s)>> \o <<Step("disconnect", s)>>
            = <<Step("deleteContext", s), Step("disconnect", s)>>
      BY JoinedSteps
    <2>3. QED
      BY <2>1, <2>2, Typed
  <1>7. /\ work' \in Stacks /\ SameBut(work, work', s)
        /\ Moves(work, work', s, 1, 0, 0, 0, 0, 1, 0, 0)
    <2>1. "deleteContext" \in Steps /\ "disconnect" \in Steps
      BY DEF Steps, ReleaseSteps, ReceiveSteps
    <2>2. /\ work' \in Stacks /\ SameBut(work, work', s)
          /\ Gains2(work, work', s, "deleteContext", "disconnect")
      BY <1>6, <2>1, GainsSteps2
    <2>3. /\ Row("deleteContext", 1, 0, 0, 0, 0, 0, 0, 0)
          /\ Row("disconnect", 0, 0, 0, 0, 0, 1, 0, 0)
      BY Rows
    <2>4. Moves(work, work', s, 1 + 0, 0 + 0, 0 + 0, 0 + 0, 0 + 0, 0 + 1, 0 + 0, 0 + 0)
      BY <2>2, <2>3 DEF Gains2, Row
    <2>5. QED
      BY <2>2, <2>4, SmallSums, Zenon
  <1> HIDE DEF x, y
  <1>8. ASSUME OneSend(x, Tally(work, s, Sending))
        PROVE  OneSend(y, Tally(work, s, Sending) + 0)
    BY <1>3, <1>4, <1>8 DEF OneSend, Dequeued, Numbers, Counts, IoTypes
  <1>9. ASSUME FitsIn(x, work, mFreeSessionList, s)
        PROVE  FitAfter(y, work, mFreeSessionList, s, 1, 0, 0, 0, 0, 1, 0)
    BY <1>3, <1>4, <1>9, FitOtherDequeued DEF FitsIn, FitAfter, Dequeued, Counts, IoTypes
  <1>10. QED
    BY <1>2, <1>5, <1>7, <1>8, <1>9, SessionStep DEF x, y

LEMMA DisconnectDequeuedKeeps ==
  ASSUME TypeOK, SessionsInv, NEW t \in IoThreads, NEW s \in Sessions, DisconnectDequeued(t, s)
  PROVE  SessionsInv'
  <1> DEFINE x == session[s]
             y == session'[s]
  <1>1. "DISCONNECT" \in IoTypes /\ Dequeue(t, s, "DISCONNECT", <<Step("releaseIssue", s)>>)
          /\ session' = Taken(s, "DISCONNECT")
    BY DEF DisconnectDequeued, IoTypes
  <1>2. \A r \in Sessions \ {s} : session'[r] = session[r]
    BY <1>1, TakenFromPort
  <1>3. Dequeued(x, y, "DISCONNECT")
    BY <1>1, TakenFromPort
  <1>4. Numbers(x) /\ x.pending["DISCONNECT"] >= 1 /\ Counts(s)
    BY <1>1, Typed, FromPort, Counted
  <1>5. Running /\ mFreeSessionList' = mFreeSessionList /\ (Sound' => Sound)
    BY <1>1, FromPort
  <1>6. work \in Stacks /\ Begins(t, <<Step("deleteContext", s), Step("releaseIssue", s)>>)
    <2>1. Begins(t, <<Step("deleteContext", s)>> \o <<Step("releaseIssue", s)>>)
      BY <1>1, FromPort
    <2>2. <<Step("deleteContext", s)>> \o <<Step("releaseIssue", s)>>
            = <<Step("deleteContext", s), Step("releaseIssue", s)>>
      BY JoinedSteps
    <2>3. QED
      BY <2>1, <2>2, Typed
  <1>7. /\ work' \in Stacks /\ SameBut(work, work', s)
        /\ Moves(work, work', s, 1, 1, 0, 0, 0, 0, 0, 0)
    <2>1. "deleteContext" \in Steps /\ "releaseIssue" \in Steps
      BY DEF Steps, ReleaseSteps, ReceiveSteps
    <2>2. /\ work' \in Stacks /\ SameBut(work, work', s)
          /\ Gains2(work, work', s, "deleteContext", "releaseIssue")
      BY <1>6, <2>1, GainsSteps2
    <2>3. /\ Row("deleteContext", 1, 0, 0, 0, 0, 0, 0, 0)
          /\ Row("releaseIssue", 0, 1, 0, 0, 0, 0, 0, 0)
      BY Rows
    <2>4. Moves(work, work', s, 1 + 0, 0 + 1, 0 + 0, 0 + 0, 0 + 0, 0 + 0, 0 + 0, 0 + 0)
      BY <2>2, <2>3 DEF Gains2, Row
    <2>5. QED
      BY <2>2, <2>4, SmallSums, Zenon
  <1> HIDE DEF x, y
  <1>8. ASSUME OneSend(x, Tally(work, s, Sending))
        PROVE  OneSend(y, Tally(work, s, Sending) + 0)
    BY <1>3, <1>4, <1>8 DEF OneSend, Dequeued, Numbers, Counts, IoTypes
  <1>9. ASSUME FitsIn(x, work, mFreeSessionList, s)
        PROVE  FitAfter(y, work, mFreeSessionList, s, 1, 1, 0, 0, 0, 0, 0)
    BY <1>3, <1>4, <1>9, FitDisconnectDequeued DEF FitsIn, FitAfter, Dequeued, Counts, IoTypes
  <1>10. QED
    BY <1>2, <1>5, <1>7, <1>8, <1>9, SessionStep DEF x, y

LEMMA DbResultDequeuedKeeps ==
  ASSUME TypeOK, SessionsInv, NEW t \in IoThreads, NEW s \in Sessions, DbResultDequeued(t, s)
  PROVE  SessionsInv'
  <1> DEFINE x == session[s]
             y == session'[s]
  <1>1. "DB" \in IoTypes /\ Dequeue(t, s, "DB", <<>>) /\ session' = Taken(s, "DB")
    BY DEF DbResultDequeued, IoTypes
  <1>2. \A r \in Sessions \ {s} : session'[r] = session[r]
    BY <1>1, TakenFromPort
  <1>3. Dequeued(x, y, "DB")
    BY <1>1, TakenFromPort
  <1>4. Numbers(x) /\ x.pending["DB"] >= 1 /\ Counts(s)
    BY <1>1, Typed, FromPort, Counted
  <1>5. Running /\ mFreeSessionList' = mFreeSessionList /\ (Sound' => Sound)
    BY <1>1, FromPort
  <1>6. work \in Stacks /\ Begins(t, <<Step("deleteContext", s)>>)
    <2>1. Begins(t, <<Step("deleteContext", s)>> \o <<>>)
      BY <1>1, FromPort
    <2>2. <<Step("deleteContext", s)>> \o <<>> = <<Step("deleteContext", s)>>
      BY JoinedSteps
    <2>3. QED
      BY <2>1, <2>2, Typed
  <1>7. /\ work' \in Stacks /\ SameBut(work, work', s)
        /\ Moves(work, work', s, 1, 0, 0, 0, 0, 0, 0, 0)
    <2>1. "deleteContext" \in Steps
      BY DEF Steps, ReleaseSteps, ReceiveSteps
    <2>2. work' \in Stacks /\ SameBut(work, work', s) /\ Gains1(work, work', s, "deleteContext")
      BY <1>6, <2>1, GainsSteps1
    <2>3. Row("deleteContext", 1, 0, 0, 0, 0, 0, 0, 0)
      BY Rows
    <2>4. Moves(work, work', s, 1, 0, 0, 0, 0, 0, 0, 0)
      BY <2>2, <2>3 DEF Gains1, Row
    <2>5. QED
      BY <2>2, <2>4, SmallSums, Zenon
  <1> HIDE DEF x, y
  <1>8. ASSUME OneSend(x, Tally(work, s, Sending))
        PROVE  OneSend(y, Tally(work, s, Sending) + 0)
    BY <1>3, <1>4, <1>8 DEF OneSend, Dequeued, Numbers, Counts, IoTypes
  <1>9. ASSUME FitsIn(x, work, mFreeSessionList, s)
        PROVE  FitAfter(y, work, mFreeSessionList, s, 1, 0, 0, 0, 0, 0, 0)
    BY <1>3, <1>4, <1>9, FitOtherDequeued DEF FitsIn, FitAfter, Dequeued, Counts, IoTypes
  <1>10. QED
    BY <1>2, <1>5, <1>7, <1>8, <1>9, SessionStep DEF x, y

(* How each branch of a handler moves the counts of its session: the name says
   which step is done and which ones follow. *)
LEMMA MovedPreRecv ==
  ASSUME work \in Stacks, NEW t \in IoThreads, NEW s \in Sessions,
         Ready(t, "preRecv", s), Done(t, <<>>)
  PROVE  /\ work' \in Stacks /\ SameBut(work, work', s)
         /\ Moves(work, work', s, 0, 0, 0, -1, -1, 0, 0, 0)
  <1>1. work' \in Stacks /\ SameBut(work, work', s) /\ Loses(work, work', s, "preRecv")
    BY LosesStep
  <1>2. Row("preRecv", 0, 0, 0, 1, 1, 0, 0, 0)
    BY Rows
  <1>3. QED
    BY <1>1, <1>2 DEF Loses, Row

LEMMA MovedPreRecvToReleaseNew ==
  ASSUME work \in Stacks, NEW t \in IoThreads, NEW s \in Sessions,
         Ready(t, "preRecv", s), Done(t, <<Step("releaseNew", s)>>)
  PROVE  /\ work' \in Stacks /\ SameBut(work, work', s)
         /\ Moves(work, work', s, 1, 0, 0, -1, -1, 0, 0, 0)
  <1>1. "releaseNew" \in Steps
    BY DEF Steps, ReleaseSteps, ReceiveSteps
  <1>2. /\ work' \in Stacks /\ SameBut(work, work', s)
        /\ Swaps1(work, work', s, "preRecv", "releaseNew")
    BY <1>1, SwapsSteps1
  <1>3. /\ Row("preRecv", 0, 0, 0, 1, 1, 0, 0, 0)
        /\ Row("releaseNew", 1, 0, 0, 0, 0, 0, 0, 0)
    BY Rows
  <1>4. Moves(work, work', s, 1 - 0, 0 - 0, 0 - 0, 0 - 1, 0 - 1, 0 - 0, 0 - 0, 0 - 0)
    BY <1>2, <1>3 DEF Swaps1, Row
  <1>5. QED
    BY <1>2, <1>4, SmallSums, Zenon

LEMMA MovedPreRecvOrCloseToDisconnect ==
  ASSUME work \in Stacks, NEW t \in IoThreads, NEW s \in Sessions,
         Ready(t, "preRecvOrClose", s), Done(t, <<Step("disconnect", s)>>)
  PROVE  /\ work' \in Stacks /\ SameBut(work, work', s)
         /\ Moves(work, work', s, 0, 0, 0, -1, 0, 1, 0, 0)
  <1>1. "disconnect" \in Steps
    BY DEF Steps, ReleaseSteps, ReceiveSteps
  <1>2. /\ work' \in Stacks /\ SameBut(work, work', s)
        /\ Swaps1(work, work', s, "preRecvOrClose", "disconnect")
    BY <1>1, SwapsSteps1
  <1>3. /\ Row("preRecvOrClose", 0, 0, 0, 1, 0, 0, 0, 0)
        /\ Row("disconnect", 0, 0, 0, 0, 0, 1, 0, 0)
    BY Rows
  <1>4. Moves(work, work', s, 0 - 0, 0 - 0, 0 - 0, 0 - 1, 0 - 0, 1 - 0, 0 - 0, 0 - 0)
    BY <1>2, <1>3 DEF Swaps1, Row
  <1>5. QED
    BY <1>2, <1>4, SmallSums, Zenon

LEMMA MovedPreRecvOrClose ==
  ASSUME work \in Stacks, NEW t \in IoThreads, NEW s \in Sessions,
         Ready(t, "preRecvOrClose", s), Done(t, <<>>)
  PROVE  /\ work' \in Stacks /\ SameBut(work, work', s)
         /\ Moves(work, work', s, 0, 0, 0, -1, 0, 0, 0, 0)
  <1>1. work' \in Stacks /\ SameBut(work, work', s) /\ Loses(work, work', s, "preRecvOrClose")
    BY LosesStep
  <1>2. Row("preRecvOrClose", 0, 0, 0, 1, 0, 0, 0, 0)
    BY Rows
  <1>3. QED
    BY <1>1, <1>2 DEF Loses, Row

LEMMA MovedPreRecvOrCloseToDisconnectReleaseNew ==
  ASSUME work \in Stacks, NEW t \in IoThreads, NEW s \in Sessions,
         Ready(t, "preRecvOrClose", s),
           Done(t, <<Step("disconnect", s), Step("releaseNew", s)>>)
  PROVE  /\ work' \in Stacks /\ SameBut(work, work', s)
         /\ Moves(work, work', s, 1, 0, 0, -1, 0, 1, 0, 0)
  <1>1. "disconnect" \in Steps /\ "releaseNew" \in Steps
    BY DEF Steps, ReleaseSteps, ReceiveSteps
  <1>2. /\ work' \in Stacks /\ SameBut(work, work', s)
        /\ Swaps2(work, work', s, "preRecvOrClose", "disconnect", "releaseNew")
    BY <1>1, SwapsSteps2
  <1>3. /\ Row("preRecvOrClose", 0, 0, 0, 1, 0, 0, 0, 0)
        /\ Row("disconnect", 0, 0, 0, 0, 0, 1, 0, 0)
        /\ Row("releaseNew", 1, 0, 0, 0, 0, 0, 0, 0)
    BY Rows
  <1>4. Moves(work, work', s, 0 + 1 - 0, 0 + 0 - 0, 0 + 0 - 0, 0 + 0 - 1,
              0 + 0 - 0, 1 + 0 - 0, 0 + 0 - 0, 0 + 0 - 0)
    BY <1>2, <1>3 DEF Swaps2, Row
  <1>5. QED
    BY <1>2, <1>4, SmallSums, Zenon

LEMMA MovedPostRecvOrCloseToDisconnect ==
  ASSUME work \in Stacks, NEW t \in IoThreads, NEW s \in Sessions,
         Ready(t, "postRecvOrClose", s), Done(t, <<Step("disconnect", s)>>)
  PROVE  /\ work' \in Stacks /\ SameBut(work, work', s)
         /\ Moves(work, work', s, 0, 0, 0, -1, 0, 1, 0, 0)
  <1>1. "disconnect" \in Steps
    BY DEF Steps, ReleaseSteps, ReceiveSteps
  <1>2. /\ work' \in Stacks /\ SameBut(work, work', s)
        /\ Swaps1(work, work', s, "postRecvOrClose", "disconnect")
    BY <1>1, SwapsSteps1
  <1>3. /\ Row("postRecvOrClose", 0, 0, 0, 1, 0, 0, 0, 0)
        /\ Row("disconnect", 0, 0, 0, 0, 0, 1, 0, 0)
    BY Rows
  <1>4. Moves(work, work', s, 0 - 0, 0 - 0, 0 - 0, 0 - 1, 0 - 0, 1 - 0, 0 - 0, 0 - 0)
    BY <1>2, <1>3 DEF Swaps1, Row
  <1>5. QED
    BY <1>2, <1>4, SmallSums, Zenon

LEMMA MovedPostRecvOrClose ==
  ASSUME work \in Stacks, NEW t \in IoThreads, NEW s \in Sessions,
         Ready(t, "postRecvOrClose", s), Done(t, <<>>)
  PROVE  /\ work' \in Stacks /\ SameBut(work, work', s)
         /\ Moves(work, work', s, 0, 0, 0, -1, 0, 0, 0, 0)
  <1>1. work' \in Stacks /\ SameBut(work, work', s) /\ Loses(work, work', s, "postRecvOrClose")
    BY LosesStep
  <1>2. Row("postRecvOrClose", 0, 0, 0, 1, 0, 0, 0, 0)
    BY Rows
  <1>3. QED
    BY <1>1, <1>2 DEF Loses, Row

LEMMA MovedPostRecvOrCloseToDisconnectReleaseNew ==
  ASSUME work \in Stacks, NEW t \in IoThreads, NEW s \in Sessions,
         Ready(t, "postRecvOrClose", s),
           Done(t, <<Step("disconnect", s), Step("releaseNew", s)>>)
  PROVE  /\ work' \in Stacks /\ SameBut(work, work', s)
         /\ Moves(work, work', s, 1, 0, 0, -1, 0, 1, 0, 0)
  <1>1. "disconnect" \in Steps /\ "releaseNew" \in Steps
    BY DEF Steps, ReleaseSteps, ReceiveSteps
  <1>2. /\ work' \in Stacks /\ SameBut(work, work', s)
        /\ Swaps2(work, work', s, "postRecvOrClose", "disconnect", "releaseNew")
    BY <1>1, SwapsSteps2
  <1>3. /\ Row("postRecvOrClose", 0, 0, 0, 1, 0, 0, 0, 0)
        /\ Row("disconnect", 0, 0, 0, 0, 0, 1, 0, 0)
        /\ Row("releaseNew", 1, 0, 0, 0, 0, 0, 0, 0)
    BY Rows
  <1>4. Moves(work, work', s, 0 + 1 - 0, 0 + 0 - 0, 0 + 0 - 0, 0 + 0 - 1,
              0 + 0 - 0, 1 + 0 - 0, 0 + 0 - 0, 0 + 0 - 0)
    BY <1>2, <1>3 DEF Swaps2, Row
  <1>5. QED
    BY <1>2, <1>4, SmallSums, Zenon

LEMMA MovedAcceptToLoadPreRecv ==
  ASSUME work \in Stacks, NEW t \in IoThreads, NEW s \in Sessions,
         Ready(t, "accept", s), Done(t, <<Step("load", s), Step("preRecv", s)>>)
  PROVE  /\ work' \in Stacks /\ SameBut(work, work', s)
         /\ Moves(work, work', s, 0, -1, -1, 1, 1, 0, 0, 0)
  <1>1. "load" \in Steps /\ "preRecv" \in Steps
    BY DEF Steps, ReleaseSteps, ReceiveSteps
  <1>2. /\ work' \in Stacks /\ SameBut(work, work', s)
        /\ Swaps2(work, work', s, "accept", "load", "preRecv")
    BY <1>1, SwapsSteps2
  <1>3. /\ Row("accept", 0, 1, 1, 0, 0, 0, 0, 0)
        /\ Row("load", 0, 0, 0, 0, 0, 0, 0, 0)
        /\ Row("preRecv", 0, 0, 0, 1, 1, 0, 0, 0)
    BY Rows
  <1>4. Moves(work, work', s, 0 + 0 - 0, 0 + 0 - 1, 0 + 0 - 1, 0 + 1 - 0,
              0 + 1 - 0, 0 + 0 - 0, 0 + 0 - 0, 0 + 0 - 0)
    BY <1>2, <1>3 DEF Swaps2, Row
  <1>5. QED
    BY <1>2, <1>4, SmallSums, Zenon

LEMMA MovedAcceptToDisconnect ==
  ASSUME work \in Stacks, NEW t \in IoThreads, NEW s \in Sessions,
         Ready(t, "accept", s), Done(t, <<Step("disconnect", s)>>)
  PROVE  /\ work' \in Stacks /\ SameBut(work, work', s)
         /\ Moves(work, work', s, 0, -1, -1, 0, 0, 1, 0, 0)
  <1>1. "disconnect" \in Steps
    BY DEF Steps, ReleaseSteps, ReceiveSteps
  <1>2. /\ work' \in Stacks /\ SameBut(work, work', s)
        /\ Swaps1(work, work', s, "accept", "disconnect")
    BY <1>1, SwapsSteps1
  <1>3. /\ Row("accept", 0, 1, 1, 0, 0, 0, 0, 0)
        /\ Row("disconnect", 0, 0, 0, 0, 0, 1, 0, 0)
    BY Rows
  <1>4. Moves(work, work', s, 0 - 0, 0 - 1, 0 - 1, 0 - 0, 0 - 0, 1 - 0, 0 - 0, 0 - 0)
    BY <1>2, <1>3 DEF Swaps1, Row
  <1>5. QED
    BY <1>2, <1>4, SmallSums, Zenon

LEMMA MovedMoveToPostReply ==
  ASSUME work \in Stacks, NEW t \in IoThreads, NEW s \in Sessions,
         Ready(t, "move", s), Done(t, <<Step("postReply", s)>>)
  PROVE  /\ work' \in Stacks /\ SameBut(work, work', s)
         /\ Moves(work, work', s, 0, 0, 0, 0, 0, 0, 0, 0)
  <1>1. "postReply" \in Steps
    BY DEF Steps, ReleaseSteps, ReceiveSteps
  <1>2. work' \in Stacks /\ SameBut(work, work', s)
          /\ Swaps1(work, work', s, "move", "postReply")
    BY <1>1, SwapsSteps1
  <1>3. /\ Row("move", 0, 0, 0, 0, 0, 0, 0, 0)
        /\ Row("postReply", 0, 0, 0, 0, 0, 0, 0, 0)
    BY Rows
  <1>4. Moves(work, work', s, 0 - 0, 0 - 0, 0 - 0, 0 - 0, 0 - 0, 0 - 0, 0 - 0, 0 - 0)
    BY <1>2, <1>3 DEF Swaps1, Row
  <1>5. QED
    BY <1>2, <1>4, SmallSums, Zenon

LEMMA MovedMove ==
  ASSUME work \in Stacks, NEW t \in IoThreads, NEW s \in Sessions,
         Ready(t, "move", s), Done(t, <<>>)
  PROVE  /\ work' \in Stacks /\ SameBut(work, work', s)
         /\ Moves(work, work', s, 0, 0, 0, 0, 0, 0, 0, 0)
  <1>1. work' \in Stacks /\ SameBut(work, work', s) /\ Loses(work, work', s, "move")
    BY LosesStep
  <1>2. Row("move", 0, 0, 0, 0, 0, 0, 0, 0)
    BY Rows
  <1>3. QED
    BY <1>1, <1>2 DEF Loses, Row

LEMMA MovedPostReply ==
  ASSUME work \in Stacks, NEW t \in IoThreads, NEW s \in Sessions,
         Ready(t, "postReply", s), Done(t, <<>>)
  PROVE  /\ work' \in Stacks /\ SameBut(work, work', s)
         /\ Moves(work, work', s, 0, 0, 0, 0, 0, 0, 0, 0)
  <1>1. work' \in Stacks /\ SameBut(work, work', s) /\ Loses(work, work', s, "postReply")
    BY LosesStep
  <1>2. Row("postReply", 0, 0, 0, 0, 0, 0, 0, 0)
    BY Rows
  <1>3. QED
    BY <1>1, <1>2 DEF Loses, Row

LEMMA MovedSendDone ==
  ASSUME work \in Stacks, NEW t \in IoThreads, NEW s \in Sessions,
         Ready(t, "sendDone", s), Done(t, <<>>)
  PROVE  /\ work' \in Stacks /\ SameBut(work, work', s)
         /\ Moves(work, work', s, 0, 0, 0, 0, 0, 0, 0, -1)
  <1>1. work' \in Stacks /\ SameBut(work, work', s) /\ Loses(work, work', s, "sendDone")
    BY LosesStep
  <1>2. Row("sendDone", 0, 0, 0, 0, 0, 0, 0, 1)
    BY Rows
  <1>3. QED
    BY <1>1, <1>2 DEF Loses, Row

LEMMA MovedSendShort ==
  ASSUME work \in Stacks, NEW t \in IoThreads, NEW s \in Sessions,
         Ready(t, "sendShort", s), Done(t, <<>>)
  PROVE  /\ work' \in Stacks /\ SameBut(work, work', s)
         /\ Moves(work, work', s, 0, 0, 0, 0, 0, 0, 0, -1)
  <1>1. work' \in Stacks /\ SameBut(work, work', s) /\ Loses(work, work', s, "sendShort")
    BY LosesStep
  <1>2. Row("sendShort", 0, 0, 0, 0, 0, 0, 0, 1)
    BY Rows
  <1>3. QED
    BY <1>1, <1>2 DEF Loses, Row

LEMMA MovedDisconnect ==
  ASSUME work \in Stacks, NEW t \in IoThreads, NEW s \in Sessions,
         Ready(t, "disconnect", s), Done(t, <<>>)
  PROVE  /\ work' \in Stacks /\ SameBut(work, work', s)
         /\ Moves(work, work', s, 0, 0, 0, 0, 0, -1, 0, 0)
  <1>1. work' \in Stacks /\ SameBut(work, work', s) /\ Loses(work, work', s, "disconnect")
    BY LosesStep
  <1>2. Row("disconnect", 0, 0, 0, 0, 0, 1, 0, 0)
    BY Rows
  <1>3. QED
    BY <1>1, <1>2 DEF Loses, Row

LEMMA MovedDisconnectToReleaseNew ==
  ASSUME work \in Stacks, NEW t \in IoThreads, NEW s \in Sessions,
         Ready(t, "disconnect", s), Done(t, <<Step("releaseNew", s)>>)
  PROVE  /\ work' \in Stacks /\ SameBut(work, work', s)
         /\ Moves(work, work', s, 1, 0, 0, 0, 0, -1, 0, 0)
  <1>1. "releaseNew" \in Steps
    BY DEF Steps, ReleaseSteps, ReceiveSteps
  <1>2. /\ work' \in Stacks /\ SameBut(work, work', s)
        /\ Swaps1(work, work', s, "disconnect", "releaseNew")
    BY <1>1, SwapsSteps1
  <1>3. /\ Row("disconnect", 0, 0, 0, 0, 0, 1, 0, 0)
        /\ Row("releaseNew", 1, 0, 0, 0, 0, 0, 0, 0)
    BY Rows
  <1>4. Moves(work, work', s, 1 - 0, 0 - 0, 0 - 0, 0 - 0, 0 - 0, 0 - 1, 0 - 0, 0 - 0)
    BY <1>2, <1>3 DEF Swaps1, Row
  <1>5. QED
    BY <1>2, <1>4, SmallSums, Zenon

LEMMA MovedDeleteContextToReturn ==
  ASSUME work \in Stacks, NEW t \in IoThreads, NEW s \in Sessions,
         Ready(t, "deleteContext", s), Done(t, <<Step("return", s)>>)
  PROVE  /\ work' \in Stacks /\ SameBut(work, work', s)
         /\ Moves(work, work', s, -1, 0, 0, 0, 0, 0, 1, 0)
  <1>1. "return" \in Steps
    BY DEF Steps, ReleaseSteps, ReceiveSteps
  <1>2. /\ work' \in Stacks /\ SameBut(work, work', s)
        /\ Swaps1(work, work', s, "deleteContext", "return")
    BY <1>1, SwapsSteps1
  <1>3. /\ Row("deleteContext", 1, 0, 0, 0, 0, 0, 0, 0)
        /\ Row("return", 0, 0, 0, 0, 0, 0, 1, 0)
    BY Rows
  <1>4. Moves(work, work', s, 0 - 1, 0 - 0, 0 - 0, 0 - 0, 0 - 0, 0 - 0, 1 - 0, 0 - 0)
    BY <1>2, <1>3 DEF Swaps1, Row
  <1>5. QED
    BY <1>2, <1>4, SmallSums, Zenon

LEMMA MovedDeleteContext ==
  ASSUME work \in Stacks, NEW t \in IoThreads, NEW s \in Sessions,
         Ready(t, "deleteContext", s), Done(t, <<>>)
  PROVE  /\ work' \in Stacks /\ SameBut(work, work', s)
         /\ Moves(work, work', s, -1, 0, 0, 0, 0, 0, 0, 0)
  <1>1. work' \in Stacks /\ SameBut(work, work', s) /\ Loses(work, work', s, "deleteContext")
    BY LosesStep
  <1>2. Row("deleteContext", 1, 0, 0, 0, 0, 0, 0, 0)
    BY Rows
  <1>3. QED
    BY <1>1, <1>2 DEF Loses, Row

LEMMA MovedReleaseNewToReturn ==
  ASSUME work \in Stacks, NEW t \in IoThreads, NEW s \in Sessions,
         Ready(t, "releaseNew", s), Done(t, <<Step("return", s)>>)
  PROVE  /\ work' \in Stacks /\ SameBut(work, work', s)
         /\ Moves(work, work', s, -1, 0, 0, 0, 0, 0, 1, 0)
  <1>1. "return" \in Steps
    BY DEF Steps, ReleaseSteps, ReceiveSteps
  <1>2. /\ work' \in Stacks /\ SameBut(work, work', s)
        /\ Swaps1(work, work', s, "releaseNew", "return")
    BY <1>1, SwapsSteps1
  <1>3. /\ Row("releaseNew", 1, 0, 0, 0, 0, 0, 0, 0)
        /\ Row("return", 0, 0, 0, 0, 0, 0, 1, 0)
    BY Rows
  <1>4. Moves(work, work', s, 0 - 1, 0 - 0, 0 - 0, 0 - 0, 0 - 0, 0 - 0, 1 - 0, 0 - 0)
    BY <1>2, <1>3 DEF Swaps1, Row
  <1>5. QED
    BY <1>2, <1>4, SmallSums, Zenon

LEMMA MovedReleaseNew ==
  ASSUME work \in Stacks, NEW t \in IoThreads, NEW s \in Sessions,
         Ready(t, "releaseNew", s), Done(t, <<>>)
  PROVE  /\ work' \in Stacks /\ SameBut(work, work', s)
         /\ Moves(work, work', s, -1, 0, 0, 0, 0, 0, 0, 0)
  <1>1. work' \in Stacks /\ SameBut(work, work', s) /\ Loses(work, work', s, "releaseNew")
    BY LosesStep
  <1>2. Row("releaseNew", 1, 0, 0, 0, 0, 0, 0, 0)
    BY Rows
  <1>3. QED
    BY <1>1, <1>2 DEF Loses, Row

LEMMA MovedReleaseIssueToReturn ==
  ASSUME work \in Stacks, NEW t \in IoThreads, NEW s \in Sessions,
         Ready(t, "releaseIssue", s), Done(t, <<Step("return", s)>>)
  PROVE  /\ work' \in Stacks /\ SameBut(work, work', s)
         /\ Moves(work, work', s, 0, -1, 0, 0, 0, 0, 1, 0)
  <1>1. "return" \in Steps
    BY DEF Steps, ReleaseSteps, ReceiveSteps
  <1>2. /\ work' \in Stacks /\ SameBut(work, work', s)
        /\ Swaps1(work, work', s, "releaseIssue", "return")
    BY <1>1, SwapsSteps1
  <1>3. /\ Row("releaseIssue", 0, 1, 0, 0, 0, 0, 0, 0)
        /\ Row("return", 0, 0, 0, 0, 0, 0, 1, 0)
    BY Rows
  <1>4. Moves(work, work', s, 0 - 0, 0 - 1, 0 - 0, 0 - 0, 0 - 0, 0 - 0, 1 - 0, 0 - 0)
    BY <1>2, <1>3 DEF Swaps1, Row
  <1>5. QED
    BY <1>2, <1>4, SmallSums, Zenon

LEMMA MovedReleaseIssue ==
  ASSUME work \in Stacks, NEW t \in IoThreads, NEW s \in Sessions,
         Ready(t, "releaseIssue", s), Done(t, <<>>)
  PROVE  /\ work' \in Stacks /\ SameBut(work, work', s)
         /\ Moves(work, work', s, 0, -1, 0, 0, 0, 0, 0, 0)
  <1>1. work' \in Stacks /\ SameBut(work, work', s) /\ Loses(work, work', s, "releaseIssue")
    BY LosesStep
  <1>2. Row("releaseIssue", 0, 1, 0, 0, 0, 0, 0, 0)
    BY Rows
  <1>3. QED
    BY <1>1, <1>2 DEF Loses, Row

LEMMA MovedReturnToResetSendReset ==
  ASSUME work \in Stacks, NEW t \in IoThreads, NEW s \in Sessions,
         Ready(t, "return", s), Done(t, <<Step("resetSend", s), Step("reset", s)>>)
  PROVE  /\ work' \in Stacks /\ SameBut(work, work', s)
         /\ Moves(work, work', s, 0, 0, 0, 0, 0, 0, 0, 0)
  <1>1. "resetSend" \in Steps /\ "reset" \in Steps
    BY DEF Steps, ReleaseSteps, ReceiveSteps
  <1>2. /\ work' \in Stacks /\ SameBut(work, work', s)
        /\ Swaps2(work, work', s, "return", "resetSend", "reset")
    BY <1>1, SwapsSteps2
  <1>3. /\ Row("return", 0, 0, 0, 0, 0, 0, 1, 0)
        /\ Row("resetSend", 0, 0, 0, 0, 0, 0, 1, 0)
        /\ Row("reset", 0, 0, 0, 0, 0, 0, 0, 0)
    BY Rows
  <1>4. Moves(work, work', s, 0 + 0 - 0, 0 + 0 - 0, 0 + 0 - 0, 0 + 0 - 0,
              0 + 0 - 0, 0 + 0 - 0, 1 + 0 - 1, 0 + 0 - 0)
    BY <1>2, <1>3 DEF Swaps2, Row
  <1>5. QED
    BY <1>2, <1>4, SmallSums, Zenon

LEMMA MovedReset ==
  ASSUME work \in Stacks, NEW t \in IoThreads, NEW s \in Sessions,
         Ready(t, "reset", s), Done(t, <<>>)
  PROVE  /\ work' \in Stacks /\ SameBut(work, work', s)
         /\ Moves(work, work', s, 0, 0, 0, 0, 0, 0, 0, 0)
  <1>1. work' \in Stacks /\ SameBut(work, work', s) /\ Loses(work, work', s, "reset")
    BY LosesStep
  <1>2. Row("reset", 0, 0, 0, 0, 0, 0, 0, 0)
    BY Rows
  <1>3. QED
    BY <1>1, <1>2 DEF Loses, Row

LEMMA MovedFlush ==
  ASSUME work \in Stacks, NEW t \in IoThreads, NEW s \in Sessions,
         Ready(t, "flush", s), Done(t, <<>>)
  PROVE  /\ work' \in Stacks /\ SameBut(work, work', s)
         /\ Moves(work, work', s, 0, 0, 0, 0, 0, 0, 0, 0)
  <1>1. work' \in Stacks /\ SameBut(work, work', s) /\ Loses(work, work', s, "flush")
    BY LosesStep
  <1>2. Row("flush", 0, 0, 0, 0, 0, 0, 0, 0)
    BY Rows
  <1>3. QED
    BY <1>1, <1>2 DEF Loses, Row

LEMMA MovedUnlock ==
  ASSUME work \in Stacks, NEW t \in IoThreads, NEW s \in Sessions,
         Ready(t, "unlock", s), Done(t, <<>>)
  PROVE  /\ work' \in Stacks /\ SameBut(work, work', s)
         /\ Moves(work, work', s, 0, 0, 0, 0, 0, 0, 0, 0)
  <1>1. work' \in Stacks /\ SameBut(work, work', s) /\ Loses(work, work', s, "unlock")
    BY LosesStep
  <1>2. Row("unlock", 0, 0, 0, 0, 0, 0, 0, 0)
    BY Rows
  <1>3. QED
    BY <1>1, <1>2 DEF Loses, Row

LEMMA MovedPop ==
  ASSUME work \in Stacks, NEW t \in IoThreads, NEW s \in Sessions,
         Ready(t, "pop", s), Done(t, <<>>)
  PROVE  /\ work' \in Stacks /\ SameBut(work, work', s)
         /\ Moves(work, work', s, 0, 0, 0, 0, 0, 0, 0, 0)
  <1>1. work' \in Stacks /\ SameBut(work, work', s) /\ Loses(work, work', s, "pop")
    BY LosesStep
  <1>2. Row("pop", 0, 0, 0, 0, 0, 0, 0, 0)
    BY Rows
  <1>3. QED
    BY <1>1, <1>2 DEF Loses, Row

LEMMA MovedFlushToPopUnlockDisconnectReleaseNew ==
  ASSUME work \in Stacks, NEW t \in IoThreads, NEW s \in Sessions,
         Ready(t, "flush", s),
           Done(t, <<Step("pop", s), Step("unlock", s), Step("disconnect", s),
             Step("releaseNew", s)>>)
  PROVE  /\ work' \in Stacks /\ SameBut(work, work', s)
         /\ Moves(work, work', s, 1, 0, 0, 0, 0, 1, 0, 0)
  <1>1. "pop" \in Steps /\ "unlock" \in Steps /\ "disconnect" \in Steps
          /\ "releaseNew" \in Steps
    BY DEF Steps, ReleaseSteps, ReceiveSteps
  <1>2. /\ work' \in Stacks /\ SameBut(work, work', s)
        /\ Swaps4(work, work', s, "flush", "pop", "unlock", "disconnect", "releaseNew")
    BY <1>1, SwapsSteps4
  <1>3. /\ Row("flush", 0, 0, 0, 0, 0, 0, 0, 0)
        /\ Row("pop", 0, 0, 0, 0, 0, 0, 0, 0)
        /\ Row("unlock", 0, 0, 0, 0, 0, 0, 0, 0)
        /\ Row("disconnect", 0, 0, 0, 0, 0, 1, 0, 0)
        /\ Row("releaseNew", 1, 0, 0, 0, 0, 0, 0, 0)
    BY Rows
  <1>4. Moves(work, work', s, 0 + 0 + 0 + 1 - 0, 0 + 0 + 0 + 0 - 0, 0 + 0 + 0 + 0 - 0, 0 + 0
          + 0 + 0 - 0,
              0 + 0 + 0 + 0 - 0, 0 + 0 + 1 + 0 - 0, 0 + 0 + 0 + 0 - 0, 0 + 0 + 0 + 0 - 0)
    BY <1>2, <1>3 DEF Swaps4, Row
  <1>5. QED
    BY <1>2, <1>4, SmallSums, Zenon

(* ... and so does every branch of every handler, by SessionStep: its lemma says
   how the counts move, what the numbers of the session become, and that they fit. *)
LEMMA FirstReceiveNotConnected ==
  ASSUME TypeOK, SessionsInv, NEW t \in IoThreads, NEW s \in Sessions,
         Receive(t, s, "preRecv"), NotConnected(t, s, "preRecv")
  PROVE  SessionsInv'
  <1> DEFINE x == session[s]
             y == session'[s]
  <1>1. work \in Stacks /\ x \in SessionRec /\ Numbers(x) /\ Counts(s)
    BY Typed, Counted
  <1>2. Ready(t, "preRecv", s) /\ Done(t, <<>>)
    BY ReceiveEnds DEF NotConnected, OnFalse
  <1>3. y = x /\ \A r \in Sessions \ {s} : session'[r] = session[r]
    BY DEF NotConnected
  <1>4. y = x
    BY <1>3
  <1>5. /\ work' \in Stacks /\ SameBut(work, work', s)
        /\ Moves(work, work', s, 0, 0, 0, -1, -1, 0, 0, 0)
    BY <1>1, <1>2, MovedPreRecv
  <1>6. Running /\ mFreeSessionList' = mFreeSessionList /\ (Sound' => Sound)
    BY DEF Receive, Ready, managerVars, processVars, Sound, Running
  <1>7. Tally(work, s, ReceiveSteps) >= 1
    BY <1>1, <1>2, OwnStepCounts DEF ReceiveSteps
  <1>8. x.mConnected = 0
    BY DEF NotConnected
  <1> HIDE DEF x, y
  <1>9. ASSUME OneSend(x, Tally(work, s, Sending))
        PROVE  OneSend(y, Tally(work, s, Sending) + 0)
    BY <1>1, <1>4, <1>7, <1>8, <1>9 DEF OneSend, Numbers, Counts, IoTypes
  <1>10. ASSUME Sound', FitsIn(x, work, mFreeSessionList, s)
        PROVE  FitAfter(y, work, mFreeSessionList, s, 0, 0, 0, -1, -1, 0, 0)
    BY <1>1, <1>4, <1>7, <1>8, <1>10, FitNoFirstReceive DEF FitsIn, FitAfter, Counts, IoTypes
  <1>11. QED
    BY <1>3, <1>5, <1>6, <1>9, <1>10, SessionStep DEF x, y

LEMMA FirstReceivePosted ==
  ASSUME TypeOK, SessionsInv, NEW t \in IoThreads, NEW s \in Sessions,
         Receive(t, s, "preRecv"), ReceivePosted(t, s, "preRecv"), StackOK(t)
  PROVE  SessionsInv'
  <1> DEFINE x == session[s]
             y == session'[s]
  <1>1. work \in Stacks /\ x \in SessionRec /\ Numbers(x) /\ Counts(s)
    BY Typed, Counted
  <1>2. Ready(t, "preRecv", s) /\ Done(t, <<>>)
    BY ReceiveEnds DEF ReceivePosted
  <1>3. y = WithContext(x, "RECV_ZERO") /\ \A r \in Sessions \ {s} : session'[r] = session[r]
    BY DEF ReceivePosted, TypeOK
  <1>4. Posted(x, y, "RECV_ZERO")
    BY <1>1, <1>3, NewContextNumbers DEF IoTypes
  <1>5. /\ work' \in Stacks /\ SameBut(work, work', s)
        /\ Moves(work, work', s, 0, 0, 0, -1, -1, 0, 0, 0)
    BY <1>1, <1>2, MovedPreRecv
  <1>6. Running /\ mFreeSessionList' = mFreeSessionList /\ (Sound' => Sound)
    BY DEF Receive, Ready, managerVars, processVars, Sound, Running
  <1>7. Tally(work, s, ReceiveSteps) >= 1
    BY <1>1, <1>2, OwnStepCounts DEF ReceiveSteps
  <1>8. Tally(work, s, Deletions) >= 1
    BY <1>1, <1>2, HandlingIsHeld DEF Handling, ReceiveSteps
  <1> HIDE DEF x, y
  <1>9. ASSUME OneSend(x, Tally(work, s, Sending))
        PROVE  OneSend(y, Tally(work, s, Sending) + 0)
    BY <1>1, <1>4, <1>7, <1>8, <1>9 DEF OneSend, Numbers, Counts, IoTypes, Posted
  <1>10. ASSUME Sound', FitsIn(x, work, mFreeSessionList, s)
        PROVE  FitAfter(y, work, mFreeSessionList, s, 0, 0, 0, -1, -1, 0, 0)
    BY <1>1, <1>4, <1>7, <1>8, <1>10, FitFirstReceive DEF FitsIn, FitAfter, Counts, IoTypes,
       Posted
  <1>11. QED
    BY <1>3, <1>5, <1>6, <1>9, <1>10, SessionStep DEF x, y

LEMMA FirstReceiveFails ==
  ASSUME TypeOK, SessionsInv, NEW t \in IoThreads, NEW s \in Sessions,
         Receive(t, s, "preRecv"), ReceiveFailed(t, s, "preRecv"), StackOK(t)
  PROVE  SessionsInv'
  <1> DEFINE x == session[s]
             y == session'[s]
  <1>1. work \in Stacks /\ x \in SessionRec /\ Numbers(x) /\ Counts(s)
    BY Typed, Counted
  <1>2. Ready(t, "preRecv", s) /\ Done(t, <<Step("releaseNew", s)>>)
    BY ReceiveEnds, JoinedSteps, JoinedEmpty DEF ReceiveFailed, OnFalse
  <1>3. y = WithFailedContext(x) /\ \A r \in Sessions \ {s} : session'[r] = session[r]
    BY DEF ReceiveFailed, TypeOK
  <1>4. Referenced(x, y)
    BY <1>1, <1>3, FailedContextNumbers
  <1>5. /\ work' \in Stacks /\ SameBut(work, work', s)
        /\ Moves(work, work', s, 1, 0, 0, -1, -1, 0, 0, 0)
    BY <1>1, <1>2, MovedPreRecvToReleaseNew
  <1>6. Running /\ mFreeSessionList' = mFreeSessionList /\ (Sound' => Sound)
    BY DEF Receive, Ready, managerVars, processVars, Sound, Running
  <1>7. Tally(work, s, ReceiveSteps) >= 1
    BY <1>1, <1>2, OwnStepCounts DEF ReceiveSteps
  <1>8. Tally(work, s, Deletions) >= 1
    BY <1>1, <1>2, HandlingIsHeld DEF Handling, ReceiveSteps
  <1>9. Tally(work, s, {"preRecv"}) >= 1
    BY <1>1, <1>2, OwnStepCounts
  <1>10. x.mConnected = 1
    BY DEF ReceiveFailed
  <1>11. Open(x) = 0 \/ ~FirstReceiveSucceeds
    BY DEF ReceiveFailed, Open, RecvCall, MayFail, FirstReceiveSucceeds
  <1> HIDE DEF x, y
  <1>12. ASSUME OneSend(x, Tally(work, s, Sending))
        PROVE  OneSend(y, Tally(work, s, Sending) + 0)
    BY <1>1, <1>4, <1>7, <1>8, <1>9, <1>10, <1>11, <1>12 DEF OneSend, Numbers, Counts, IoTypes,
       Referenced
  <1>13. ASSUME Sound', FitsIn(x, work, mFreeSessionList, s)
        PROVE  FitAfter(y, work, mFreeSessionList, s, 1, 0, 0, -1, -1, 0, 0)
    BY <1>1, <1>4, <1>7, <1>8, <1>9, <1>10, <1>11, <1>13, FitFirstReceiveFails DEF FitsIn,
       FitAfter, Counts, IoTypes, Referenced
  <1>14. QED
    BY <1>3, <1>5, <1>6, <1>12, <1>13, SessionStep DEF x, y

LEMMA PreRecvNotConnected ==
  ASSUME TypeOK, SessionsInv, NEW t \in IoThreads, NEW s \in Sessions,
         Receive(t, s, "preRecvOrClose"), NotConnected(t, s, "preRecvOrClose")
  PROVE  SessionsInv'
  <1> DEFINE x == session[s]
             y == session'[s]
  <1>1. work \in Stacks /\ x \in SessionRec /\ Numbers(x) /\ Counts(s)
    BY Typed, Counted
  <1>2. Ready(t, "preRecvOrClose", s) /\ Done(t, <<Step("disconnect", s)>>)
    BY ReceiveEnds DEF NotConnected, OnFalse
  <1>3. y = x /\ \A r \in Sessions \ {s} : session'[r] = session[r]
    BY DEF NotConnected
  <1>4. y = x
    BY <1>3
  <1>5. /\ work' \in Stacks /\ SameBut(work, work', s)
        /\ Moves(work, work', s, 0, 0, 0, -1, 0, 1, 0, 0)
    BY <1>1, <1>2, MovedPreRecvOrCloseToDisconnect
  <1>6. Running /\ mFreeSessionList' = mFreeSessionList /\ (Sound' => Sound)
    BY DEF Receive, Ready, managerVars, processVars, Sound, Running
  <1>7. Tally(work, s, ReceiveSteps) >= 1
    BY <1>1, <1>2, OwnStepCounts DEF ReceiveSteps
  <1>8. x.mConnected = 0
    BY DEF NotConnected
  <1> HIDE DEF x, y
  <1>9. ASSUME OneSend(x, Tally(work, s, Sending))
        PROVE  OneSend(y, Tally(work, s, Sending) + 0)
    BY <1>1, <1>4, <1>7, <1>8, <1>9 DEF OneSend, Numbers, Counts, IoTypes
  <1>10. ASSUME Sound', FitsIn(x, work, mFreeSessionList, s)
        PROVE  FitAfter(y, work, mFreeSessionList, s, 0, 0, 0, -1, 0, 1, 0)
    BY <1>1, <1>4, <1>7, <1>8, <1>10, FitNoReceive DEF FitsIn, FitAfter, Counts, IoTypes
  <1>11. QED
    BY <1>3, <1>5, <1>6, <1>9, <1>10, SessionStep DEF x, y

LEMMA PreRecvPosted ==
  ASSUME TypeOK, SessionsInv, NEW t \in IoThreads, NEW s \in Sessions,
         Receive(t, s, "preRecvOrClose"), ReceivePosted(t, s, "preRecvOrClose"), StackOK(t)
  PROVE  SessionsInv'
  <1> DEFINE x == session[s]
             y == session'[s]
  <1>1. work \in Stacks /\ x \in SessionRec /\ Numbers(x) /\ Counts(s)
    BY Typed, Counted
  <1>2. Ready(t, "preRecvOrClose", s) /\ Done(t, <<>>)
    BY ReceiveEnds DEF ReceivePosted
  <1>3. y = WithContext(x, "RECV_ZERO") /\ \A r \in Sessions \ {s} : session'[r] = session[r]
    BY DEF ReceivePosted, TypeOK
  <1>4. Posted(x, y, "RECV_ZERO")
    BY <1>1, <1>3, NewContextNumbers DEF IoTypes
  <1>5. /\ work' \in Stacks /\ SameBut(work, work', s)
        /\ Moves(work, work', s, 0, 0, 0, -1, 0, 0, 0, 0)
    BY <1>1, <1>2, MovedPreRecvOrClose
  <1>6. Running /\ mFreeSessionList' = mFreeSessionList /\ (Sound' => Sound)
    BY DEF Receive, Ready, managerVars, processVars, Sound, Running
  <1>7. Tally(work, s, ReceiveSteps) >= 1
    BY <1>1, <1>2, OwnStepCounts DEF ReceiveSteps
  <1>8. Tally(work, s, Deletions) >= 1
    BY <1>1, <1>2, HandlingIsHeld DEF Handling, ReceiveSteps
  <1> HIDE DEF x, y
  <1>9. ASSUME OneSend(x, Tally(work, s, Sending))
        PROVE  OneSend(y, Tally(work, s, Sending) + 0)
    BY <1>1, <1>4, <1>7, <1>8, <1>9 DEF OneSend, Numbers, Counts, IoTypes, Posted
  <1>10. ASSUME Sound', FitsIn(x, work, mFreeSessionList, s)
        PROVE  FitAfter(y, work, mFreeSessionList, s, 0, 0, 0, -1, 0, 0, 0)
    BY <1>1, <1>4, <1>7, <1>8, <1>10, FitPreRecv DEF FitsIn, FitAfter, Counts, IoTypes, Posted
  <1>11. QED
    BY <1>3, <1>5, <1>6, <1>9, <1>10, SessionStep DEF x, y

LEMMA PreRecvFails ==
  ASSUME TypeOK, SessionsInv, NEW t \in IoThreads, NEW s \in Sessions,
         Receive(t, s, "preRecvOrClose"), ReceiveFailed(t, s, "preRecvOrClose"), StackOK(t)
  PROVE  SessionsInv'
  <1> DEFINE x == session[s]
             y == session'[s]
  <1>1. work \in Stacks /\ x \in SessionRec /\ Numbers(x) /\ Counts(s)
    BY Typed, Counted
  <1>2. Ready(t, "preRecvOrClose", s)
          /\ Done(t, <<Step("disconnect", s), Step("releaseNew", s)>>)
    BY ReceiveEnds, JoinedSteps, JoinedEmpty DEF ReceiveFailed, OnFalse
  <1>3. y = WithFailedContext(x) /\ \A r \in Sessions \ {s} : session'[r] = session[r]
    BY DEF ReceiveFailed, TypeOK
  <1>4. Referenced(x, y)
    BY <1>1, <1>3, FailedContextNumbers
  <1>5. /\ work' \in Stacks /\ SameBut(work, work', s)
        /\ Moves(work, work', s, 1, 0, 0, -1, 0, 1, 0, 0)
    BY <1>1, <1>2, MovedPreRecvOrCloseToDisconnectReleaseNew
  <1>6. Running /\ mFreeSessionList' = mFreeSessionList /\ (Sound' => Sound)
    BY DEF Receive, Ready, managerVars, processVars, Sound, Running
  <1>7. Tally(work, s, ReceiveSteps) >= 1
    BY <1>1, <1>2, OwnStepCounts DEF ReceiveSteps
  <1>8. Tally(work, s, Deletions) >= 1
    BY <1>1, <1>2, HandlingIsHeld DEF Handling, ReceiveSteps
  <1> HIDE DEF x, y
  <1>9. ASSUME OneSend(x, Tally(work, s, Sending))
        PROVE  OneSend(y, Tally(work, s, Sending) + 0)
    BY <1>1, <1>4, <1>7, <1>8, <1>9 DEF OneSend, Numbers, Counts, IoTypes, Referenced
  <1>10. ASSUME Sound', FitsIn(x, work, mFreeSessionList, s)
        PROVE  FitAfter(y, work, mFreeSessionList, s, 1, 0, 0, -1, 0, 1, 0)
    BY <1>1, <1>4, <1>7, <1>8, <1>10, FitReceiveFails DEF FitsIn, FitAfter, Counts, IoTypes,
       Referenced
  <1>11. QED
    BY <1>3, <1>5, <1>6, <1>9, <1>10, SessionStep DEF x, y

LEMMA PostRecvNotConnected ==
  ASSUME TypeOK, SessionsInv, NEW t \in IoThreads, NEW s \in Sessions,
         Receive(t, s, "postRecvOrClose"), NotConnected(t, s, "postRecvOrClose")
  PROVE  SessionsInv'
  <1> DEFINE x == session[s]
             y == session'[s]
  <1>1. work \in Stacks /\ x \in SessionRec /\ Numbers(x) /\ Counts(s)
    BY Typed, Counted
  <1>2. Ready(t, "postRecvOrClose", s) /\ Done(t, <<Step("disconnect", s)>>)
    BY ReceiveEnds DEF NotConnected, OnFalse
  <1>3. y = x /\ \A r \in Sessions \ {s} : session'[r] = session[r]
    BY DEF NotConnected
  <1>4. y = x
    BY <1>3
  <1>5. /\ work' \in Stacks /\ SameBut(work, work', s)
        /\ Moves(work, work', s, 0, 0, 0, -1, 0, 1, 0, 0)
    BY <1>1, <1>2, MovedPostRecvOrCloseToDisconnect
  <1>6. Running /\ mFreeSessionList' = mFreeSessionList /\ (Sound' => Sound)
    BY DEF Receive, Ready, managerVars, processVars, Sound, Running
  <1>7. Tally(work, s, ReceiveSteps) >= 1
    BY <1>1, <1>2, OwnStepCounts DEF ReceiveSteps
  <1>8. x.mConnected = 0
    BY DEF NotConnected
  <1> HIDE DEF x, y
  <1>9. ASSUME OneSend(x, Tally(work, s, Sending))
        PROVE  OneSend(y, Tally(work, s, Sending) + 0)
    BY <1>1, <1>4, <1>7, <1>8, <1>9 DEF OneSend, Numbers, Counts, IoTypes
  <1>10. ASSUME Sound', FitsIn(x, work, mFreeSessionList, s)
        PROVE  FitAfter(y, work, mFreeSessionList, s, 0, 0, 0, -1, 0, 1, 0)
    BY <1>1, <1>4, <1>7, <1>8, <1>10, FitNoReceive DEF FitsIn, FitAfter, Counts, IoTypes
  <1>11. QED
    BY <1>3, <1>5, <1>6, <1>9, <1>10, SessionStep DEF x, y

LEMMA PostRecvPosted ==
  ASSUME TypeOK, SessionsInv, NEW t \in IoThreads, NEW s \in Sessions,
         Receive(t, s, "postRecvOrClose"), ReceivePosted(t, s, "postRecvOrClose"), StackOK(t)
  PROVE  SessionsInv'
  <1> DEFINE x == session[s]
             y == session'[s]
  <1>1. work \in Stacks /\ x \in SessionRec /\ Numbers(x) /\ Counts(s)
    BY Typed, Counted
  <1>2. Ready(t, "postRecvOrClose", s) /\ Done(t, <<>>)
    BY ReceiveEnds DEF ReceivePosted
  <1>3. y = WithContext(x, "RECV") /\ \A r \in Sessions \ {s} : session'[r] = session[r]
    BY DEF ReceivePosted, TypeOK
  <1>4. Posted(x, y, "RECV")
    BY <1>1, <1>3, NewContextNumbers DEF IoTypes
  <1>5. /\ work' \in Stacks /\ SameBut(work, work', s)
        /\ Moves(work, work', s, 0, 0, 0, -1, 0, 0, 0, 0)
    BY <1>1, <1>2, MovedPostRecvOrClose
  <1>6. Running /\ mFreeSessionList' = mFreeSessionList /\ (Sound' => Sound)
    BY DEF Receive, Ready, managerVars, processVars, Sound, Running
  <1>7. Tally(work, s, ReceiveSteps) >= 1
    BY <1>1, <1>2, OwnStepCounts DEF ReceiveSteps
  <1>8. Tally(work, s, Deletions) >= 1
    BY <1>1, <1>2, HandlingIsHeld DEF Handling, ReceiveSteps
  <1> HIDE DEF x, y
  <1>9. ASSUME OneSend(x, Tally(work, s, Sending))
        PROVE  OneSend(y, Tally(work, s, Sending) + 0)
    BY <1>1, <1>4, <1>7, <1>8, <1>9 DEF OneSend, Numbers, Counts, IoTypes, Posted
  <1>10. ASSUME Sound', FitsIn(x, work, mFreeSessionList, s)
        PROVE  FitAfter(y, work, mFreeSessionList, s, 0, 0, 0, -1, 0, 0, 0)
    BY <1>1, <1>4, <1>7, <1>8, <1>10, FitPostRecv DEF FitsIn, FitAfter, Counts, IoTypes, Posted
  <1>11. QED
    BY <1>3, <1>5, <1>6, <1>9, <1>10, SessionStep DEF x, y

LEMMA PostRecvFails ==
  ASSUME TypeOK, SessionsInv, NEW t \in IoThreads, NEW s \in Sessions,
         Receive(t, s, "postRecvOrClose"), ReceiveFailed(t, s, "postRecvOrClose"), StackOK(t)
  PROVE  SessionsInv'
  <1> DEFINE x == session[s]
             y == session'[s]
  <1>1. work \in Stacks /\ x \in SessionRec /\ Numbers(x) /\ Counts(s)
    BY Typed, Counted
  <1>2. Ready(t, "postRecvOrClose", s)
          /\ Done(t, <<Step("disconnect", s), Step("releaseNew", s)>>)
    BY ReceiveEnds, JoinedSteps, JoinedEmpty DEF ReceiveFailed, OnFalse
  <1>3. y = WithFailedContext(x) /\ \A r \in Sessions \ {s} : session'[r] = session[r]
    BY DEF ReceiveFailed, TypeOK
  <1>4. Referenced(x, y)
    BY <1>1, <1>3, FailedContextNumbers
  <1>5. /\ work' \in Stacks /\ SameBut(work, work', s)
        /\ Moves(work, work', s, 1, 0, 0, -1, 0, 1, 0, 0)
    BY <1>1, <1>2, MovedPostRecvOrCloseToDisconnectReleaseNew
  <1>6. Running /\ mFreeSessionList' = mFreeSessionList /\ (Sound' => Sound)
    BY DEF Receive, Ready, managerVars, processVars, Sound, Running
  <1>7. Tally(work, s, ReceiveSteps) >= 1
    BY <1>1, <1>2, OwnStepCounts DEF ReceiveSteps
  <1>8. Tally(work, s, Deletions) >= 1
    BY <1>1, <1>2, HandlingIsHeld DEF Handling, ReceiveSteps
  <1> HIDE DEF x, y
  <1>9. ASSUME OneSend(x, Tally(work, s, Sending))
        PROVE  OneSend(y, Tally(work, s, Sending) + 0)
    BY <1>1, <1>4, <1>7, <1>8, <1>9 DEF OneSend, Numbers, Counts, IoTypes, Referenced
  <1>10. ASSUME Sound', FitsIn(x, work, mFreeSessionList, s)
        PROVE  FitAfter(y, work, mFreeSessionList, s, 1, 0, 0, -1, 0, 1, 0)
    BY <1>1, <1>4, <1>7, <1>8, <1>10, FitReceiveFails DEF FitsIn, FitAfter, Counts, IoTypes,
       Referenced
  <1>11. QED
    BY <1>3, <1>5, <1>6, <1>9, <1>10, SessionStep DEF x, y

(* AcceptCompletion. *)
LEMMA Accepts ==
  ASSUME TypeOK, SessionsInv, NEW t \in IoThreads, NEW s \in Sessions,
         AcceptCompletion(t, s),
         session[s].mConnected # 1, session[s].socket = "open",
           Done(t, <<Step("load", s), Step("preRecv", s)>>)
  PROVE  SessionsInv'
  <1> DEFINE x == session[s]
             y == session'[s]
  <1>1. work \in Stacks /\ x \in SessionRec /\ Numbers(x) /\ Counts(s)
    BY Typed, Counted
  <1>2. Ready(t, "accept", s) /\ Done(t, <<Step("load", s), Step("preRecv", s)>>)
    BY DEF AcceptCompletion
  <1>3. \A r \in Sessions \ {s} : session'[r] = session[r]
    BY DEF AcceptCompletion, TypeOK
  <1>4. /\ y.mRefCount = x.mRefCount /\ y.pending = x.pending
        /\ y.mConnected = 1 /\ y.mSendPendingCount = x.mSendPendingCount
        /\ Open(y) = Open(x) /\ Issue(y) = Issue(x)
    BY <1>1 DEF AcceptCompletion, TypeOK, SessionRec, Open, Issue
  <1>5. /\ work' \in Stacks /\ SameBut(work, work', s)
        /\ Moves(work, work', s, 0, -1, -1, 1, 1, 0, 0, 0)
    BY <1>1, <1>2, MovedAcceptToLoadPreRecv
  <1>6. Running /\ mFreeSessionList' = mFreeSessionList /\ (Sound' => Sound)
    BY DEF AcceptCompletion, Ready, managerVars, processVars, Sound, Running
  <1>7. Tally(work, s, {"accept"}) >= 1
    BY <1>1, <1>2, OwnStepCounts
  <1>8. Open(x) = 1
    BY DEF Open
  <1> HIDE DEF x, y
  <1>9. ASSUME OneSend(x, Tally(work, s, Sending))
        PROVE  OneSend(y, Tally(work, s, Sending) + 0)
    BY <1>1, <1>4, <1>7, <1>8, <1>9 DEF OneSend, Numbers, Counts, IoTypes
  <1>10. ASSUME Sound', FitsIn(x, work, mFreeSessionList, s)
        PROVE  FitAfter(y, work, mFreeSessionList, s, 0, -1, -1, 1, 1, 0, 0)
    BY <1>1, <1>4, <1>7, <1>8, <1>10, FitAccepted DEF FitsIn, FitAfter, Counts, IoTypes
  <1>11. QED
    BY <1>3, <1>5, <1>6, <1>9, <1>10, SessionStep DEF x, y

LEMMA AcceptsInVain ==
  ASSUME TypeOK, SessionsInv, NEW t \in IoThreads, NEW s \in Sessions,
         AcceptCompletion(t, s),
         session[s].mConnected # 1, Done(t, <<Step("disconnect", s)>>)
  PROVE  SessionsInv'
  <1> DEFINE x == session[s]
             y == session'[s]
  <1>1. work \in Stacks /\ x \in SessionRec /\ Numbers(x) /\ Counts(s)
    BY Typed, Counted
  <1>2. Ready(t, "accept", s) /\ Done(t, <<Step("disconnect", s)>>)
    BY DEF AcceptCompletion
  <1>3. \A r \in Sessions \ {s} : session'[r] = session[r]
    BY DEF AcceptCompletion, TypeOK
  <1>4. /\ y.mRefCount = x.mRefCount /\ y.pending = x.pending
        /\ y.mConnected = 1 /\ y.mSendPendingCount = x.mSendPendingCount
        /\ Open(y) = Open(x) /\ Issue(y) = Issue(x)
    BY <1>1 DEF AcceptCompletion, TypeOK, SessionRec, Open, Issue
  <1>5. /\ work' \in Stacks /\ SameBut(work, work', s)
        /\ Moves(work, work', s, 0, -1, -1, 0, 0, 1, 0, 0)
    BY <1>1, <1>2, MovedAcceptToDisconnect
  <1>6. Running /\ mFreeSessionList' = mFreeSessionList /\ (Sound' => Sound)
    BY DEF AcceptCompletion, Ready, managerVars, processVars, Sound, Running
  <1>7. Tally(work, s, {"accept"}) >= 1
    BY <1>1, <1>2, OwnStepCounts
  <1> HIDE DEF x, y
  <1>8. ASSUME OneSend(x, Tally(work, s, Sending))
        PROVE  OneSend(y, Tally(work, s, Sending) + 0)
    BY <1>1, <1>4, <1>7, <1>8 DEF OneSend, Numbers, Counts, IoTypes
  <1>9. ASSUME Sound', FitsIn(x, work, mFreeSessionList, s)
        PROVE  FitAfter(y, work, mFreeSessionList, s, 0, -1, -1, 0, 0, 1, 0)
    BY <1>1, <1>4, <1>7, <1>9, FitNotAccepted DEF FitsIn, FitAfter, Counts, IoTypes
  <1>10. QED
    BY <1>3, <1>5, <1>6, <1>8, <1>9, SessionStep DEF x, y

(* Handle_SC_MOVE, PostReply, SendCompletion. *)
LEMMA MoveReplies ==
  ASSUME TypeOK, SessionsInv, NEW t \in IoThreads, NEW s \in Sessions,
         Handle_SC_MOVE(t, s), session[s].mConnected = 1
  PROVE  SessionsInv'
  <1> DEFINE x == session[s]
             y == session'[s]
  <1>1. work \in Stacks /\ x \in SessionRec /\ Numbers(x) /\ Counts(s)
    BY Typed, Counted
  <1>2. Ready(t, "move", s) /\ Done(t, <<Step("postReply", s)>>)
    BY DEF Handle_SC_MOVE
  <1>3. y = x /\ \A r \in Sessions \ {s} : session'[r] = session[r]
    BY DEF Handle_SC_MOVE, TypeOK
  <1>4. y = x
    BY <1>3
  <1>5. /\ work' \in Stacks /\ SameBut(work, work', s)
        /\ Moves(work, work', s, 0, 0, 0, 0, 0, 0, 0, 0)
    BY <1>1, <1>2, MovedMoveToPostReply
  <1>6. Running /\ mFreeSessionList' = mFreeSessionList /\ (Sound' => Sound)
    BY DEF Handle_SC_MOVE, Ready, managerVars, processVars, Sound, Running
  <1> HIDE DEF x, y
  <1>7. ASSUME OneSend(x, Tally(work, s, Sending))
        PROVE  OneSend(y, Tally(work, s, Sending) + 0)
    BY <1>1, <1>4, <1>7 DEF OneSend, Numbers, Counts, IoTypes
  <1>8. ASSUME Sound', FitsIn(x, work, mFreeSessionList, s)
        PROVE  FitAfter(y, work, mFreeSessionList, s, 0, 0, 0, 0, 0, 0, 0)
    BY <1>1, <1>4, <1>8, FitSame DEF FitsIn, FitAfter, Counts, IoTypes
  <1>9. QED
    BY <1>3, <1>5, <1>6, <1>7, <1>8, SessionStep DEF x, y

LEMMA MoveIgnored ==
  ASSUME TypeOK, SessionsInv, NEW t \in IoThreads, NEW s \in Sessions,
         Handle_SC_MOVE(t, s), session[s].mConnected # 1
  PROVE  SessionsInv'
  <1> DEFINE x == session[s]
             y == session'[s]
  <1>1. work \in Stacks /\ x \in SessionRec /\ Numbers(x) /\ Counts(s)
    BY Typed, Counted
  <1>2. Ready(t, "move", s) /\ Done(t, <<>>)
    BY DEF Handle_SC_MOVE
  <1>3. y = x /\ \A r \in Sessions \ {s} : session'[r] = session[r]
    BY DEF Handle_SC_MOVE, TypeOK
  <1>4. y = x
    BY <1>3
  <1>5. /\ work' \in Stacks /\ SameBut(work, work', s)
        /\ Moves(work, work', s, 0, 0, 0, 0, 0, 0, 0, 0)
    BY <1>1, <1>2, MovedMove
  <1>6. Running /\ mFreeSessionList' = mFreeSessionList /\ (Sound' => Sound)
    BY DEF Handle_SC_MOVE, Ready, managerVars, processVars, Sound, Running
  <1> HIDE DEF x, y
  <1>7. ASSUME OneSend(x, Tally(work, s, Sending))
        PROVE  OneSend(y, Tally(work, s, Sending) + 0)
    BY <1>1, <1>4, <1>7 DEF OneSend, Numbers, Counts, IoTypes
  <1>8. ASSUME Sound', FitsIn(x, work, mFreeSessionList, s)
        PROVE  FitAfter(y, work, mFreeSessionList, s, 0, 0, 0, 0, 0, 0, 0)
    BY <1>1, <1>4, <1>8, FitSame DEF FitsIn, FitAfter, Counts, IoTypes
  <1>9. QED
    BY <1>3, <1>5, <1>6, <1>7, <1>8, SessionStep DEF x, y

LEMMA PostReplyKeeps ==
  ASSUME TypeOK, SessionsInv, NEW t \in IoThreads, NEW s \in Sessions,
         PostReply(t, s)
  PROVE  SessionsInv'
  <1> DEFINE x == session[s]
             y == session'[s]
  <1>1. work \in Stacks /\ x \in SessionRec /\ Numbers(x) /\ Counts(s)
    BY Typed, Counted
  <1>2. Ready(t, "postReply", s) /\ Done(t, <<>>)
    BY DEF PostReply
  <1>3. (y = x \/ y = [x EXCEPT !.stored = @ + 1]) /\ \A r \in Sessions \ {s} : session'[r]
          = session[r]
    BY DEF PostReply, TypeOK
  <1>4. /\ y.mRefCount = x.mRefCount /\ y.pending = x.pending
        /\ y.mConnected = x.mConnected /\ y.mSendPendingCount = x.mSendPendingCount
        /\ Open(y) = Open(x) /\ Issue(y) = Issue(x)
    BY <1>1, <1>3 DEF SessionRec, Open, Issue
  <1>5. /\ work' \in Stacks /\ SameBut(work, work', s)
        /\ Moves(work, work', s, 0, 0, 0, 0, 0, 0, 0, 0)
    BY <1>1, <1>2, MovedPostReply
  <1>6. Running /\ mFreeSessionList' = mFreeSessionList /\ (Sound' => Sound)
    BY DEF PostReply, Ready, managerVars, processVars, Sound, Running
  <1> HIDE DEF x, y
  <1>7. ASSUME OneSend(x, Tally(work, s, Sending))
        PROVE  OneSend(y, Tally(work, s, Sending) + 0)
    BY <1>1, <1>4, <1>7 DEF OneSend, Numbers, Counts, IoTypes
  <1>8. ASSUME Sound', FitsIn(x, work, mFreeSessionList, s)
        PROVE  FitAfter(y, work, mFreeSessionList, s, 0, 0, 0, 0, 0, 0, 0)
    BY <1>1, <1>4, <1>8, FitSame DEF FitsIn, FitAfter, Counts, IoTypes
  <1>9. QED
    BY <1>3, <1>5, <1>6, <1>7, <1>8, SessionStep DEF x, y

LEMMA SentKeeps ==
  ASSUME TypeOK, SessionsInv, NEW t \in IoThreads, NEW s \in Sessions,
         SendCompletion(t, s, "sendDone")
  PROVE  SessionsInv'
  <1> DEFINE x == session[s]
             y == session'[s]
  <1>1. work \in Stacks /\ x \in SessionRec /\ Numbers(x) /\ Counts(s)
    BY Typed, Counted
  <1>2. Ready(t, "sendDone", s) /\ Done(t, <<>>)
    BY DEF SendCompletion
  <1>3. \A r \in Sessions \ {s} : session'[r] = session[r]
    BY DEF SendCompletion, TypeOK
  <1>4. /\ y.mRefCount = x.mRefCount /\ y.pending = x.pending
        /\ y.mConnected = x.mConnected /\ y.mSendPendingCount = x.mSendPendingCount - 1
        /\ Open(y) = Open(x) /\ Issue(y) = Issue(x)
    BY <1>1 DEF SendCompletion, TypeOK, SessionRec, Open, Issue
  <1>5. /\ work' \in Stacks /\ SameBut(work, work', s)
        /\ Moves(work, work', s, 0, 0, 0, 0, 0, 0, 0, -1)
    BY <1>1, <1>2, MovedSendDone
  <1>6. Running /\ mFreeSessionList' = mFreeSessionList /\ (Sound' => Sound)
    BY DEF SendCompletion, Ready, managerVars, processVars, Sound, Running
  <1>7. Tally(work, s, Sending) >= 1
    BY <1>1, <1>2, OwnStepCounts DEF Sending
  <1> HIDE DEF x, y
  <1>8. ASSUME OneSend(x, Tally(work, s, Sending))
        PROVE  OneSend(y, Tally(work, s, Sending) + (-1))
    BY <1>1, <1>4, <1>7, <1>8 DEF OneSend, Numbers, Counts, IoTypes
  <1>9. ASSUME Sound', FitsIn(x, work, mFreeSessionList, s)
        PROVE  FitAfter(y, work, mFreeSessionList, s, 0, 0, 0, 0, 0, 0, 0)
    BY <1>1, <1>4, <1>7, <1>9, FitSame DEF FitsIn, FitAfter, Counts, IoTypes
  <1>10. QED
    BY <1>3, <1>5, <1>6, <1>8, <1>9, SessionStep DEF x, y

LEMMA SentShortKeeps ==
  ASSUME TypeOK, SessionsInv, NEW t \in IoThreads, NEW s \in Sessions,
         SendCompletion(t, s, "sendShort")
  PROVE  SessionsInv'
  <1> DEFINE x == session[s]
             y == session'[s]
  <1>1. work \in Stacks /\ x \in SessionRec /\ Numbers(x) /\ Counts(s)
    BY Typed, Counted
  <1>2. Ready(t, "sendShort", s) /\ Done(t, <<>>)
    BY DEF SendCompletion
  <1>3. \A r \in Sessions \ {s} : session'[r] = session[r]
    BY DEF SendCompletion, TypeOK
  <1>4. /\ y.mRefCount = x.mRefCount /\ y.pending = x.pending
        /\ y.mConnected = x.mConnected /\ y.mSendPendingCount = x.mSendPendingCount - 1
        /\ Open(y) = Open(x) /\ Issue(y) = Issue(x)
    BY <1>1 DEF SendCompletion, TypeOK, SessionRec, Open, Issue
  <1>5. /\ work' \in Stacks /\ SameBut(work, work', s)
        /\ Moves(work, work', s, 0, 0, 0, 0, 0, 0, 0, -1)
    BY <1>1, <1>2, MovedSendShort
  <1>6. Running /\ mFreeSessionList' = mFreeSessionList /\ (Sound' => Sound)
    BY DEF SendCompletion, Ready, managerVars, processVars, Sound, Running
  <1>7. Tally(work, s, Sending) >= 1
    BY <1>1, <1>2, OwnStepCounts DEF Sending
  <1> HIDE DEF x, y
  <1>8. ASSUME OneSend(x, Tally(work, s, Sending))
        PROVE  OneSend(y, Tally(work, s, Sending) + (-1))
    BY <1>1, <1>4, <1>7, <1>8 DEF OneSend, Numbers, Counts, IoTypes
  <1>9. ASSUME Sound', FitsIn(x, work, mFreeSessionList, s)
        PROVE  FitAfter(y, work, mFreeSessionList, s, 0, 0, 0, 0, 0, 0, 0)
    BY <1>1, <1>4, <1>7, <1>9, FitSame DEF FitsIn, FitAfter, Counts, IoTypes
  <1>10. QED
    BY <1>3, <1>5, <1>6, <1>8, <1>9, SessionStep DEF x, y

(* DisconnectRequest: somebody else was first, DisconnectEx, its failure. *)
LEMMA DisconnectedBefore ==
  ASSUME TypeOK, SessionsInv, NEW t \in IoThreads, NEW s \in Sessions,
         DisconnectRequest(t, s), session[s].mConnected = 0
  PROVE  SessionsInv'
  <1> DEFINE x == session[s]
             y == session'[s]
  <1>1. work \in Stacks /\ x \in SessionRec /\ Numbers(x) /\ Counts(s)
    BY Typed, Counted
  <1>2. Ready(t, "disconnect", s) /\ Done(t, <<>>)
    BY DEF DisconnectRequest
  <1>3. y = x /\ \A r \in Sessions \ {s} : session'[r] = session[r]
    BY DEF DisconnectRequest, TypeOK
  <1>4. y = x
    BY <1>3
  <1>5. /\ work' \in Stacks /\ SameBut(work, work', s)
        /\ Moves(work, work', s, 0, 0, 0, 0, 0, -1, 0, 0)
    BY <1>1, <1>2, MovedDisconnect
  <1>6. Running /\ mFreeSessionList' = mFreeSessionList /\ (Sound' => Sound)
    BY DEF DisconnectRequest, Ready, managerVars, processVars, Sound, Running
  <1>7. x.mConnected = 0
    OBVIOUS
  <1> HIDE DEF x, y
  <1>8. ASSUME OneSend(x, Tally(work, s, Sending))
        PROVE  OneSend(y, Tally(work, s, Sending) + 0)
    BY <1>1, <1>4, <1>7, <1>8 DEF OneSend, Numbers, Counts, IoTypes
  <1>9. ASSUME Sound', FitsIn(x, work, mFreeSessionList, s)
        PROVE  FitAfter(y, work, mFreeSessionList, s, 0, 0, 0, 0, 0, -1, 0)
    BY <1>1, <1>4, <1>7, <1>9, FitDisconnectedBefore DEF FitsIn, FitAfter, Counts, IoTypes
  <1>10. QED
    BY <1>3, <1>5, <1>6, <1>8, <1>9, SessionStep DEF x, y

LEMMA Disconnects ==
  ASSUME TypeOK, SessionsInv, NEW t \in IoThreads, NEW s \in Sessions,
         DisconnectRequest(t, s),
         session[s].mConnected = 1, Done(t, <<>>),
         session' = [session EXCEPT ![s] = Disconnecting(session[s])]
  PROVE  SessionsInv'
  <1> DEFINE x == session[s]
             y == session'[s]
  <1>1. work \in Stacks /\ x \in SessionRec /\ Numbers(x) /\ Counts(s)
    BY Typed, Counted
  <1>2. Ready(t, "disconnect", s) /\ Done(t, <<>>)
    BY DEF DisconnectRequest
  <1>3. y = Disconnecting(x) /\ \A r \in Sessions \ {s} : session'[r] = session[r]
    BY DEF TypeOK
  <1>4. /\ y.mRefCount = x.mRefCount + 1 /\ PendingSum(y.pending) = PendingSum(x.pending) + 1
        /\ y.pending["DISCONNECT"] = x.pending["DISCONNECT"] + 1
        /\ \A io \in IoTypes \ {"DISCONNECT"} : y.pending[io] = x.pending[io]
        /\ y.mConnected = 0 /\ y.mSendPendingCount = x.mSendPendingCount
        /\ Open(y) = 0 /\ Issue(y) = Issue(x)
    BY <1>1, <1>3, DisconnectingNumbers
  <1>5. /\ work' \in Stacks /\ SameBut(work, work', s)
        /\ Moves(work, work', s, 0, 0, 0, 0, 0, -1, 0, 0)
    BY <1>1, <1>2, MovedDisconnect
  <1>6. Running /\ mFreeSessionList' = mFreeSessionList /\ (Sound' => Sound)
    BY DEF DisconnectRequest, Ready, managerVars, processVars, Sound, Running
  <1>7. x.mConnected = 1
    OBVIOUS
  <1> HIDE DEF x, y
  <1>8. ASSUME OneSend(x, Tally(work, s, Sending))
        PROVE  OneSend(y, Tally(work, s, Sending) + 0)
    BY <1>1, <1>4, <1>7, <1>8 DEF OneSend, Numbers, Counts, IoTypes
  <1>9. ASSUME Sound', FitsIn(x, work, mFreeSessionList, s)
        PROVE  FitAfter(y, work, mFreeSessionList, s, 0, 0, 0, 0, 0, -1, 0)
    BY <1>1, <1>4, <1>7, <1>9, FitDisconnects, SMTT(60) DEF FitsIn, FitAfter, Counts, IoTypes
  <1>10. QED
    BY <1>3, <1>5, <1>6, <1>8, <1>9, SessionStep DEF x, y

LEMMA DisconnectFails ==
  ASSUME TypeOK, SessionsInv, NEW t \in IoThreads, NEW s \in Sessions,
         DisconnectRequest(t, s),
         session[s].mConnected = 1, Done(t, <<Step("releaseNew", s)>>),
         session[s].socket # "open" \/ MayFail("DisconnectEx"),
         session' = [session EXCEPT ![s] = DisconnectFailed(session[s])]
  PROVE  SessionsInv'
  <1> DEFINE x == session[s]
             y == session'[s]
  <1>1. work \in Stacks /\ x \in SessionRec /\ Numbers(x) /\ Counts(s)
    BY Typed, Counted
  <1>2. Ready(t, "disconnect", s) /\ Done(t, <<Step("releaseNew", s)>>)
    BY DEF DisconnectRequest
  <1>3. y = DisconnectFailed(x) /\ \A r \in Sessions \ {s} : session'[r] = session[r]
    BY DEF TypeOK
  <1>4. /\ y.mRefCount = x.mRefCount + 1 /\ y.pending = x.pending
        /\ y.mConnected = 0 /\ y.mSendPendingCount = x.mSendPendingCount
        /\ Open(y) = Open(x) /\ Issue(y) = Issue(x)
    BY <1>1, <1>3, DisconnectFailedNumbers
  <1>5. /\ work' \in Stacks /\ SameBut(work, work', s)
        /\ Moves(work, work', s, 1, 0, 0, 0, 0, -1, 0, 0)
    BY <1>1, <1>2, MovedDisconnectToReleaseNew
  <1>6. Running /\ mFreeSessionList' = mFreeSessionList /\ (Sound' => Sound)
    BY DEF DisconnectRequest, Ready, managerVars, processVars, Sound, Running
  <1>7. x.mConnected = 1
    OBVIOUS
  <1>8. Open(x) = 0 \/ ~ClaimsKept
    BY DEF Open, MayFail, ClaimsKept
  <1>9. ClaimsKept => AcceptSucceeds
    BY DEF ClaimsKept, AcceptSucceeds
  <1> HIDE DEF x, y
  <1>10. ASSUME OneSend(x, Tally(work, s, Sending))
        PROVE  OneSend(y, Tally(work, s, Sending) + 0)
    BY <1>1, <1>4, <1>7, <1>8, <1>9, <1>10 DEF OneSend, Numbers, Counts, IoTypes
  <1>11. ASSUME Sound', FitsIn(x, work, mFreeSessionList, s)
        PROVE  FitAfter(y, work, mFreeSessionList, s, 1, 0, 0, 0, 0, -1, 0)
    BY <1>1, <1>4, <1>7, <1>8, <1>9, <1>11, FitDisconnectFails DEF FitsIn, FitAfter, Counts,
       IoTypes
  <1>12. QED
    BY <1>3, <1>5, <1>6, <1>10, <1>11, SessionStep DEF x, y

(* ReleaseRef, for a context and for the issue, the last one or not. *)
LEMMA DeleteLastKeeps ==
  ASSUME TypeOK, SessionsInv, NEW t \in IoThreads, NEW s \in Sessions,
         ReleaseRef(t, s, "deleteContext"), session[s].mRefCount = 1
  PROVE  SessionsInv'
  <1> DEFINE x == session[s]
             y == session'[s]
  <1>1. work \in Stacks /\ x \in SessionRec /\ Numbers(x) /\ Counts(s)
    BY Typed, Counted
  <1>2. Ready(t, "deleteContext", s) /\ Done(t, <<Step("return", s)>>)
    BY DEF ReleaseRef
  <1>3. \A r \in Sessions \ {s} : session'[r] = session[r]
    BY DEF ReleaseRef, TypeOK
  <1>4. /\ y.mRefCount = x.mRefCount - 1 /\ y.pending = x.pending
        /\ y.mConnected = x.mConnected /\ y.mSendPendingCount = x.mSendPendingCount
        /\ Open(y) = Open(x) /\ Issue(y) = Issue(x)
    BY <1>1 DEF ReleaseRef, TypeOK, SessionRec, Open, Issue
  <1>5. /\ work' \in Stacks /\ SameBut(work, work', s)
        /\ Moves(work, work', s, -1, 0, 0, 0, 0, 0, 1, 0)
    BY <1>1, <1>2, MovedDeleteContextToReturn
  <1>6. Running /\ mFreeSessionList' = mFreeSessionList /\ (Sound' => Sound)
    BY DEF ReleaseRef, Ready, managerVars, processVars, Sound, Running
  <1>7. Tally(work, s, Deletions) >= 1
    BY <1>1, <1>2, OwnStepCounts DEF Deletions
  <1>8. x.mRefCount = 1
    OBVIOUS
  <1> HIDE DEF x, y
  <1>9. ASSUME OneSend(x, Tally(work, s, Sending))
        PROVE  OneSend(y, Tally(work, s, Sending) + 0)
    BY <1>1, <1>4, <1>7, <1>8, <1>9 DEF OneSend, Numbers, Counts, IoTypes
  <1>10. ASSUME Sound', FitsIn(x, work, mFreeSessionList, s)
        PROVE  FitAfter(y, work, mFreeSessionList, s, -1, 0, 0, 0, 0, 0, 1)
    BY <1>1, <1>4, <1>7, <1>8, <1>10, FitReleaseLastContext DEF FitsIn, FitAfter, Counts,
       IoTypes
  <1>11. QED
    BY <1>3, <1>5, <1>6, <1>9, <1>10, SessionStep DEF x, y

LEMMA DeleteKeeps ==
  ASSUME TypeOK, SessionsInv, NEW t \in IoThreads, NEW s \in Sessions,
         ReleaseRef(t, s, "deleteContext"), session[s].mRefCount # 1
  PROVE  SessionsInv'
  <1> DEFINE x == session[s]
             y == session'[s]
  <1>1. work \in Stacks /\ x \in SessionRec /\ Numbers(x) /\ Counts(s)
    BY Typed, Counted
  <1>2. Ready(t, "deleteContext", s) /\ Done(t, <<>>)
    BY DEF ReleaseRef
  <1>3. \A r \in Sessions \ {s} : session'[r] = session[r]
    BY DEF ReleaseRef, TypeOK
  <1>4. /\ y.mRefCount = x.mRefCount - 1 /\ y.pending = x.pending
        /\ y.mConnected = x.mConnected /\ y.mSendPendingCount = x.mSendPendingCount
        /\ Open(y) = Open(x) /\ Issue(y) = Issue(x)
    BY <1>1 DEF ReleaseRef, TypeOK, SessionRec, Open, Issue
  <1>5. /\ work' \in Stacks /\ SameBut(work, work', s)
        /\ Moves(work, work', s, -1, 0, 0, 0, 0, 0, 0, 0)
    BY <1>1, <1>2, MovedDeleteContext
  <1>6. Running /\ mFreeSessionList' = mFreeSessionList /\ (Sound' => Sound)
    BY DEF ReleaseRef, Ready, managerVars, processVars, Sound, Running
  <1>7. Tally(work, s, Deletions) >= 1
    BY <1>1, <1>2, OwnStepCounts DEF Deletions
  <1>8. x.mRefCount # 1
    OBVIOUS
  <1> HIDE DEF x, y
  <1>9. ASSUME OneSend(x, Tally(work, s, Sending))
        PROVE  OneSend(y, Tally(work, s, Sending) + 0)
    BY <1>1, <1>4, <1>7, <1>8, <1>9 DEF OneSend, Numbers, Counts, IoTypes
  <1>10. ASSUME Sound', FitsIn(x, work, mFreeSessionList, s)
        PROVE  FitAfter(y, work, mFreeSessionList, s, -1, 0, 0, 0, 0, 0, 0)
    BY <1>1, <1>4, <1>7, <1>8, <1>10, FitReleaseContext DEF FitsIn, FitAfter, Counts, IoTypes
  <1>11. QED
    BY <1>3, <1>5, <1>6, <1>9, <1>10, SessionStep DEF x, y

LEMMA DeleteNewLastKeeps ==
  ASSUME TypeOK, SessionsInv, NEW t \in IoThreads, NEW s \in Sessions,
         ReleaseRef(t, s, "releaseNew"), session[s].mRefCount = 1
  PROVE  SessionsInv'
  <1> DEFINE x == session[s]
             y == session'[s]
  <1>1. work \in Stacks /\ x \in SessionRec /\ Numbers(x) /\ Counts(s)
    BY Typed, Counted
  <1>2. Ready(t, "releaseNew", s) /\ Done(t, <<Step("return", s)>>)
    BY DEF ReleaseRef
  <1>3. \A r \in Sessions \ {s} : session'[r] = session[r]
    BY DEF ReleaseRef, TypeOK
  <1>4. /\ y.mRefCount = x.mRefCount - 1 /\ y.pending = x.pending
        /\ y.mConnected = x.mConnected /\ y.mSendPendingCount = x.mSendPendingCount
        /\ Open(y) = Open(x) /\ Issue(y) = Issue(x)
    BY <1>1 DEF ReleaseRef, TypeOK, SessionRec, Open, Issue
  <1>5. /\ work' \in Stacks /\ SameBut(work, work', s)
        /\ Moves(work, work', s, -1, 0, 0, 0, 0, 0, 1, 0)
    BY <1>1, <1>2, MovedReleaseNewToReturn
  <1>6. Running /\ mFreeSessionList' = mFreeSessionList /\ (Sound' => Sound)
    BY DEF ReleaseRef, Ready, managerVars, processVars, Sound, Running
  <1>7. Tally(work, s, Deletions) >= 1
    BY <1>1, <1>2, OwnStepCounts DEF Deletions
  <1>8. x.mRefCount = 1
    OBVIOUS
  <1> HIDE DEF x, y
  <1>9. ASSUME OneSend(x, Tally(work, s, Sending))
        PROVE  OneSend(y, Tally(work, s, Sending) + 0)
    BY <1>1, <1>4, <1>7, <1>8, <1>9 DEF OneSend, Numbers, Counts, IoTypes
  <1>10. ASSUME Sound', FitsIn(x, work, mFreeSessionList, s)
        PROVE  FitAfter(y, work, mFreeSessionList, s, -1, 0, 0, 0, 0, 0, 1)
    BY <1>1, <1>4, <1>7, <1>8, <1>10, FitReleaseLastContext DEF FitsIn, FitAfter, Counts,
       IoTypes
  <1>11. QED
    BY <1>3, <1>5, <1>6, <1>9, <1>10, SessionStep DEF x, y

LEMMA DeleteNewKeeps ==
  ASSUME TypeOK, SessionsInv, NEW t \in IoThreads, NEW s \in Sessions,
         ReleaseRef(t, s, "releaseNew"), session[s].mRefCount # 1
  PROVE  SessionsInv'
  <1> DEFINE x == session[s]
             y == session'[s]
  <1>1. work \in Stacks /\ x \in SessionRec /\ Numbers(x) /\ Counts(s)
    BY Typed, Counted
  <1>2. Ready(t, "releaseNew", s) /\ Done(t, <<>>)
    BY DEF ReleaseRef
  <1>3. \A r \in Sessions \ {s} : session'[r] = session[r]
    BY DEF ReleaseRef, TypeOK
  <1>4. /\ y.mRefCount = x.mRefCount - 1 /\ y.pending = x.pending
        /\ y.mConnected = x.mConnected /\ y.mSendPendingCount = x.mSendPendingCount
        /\ Open(y) = Open(x) /\ Issue(y) = Issue(x)
    BY <1>1 DEF ReleaseRef, TypeOK, SessionRec, Open, Issue
  <1>5. /\ work' \in Stacks /\ SameBut(work, work', s)
        /\ Moves(work, work', s, -1, 0, 0, 0, 0, 0, 0, 0)
    BY <1>1, <1>2, MovedReleaseNew
  <1>6. Running /\ mFreeSessionList' = mFreeSessionList /\ (Sound' => Sound)
    BY DEF ReleaseRef, Ready, managerVars, processVars, Sound, Running
  <1>7. Tally(work, s, Deletions) >= 1
    BY <1>1, <1>2, OwnStepCounts DEF Deletions
  <1>8. x.mRefCount # 1
    OBVIOUS
  <1> HIDE DEF x, y
  <1>9. ASSUME OneSend(x, Tally(work, s, Sending))
        PROVE  OneSend(y, Tally(work, s, Sending) + 0)
    BY <1>1, <1>4, <1>7, <1>8, <1>9 DEF OneSend, Numbers, Counts, IoTypes
  <1>10. ASSUME Sound', FitsIn(x, work, mFreeSessionList, s)
        PROVE  FitAfter(y, work, mFreeSessionList, s, -1, 0, 0, 0, 0, 0, 0)
    BY <1>1, <1>4, <1>7, <1>8, <1>10, FitReleaseContext DEF FitsIn, FitAfter, Counts, IoTypes
  <1>11. QED
    BY <1>3, <1>5, <1>6, <1>9, <1>10, SessionStep DEF x, y

LEMMA ReleaseIssueLastKeeps ==
  ASSUME TypeOK, SessionsInv, NEW t \in IoThreads, NEW s \in Sessions,
         ReleaseRef(t, s, "releaseIssue"), session[s].mRefCount = 1
  PROVE  SessionsInv'
  <1> DEFINE x == session[s]
             y == session'[s]
  <1>1. work \in Stacks /\ x \in SessionRec /\ Numbers(x) /\ Counts(s)
    BY Typed, Counted
  <1>2. Ready(t, "releaseIssue", s) /\ Done(t, <<Step("return", s)>>)
    BY DEF ReleaseRef
  <1>3. \A r \in Sessions \ {s} : session'[r] = session[r]
    BY DEF ReleaseRef, TypeOK
  <1>4. /\ y.mRefCount = x.mRefCount - 1 /\ y.pending = x.pending
        /\ y.mConnected = x.mConnected /\ y.mSendPendingCount = x.mSendPendingCount
        /\ Open(y) = Open(x) /\ Issue(y) = 0
    BY <1>1 DEF ReleaseRef, TypeOK, SessionRec, Open, Issue
  <1>5. /\ work' \in Stacks /\ SameBut(work, work', s)
        /\ Moves(work, work', s, 0, -1, 0, 0, 0, 0, 1, 0)
    BY <1>1, <1>2, MovedReleaseIssueToReturn
  <1>6. Running /\ mFreeSessionList' = mFreeSessionList /\ (Sound' => Sound)
    BY DEF ReleaseRef, Ready, managerVars, processVars, Sound, Running
  <1>7. Tally(work, s, Claiming) >= 1
    BY <1>1, <1>2, OwnStepCounts DEF Claiming
  <1>8. x.mRefCount = 1
    OBVIOUS
  <1> HIDE DEF x, y
  <1>9. ASSUME OneSend(x, Tally(work, s, Sending))
        PROVE  OneSend(y, Tally(work, s, Sending) + 0)
    BY <1>1, <1>4, <1>7, <1>8, <1>9 DEF OneSend, Numbers, Counts, IoTypes
  <1>10. ASSUME Sound', FitsIn(x, work, mFreeSessionList, s)
        PROVE  FitAfter(y, work, mFreeSessionList, s, 0, -1, 0, 0, 0, 0, 1)
    BY <1>1, <1>4, <1>7, <1>8, <1>10, FitReleaseLastIssue DEF FitsIn, FitAfter, Counts, IoTypes
  <1>11. QED
    BY <1>3, <1>5, <1>6, <1>9, <1>10, SessionStep DEF x, y

LEMMA ReleaseIssueKeeps ==
  ASSUME TypeOK, SessionsInv, NEW t \in IoThreads, NEW s \in Sessions,
         ReleaseRef(t, s, "releaseIssue"), session[s].mRefCount # 1
  PROVE  SessionsInv'
  <1> DEFINE x == session[s]
             y == session'[s]
  <1>1. work \in Stacks /\ x \in SessionRec /\ Numbers(x) /\ Counts(s)
    BY Typed, Counted
  <1>2. Ready(t, "releaseIssue", s) /\ Done(t, <<>>)
    BY DEF ReleaseRef
  <1>3. \A r \in Sessions \ {s} : session'[r] = session[r]
    BY DEF ReleaseRef, TypeOK
  <1>4. /\ y.mRefCount = x.mRefCount - 1 /\ y.pending = x.pending
        /\ y.mConnected = x.mConnected /\ y.mSendPendingCount = x.mSendPendingCount
        /\ Open(y) = Open(x) /\ Issue(y) = 0
    BY <1>1 DEF ReleaseRef, TypeOK, SessionRec, Open, Issue
  <1>5. /\ work' \in Stacks /\ SameBut(work, work', s)
        /\ Moves(work, work', s, 0, -1, 0, 0, 0, 0, 0, 0)
    BY <1>1, <1>2, MovedReleaseIssue
  <1>6. Running /\ mFreeSessionList' = mFreeSessionList /\ (Sound' => Sound)
    BY DEF ReleaseRef, Ready, managerVars, processVars, Sound, Running
  <1>7. Tally(work, s, Claiming) >= 1
    BY <1>1, <1>2, OwnStepCounts DEF Claiming
  <1>8. x.mRefCount # 1
    OBVIOUS
  <1> HIDE DEF x, y
  <1>9. ASSUME OneSend(x, Tally(work, s, Sending))
        PROVE  OneSend(y, Tally(work, s, Sending) + 0)
    BY <1>1, <1>4, <1>7, <1>8, <1>9 DEF OneSend, Numbers, Counts, IoTypes
  <1>10. ASSUME Sound', FitsIn(x, work, mFreeSessionList, s)
        PROVE  FitAfter(y, work, mFreeSessionList, s, 0, -1, 0, 0, 0, 0, 0)
    BY <1>1, <1>4, <1>7, <1>8, <1>10, FitReleaseIssue DEF FitsIn, FitAfter, Counts, IoTypes
  <1>11. QED
    BY <1>3, <1>5, <1>6, <1>9, <1>10, SessionStep DEF x, y

(* ReturnClientSession and the reset of the session. *)
LEMMA ReturnKeeps ==
  ASSUME TypeOK, SessionsInv, NEW t \in IoThreads, NEW s \in Sessions,
         ReturnClientSession(t, s)
  PROVE  SessionsInv'
  <1> DEFINE x == session[s]
             y == session'[s]
  <1>1. work \in Stacks /\ x \in SessionRec /\ Numbers(x) /\ Counts(s)
    BY Typed, Counted
  <1>2. Ready(t, "return", s) /\ Done(t, <<Step("resetSend", s), Step("reset", s)>>)
    BY DEF ReturnClientSession
  <1>3. y = x /\ \A r \in Sessions \ {s} : session'[r] = session[r]
    BY DEF ReturnClientSession, TypeOK
  <1>4. y = x
    BY <1>3
  <1>5. /\ work' \in Stacks /\ SameBut(work, work', s)
        /\ Moves(work, work', s, 0, 0, 0, 0, 0, 0, 0, 0)
    BY <1>1, <1>2, MovedReturnToResetSendReset
  <1>6. Running /\ mFreeSessionList' = mFreeSessionList /\ (Sound' => Sound)
    BY DEF ReturnClientSession, Ready, managerVars, processVars, Sound, Running
  <1> HIDE DEF x, y
  <1>7. ASSUME OneSend(x, Tally(work, s, Sending))
        PROVE  OneSend(y, Tally(work, s, Sending) + 0)
    BY <1>1, <1>4, <1>7 DEF OneSend, Numbers, Counts, IoTypes
  <1>8. ASSUME Sound', FitsIn(x, work, mFreeSessionList, s)
        PROVE  FitAfter(y, work, mFreeSessionList, s, 0, 0, 0, 0, 0, 0, 0)
    BY <1>1, <1>4, <1>8, FitSame DEF FitsIn, FitAfter, Counts, IoTypes
  <1>9. QED
    BY <1>3, <1>5, <1>6, <1>7, <1>8, SessionStep DEF x, y

LEMMA ResetKeeps ==
  ASSUME TypeOK, SessionsInv, NEW t \in IoThreads, NEW s \in Sessions,
         SessionReset(t, s), StackOK(t)
  PROVE  SessionsInv'
  <1> DEFINE x == session[s]
             y == session'[s]
  <1>1. work \in Stacks /\ x \in SessionRec /\ Numbers(x) /\ Counts(s)
    BY Typed, Counted
  <1>2. Ready(t, "reset", s) /\ Done(t, <<>>)
    BY DEF SessionReset
  <1>3. \A r \in Sessions \ {s} : session'[r] = session[r]
    BY DEF SessionReset, TypeOK
  <1>4. /\ y.mRefCount = 0 /\ y.pending = x.pending
        /\ y.mConnected = 0 /\ y.mSendPendingCount = x.mSendPendingCount
        /\ Open(y) = Open(x) /\ Issue(y) = Issue(x)
    BY <1>1 DEF SessionReset, TypeOK, SessionRec, Open, Issue
  <1>5. /\ work' \in Stacks /\ SameBut(work, work', s)
        /\ Moves(work, work', s, 0, 0, 0, 0, 0, 0, 0, 0)
    BY <1>1, <1>2, MovedReset
  <1>6. Running /\ mFreeSessionList' = mFreeSessionList /\ (Sound' => Sound)
    BY DEF SessionReset, Ready, managerVars, processVars, Sound, Running
  <1>7. Pooled(mFreeSessionList, s) + Tally(work, s, Returning) >= 1
    BY <1>1, <1>2, ResetIsReturning
  <1> HIDE DEF x, y
  <1>8. ASSUME OneSend(x, Tally(work, s, Sending))
        PROVE  OneSend(y, Tally(work, s, Sending) + 0)
    BY <1>1, <1>4, <1>7, <1>8 DEF OneSend, Numbers, Counts, IoTypes
  <1>9. ASSUME Sound', FitsIn(x, work, mFreeSessionList, s)
        PROVE  FitAfter(y, work, mFreeSessionList, s, 0, 0, 0, 0, 0, 0, 0)
    BY <1>1, <1>4, <1>7, <1>9, FitReset DEF FitsIn, FitAfter, Counts, IoTypes
  <1>10. QED
    BY <1>3, <1>5, <1>6, <1>8, <1>9, SessionStep DEF x, y

(* DoSendJob and the branches of FlushSend. *)
LEMMA FlushAgainKeeps ==
  ASSUME TypeOK, SessionsInv, NEW t \in IoThreads, NEW s \in Sessions,
         FlushAgain(t, s)
  PROVE  SessionsInv'
  <1> DEFINE x == session[s]
             y == session'[s]
  <1>1. work \in Stacks /\ x \in SessionRec /\ Numbers(x) /\ Counts(s)
    BY Typed, Counted
  <1>2. Ready(t, "flush", s) /\ Done(t, <<>>)
    BY DEF FlushAgain, InFlush
  <1>3. y = x /\ \A r \in Sessions \ {s} : session'[r] = session[r]
    BY DEF FlushAgain, TypeOK
  <1>4. y = x
    BY <1>3
  <1>5. /\ work' \in Stacks /\ SameBut(work, work', s)
        /\ Moves(work, work', s, 0, 0, 0, 0, 0, 0, 0, 0)
    BY <1>1, <1>2, MovedFlush
  <1>6. Running /\ mFreeSessionList' = mFreeSessionList /\ (Sound' => Sound)
    BY DEF FlushAgain, InFlush, Ready, managerVars, processVars, Sound, Running
  <1> HIDE DEF x, y
  <1>7. ASSUME OneSend(x, Tally(work, s, Sending))
        PROVE  OneSend(y, Tally(work, s, Sending) + 0)
    BY <1>1, <1>4, <1>7 DEF OneSend, Numbers, Counts, IoTypes
  <1>8. ASSUME Sound', FitsIn(x, work, mFreeSessionList, s)
        PROVE  FitAfter(y, work, mFreeSessionList, s, 0, 0, 0, 0, 0, 0, 0)
    BY <1>1, <1>4, <1>8, FitSame DEF FitsIn, FitAfter, Counts, IoTypes
  <1>9. QED
    BY <1>3, <1>5, <1>6, <1>7, <1>8, SessionStep DEF x, y

LEMMA FlushNothingKeeps ==
  ASSUME TypeOK, SessionsInv, NEW t \in IoThreads, NEW s \in Sessions,
         FlushNothing(t, s)
  PROVE  SessionsInv'
  <1> DEFINE x == session[s]
             y == session'[s]
  <1>1. work \in Stacks /\ x \in SessionRec /\ Numbers(x) /\ Counts(s)
    BY Typed, Counted
  <1>2. Ready(t, "flush", s) /\ Done(t, <<>>)
    BY DEF FlushNothing, InFlush
  <1>3. y = x /\ \A r \in Sessions \ {s} : session'[r] = session[r]
    BY DEF FlushNothing, TypeOK
  <1>4. y = x
    BY <1>3
  <1>5. /\ work' \in Stacks /\ SameBut(work, work', s)
        /\ Moves(work, work', s, 0, 0, 0, 0, 0, 0, 0, 0)
    BY <1>1, <1>2, MovedFlush
  <1>6. Running /\ mFreeSessionList' = mFreeSessionList /\ (Sound' => Sound)
    BY DEF FlushNothing, InFlush, Ready, managerVars, processVars, Sound, Running
  <1> HIDE DEF x, y
  <1>7. ASSUME OneSend(x, Tally(work, s, Sending))
        PROVE  OneSend(y, Tally(work, s, Sending) + 0)
    BY <1>1, <1>4, <1>7 DEF OneSend, Numbers, Counts, IoTypes
  <1>8. ASSUME Sound', FitsIn(x, work, mFreeSessionList, s)
        PROVE  FitAfter(y, work, mFreeSessionList, s, 0, 0, 0, 0, 0, 0, 0)
    BY <1>1, <1>4, <1>8, FitSame DEF FitsIn, FitAfter, Counts, IoTypes
  <1>9. QED
    BY <1>3, <1>5, <1>6, <1>7, <1>8, SessionStep DEF x, y

LEMMA UnlockKeeps ==
  ASSUME TypeOK, SessionsInv, NEW t \in IoThreads, NEW s \in Sessions,
         Unlock(t, s)
  PROVE  SessionsInv'
  <1> DEFINE x == session[s]
             y == session'[s]
  <1>1. work \in Stacks /\ x \in SessionRec /\ Numbers(x) /\ Counts(s)
    BY Typed, Counted
  <1>2. Ready(t, "unlock", s) /\ Done(t, <<>>)
    BY DEF Unlock
  <1>3. \A r \in Sessions \ {s} : session'[r] = session[r]
    BY DEF Unlock, TypeOK
  <1>4. /\ y.mRefCount = x.mRefCount /\ y.pending = x.pending
        /\ y.mConnected = x.mConnected /\ y.mSendPendingCount = x.mSendPendingCount
        /\ Open(y) = Open(x) /\ Issue(y) = Issue(x)
    BY <1>1 DEF Unlock, TypeOK, SessionRec, Open, Issue
  <1>5. /\ work' \in Stacks /\ SameBut(work, work', s)
        /\ Moves(work, work', s, 0, 0, 0, 0, 0, 0, 0, 0)
    BY <1>1, <1>2, MovedUnlock
  <1>6. Running /\ mFreeSessionList' = mFreeSessionList /\ (Sound' => Sound)
    BY DEF Unlock, Ready, managerVars, processVars, Sound, Running
  <1> HIDE DEF x, y
  <1>7. ASSUME OneSend(x, Tally(work, s, Sending))
        PROVE  OneSend(y, Tally(work, s, Sending) + 0)
    BY <1>1, <1>4, <1>7 DEF OneSend, Numbers, Counts, IoTypes
  <1>8. ASSUME Sound', FitsIn(x, work, mFreeSessionList, s)
        PROVE  FitAfter(y, work, mFreeSessionList, s, 0, 0, 0, 0, 0, 0, 0)
    BY <1>1, <1>4, <1>8, FitSame DEF FitsIn, FitAfter, Counts, IoTypes
  <1>9. QED
    BY <1>3, <1>5, <1>6, <1>7, <1>8, SessionStep DEF x, y

LEMMA PopKeeps ==
  ASSUME TypeOK, SessionsInv, NEW t \in IoThreads, NEW s \in Sessions,
         Pop(t, s)
  PROVE  SessionsInv'
  <1> DEFINE x == session[s]
             y == session'[s]
  <1>1. work \in Stacks /\ x \in SessionRec /\ Numbers(x) /\ Counts(s)
    BY Typed, Counted
  <1>2. Ready(t, "pop", s) /\ Done(t, <<>>)
    BY DEF Pop
  <1>3. y = x /\ \A r \in Sessions \ {s} : session'[r] = session[r]
    BY DEF Pop, TypeOK
  <1>4. y = x
    BY <1>3
  <1>5. /\ work' \in Stacks /\ SameBut(work, work', s)
        /\ Moves(work, work', s, 0, 0, 0, 0, 0, 0, 0, 0)
    BY <1>1, <1>2, MovedPop
  <1>6. Running /\ mFreeSessionList' = mFreeSessionList /\ (Sound' => Sound)
    BY DEF Pop, Ready, managerVars, processVars, Sound, Running
  <1> HIDE DEF x, y
  <1>7. ASSUME OneSend(x, Tally(work, s, Sending))
        PROVE  OneSend(y, Tally(work, s, Sending) + 0)
    BY <1>1, <1>4, <1>7 DEF OneSend, Numbers, Counts, IoTypes
  <1>8. ASSUME Sound', FitsIn(x, work, mFreeSessionList, s)
        PROVE  FitAfter(y, work, mFreeSessionList, s, 0, 0, 0, 0, 0, 0, 0)
    BY <1>1, <1>4, <1>8, FitSame DEF FitsIn, FitAfter, Counts, IoTypes
  <1>9. QED
    BY <1>3, <1>5, <1>6, <1>7, <1>8, SessionStep DEF x, y

LEMMA FlushFailsKeeps ==
  ASSUME TypeOK, SessionsInv, NEW t \in IoThreads, NEW s \in Sessions,
         FlushFails(t, s)
  PROVE  SessionsInv'
  <1> DEFINE x == session[s]
             y == session'[s]
  <1>1. work \in Stacks /\ x \in SessionRec /\ Numbers(x) /\ Counts(s)
    BY Typed, Counted
  <1>2. Ready(t, "flush", s)
          /\ Done(t, <<Step("pop", s), Step("unlock", s), Step("disconnect", s),
               Step("releaseNew", s)>>)
    BY DEF FlushFails, InFlush
  <1>3. y = [WithFailedContext(x) EXCEPT !.mSendBufferLock = t]
          /\ \A r \in Sessions \ {s} : session'[r] = session[r]
    BY DEF FlushFails, TypeOK
  <1>4. Referenced(x, y)
    BY <1>1, <1>3, FlushFailedNumbers
  <1>5. /\ work' \in Stacks /\ SameBut(work, work', s)
        /\ Moves(work, work', s, 1, 0, 0, 0, 0, 1, 0, 0)
    BY <1>1, <1>2, MovedFlushToPopUnlockDisconnectReleaseNew
  <1>6. Running /\ mFreeSessionList' = mFreeSessionList /\ (Sound' => Sound)
    BY DEF FlushFails, InFlush, Ready, managerVars, processVars, Sound, Running
  <1>7. Sound' => x.mRefCount # 0
    BY DEF FlushFails, Sound, Revived
  <1> HIDE DEF x, y
  <1>8. ASSUME OneSend(x, Tally(work, s, Sending))
        PROVE  OneSend(y, Tally(work, s, Sending) + 0)
    BY <1>1, <1>4, <1>7, <1>8 DEF OneSend, Numbers, Counts, IoTypes, Referenced
  <1>9. ASSUME Sound', FitsIn(x, work, mFreeSessionList, s)
        PROVE  FitAfter(y, work, mFreeSessionList, s, 1, 0, 0, 0, 0, 1, 0)
    BY <1>1, <1>4, <1>7, <1>9, FitFailedContext DEF FitsIn, FitAfter, Counts, IoTypes,
       Referenced
  <1>10. QED
    BY <1>3, <1>5, <1>6, <1>8, <1>9, SessionStep DEF x, y

LEMMA FlushIssueKeeps ==
  ASSUME TypeOK, SessionsInv, NEW t \in IoThreads, NEW s \in Sessions,
         FlushIssue(t, s)
  PROVE  SessionsInv'
  <1> DEFINE x == session[s]
             y == session'[s]
  <1>1. work \in Stacks /\ x \in SessionRec /\ Numbers(x) /\ Counts(s)
    BY Typed, Counted
  <1>2. Ready(t, "flush", s) /\ Done(t, <<>>)
    BY DEF FlushIssue, InFlush
  <1>3. (\E n \in Nat : y = WithSend(x, n)) /\ \A r \in Sessions \ {s} : session'[r]
          = session[r]
    BY <1>1, IssuedSend
  <1>4. /\ y.mRefCount = x.mRefCount + 1 /\ PendingSum(y.pending) = PendingSum(x.pending) + 1
        /\ y.pending["SEND"] = x.pending["SEND"] + 1
        /\ \A io \in IoTypes \ {"SEND"} : y.pending[io] = x.pending[io]
        /\ y.mConnected = x.mConnected /\ y.mSendPendingCount = x.mSendPendingCount + 1
        /\ Open(y) = Open(x) /\ Issue(y) = Issue(x)
    BY <1>1, <1>3, FlushIssueNumbers
  <1>5. /\ work' \in Stacks /\ SameBut(work, work', s)
        /\ Moves(work, work', s, 0, 0, 0, 0, 0, 0, 0, 0)
    BY <1>1, <1>2, MovedFlush
  <1>6. Running /\ mFreeSessionList' = mFreeSessionList /\ (Sound' => Sound)
    BY DEF FlushIssue, InFlush, Ready, managerVars, processVars, Sound, Running
  <1>7. Sound' => x.mRefCount # 0
    BY DEF FlushIssue, Sound, Revived
  <1>8. x.mSendPendingCount = 0
    BY DEF FlushIssue
  <1> HIDE DEF x, y
  <1>9. ASSUME OneSend(x, Tally(work, s, Sending))
        PROVE  OneSend(y, Tally(work, s, Sending) + 0)
    BY <1>1, <1>4, <1>7, <1>8, <1>9 DEF OneSend, Numbers, Counts, IoTypes
  <1>10. ASSUME Sound', FitsIn(x, work, mFreeSessionList, s)
        PROVE  FitAfter(y, work, mFreeSessionList, s, 0, 0, 0, 0, 0, 0, 0)
    BY <1>1, <1>4, <1>7, <1>8, <1>10, FitNewContext DEF FitsIn, FitAfter, Counts, IoTypes
  <1>11. QED
    BY <1>3, <1>5, <1>6, <1>9, <1>10, SessionStep DEF x, y

(* AcceptEx completes. *)
LEMMA AcceptTaken ==
  ASSUME TypeOK, NEW t \in IoThreads, NEW s \in Sessions, NEW ok \in BOOLEAN,
         AcceptDequeued(t, s, ok),
         NEW x, x = session[s], NEW y, y = session'[s]
  PROVE  /\ \A r \in Sessions \ {s} : session'[r] = session[r]
         /\ y.mRefCount = x.mRefCount /\ PendingSum(y.pending) = PendingSum(x.pending) - 1
         /\ y.pending["ACCEPT"] = x.pending["ACCEPT"] - 1
         /\ \A io \in IoTypes \ {"ACCEPT"} : y.pending[io] = x.pending[io]
         /\ y.mConnected = x.mConnected /\ y.mSendPendingCount = x.mSendPendingCount
         /\ Issue(y) = Issue(x) /\ Open(y) \in {0, 1}
         /\ Open(y) = 1 \/ (Open(y) = Open(x) /\ ~AcceptSucceeds)
  <1> DEFINE z == [x EXCEPT !.pending["ACCEPT"] = @ - 1]
  <1>1. x \in SessionRec /\ "ACCEPT" \in IoTypes
    BY Typed DEF IoTypes
  <1>2. Dequeued(x, z, "ACCEPT")
    BY <1>1, TakenNumbers
  <1>3. z.socket = x.socket /\ z.issued = x.issued /\ DOMAIN z = DOMAIN x
    BY <1>1 DEF SessionRec
  <1>4. /\ Taken(s, "ACCEPT")[s] = z /\ DOMAIN Taken(s, "ACCEPT") = Sessions
        /\ \A r \in Sessions \ {s} : Taken(s, "ACCEPT")[r] = session[r]
    BY DEF Taken, TypeOK
  <1> DEFINE v == Taken(s, "ACCEPT")
  <1>5. session' = [v EXCEPT ![s].socket = IF ok THEN "open" ELSE @]
    BY DEF AcceptDequeued
  <1> HIDE DEF v, z
  <1>6. /\ y = [z EXCEPT !.socket = IF ok THEN "open" ELSE z.socket]
        /\ \A r \in Sessions \ {s} : session'[r] = session[r]
    BY <1>4, <1>5 DEF v
  <1>7. DOMAIN z = {"mConnected", "mRefCount", "mSendPendingCount", "mSendBufferLock", "stored",
                    "sendLen", "socket", "pending", "issued"}
    BY <1>1, <1>3 DEF SessionRec
  <1>8. /\ y.mRefCount = z.mRefCount /\ y.pending = z.pending /\ y.mConnected = z.mConnected
        /\ y.mSendPendingCount = z.mSendPendingCount /\ y.issued = z.issued
        /\ y.socket = IF ok THEN "open" ELSE z.socket
    BY <1>6, <1>7
  <1>9. ok \/ ~AcceptSucceeds
    BY DEF AcceptDequeued, MayFail, AcceptSucceeds
  <1>10. QED
    BY <1>2, <1>3, <1>6, <1>8, <1>9 DEF Dequeued, Open, Issue

LEMMA AcceptDequeuedKeeps ==
  ASSUME TypeOK, SessionsInv, NEW t \in IoThreads, NEW s \in Sessions, NEW ok \in BOOLEAN,
         AcceptDequeued(t, s, ok)
  PROVE  SessionsInv'
  <1> DEFINE x == session[s]
             y == session'[s]
  <1>1. "ACCEPT" \in IoTypes /\ Dequeue(t, s, "ACCEPT", <<Step("accept", s)>>)
    BY DEF AcceptDequeued, IoTypes
  <1>2. \A r \in Sessions \ {s} : session'[r] = session[r]
    BY AcceptTaken
  <1>3. /\ y.mRefCount = x.mRefCount /\ PendingSum(y.pending) = PendingSum(x.pending) - 1
        /\ y.pending["ACCEPT"] = x.pending["ACCEPT"] - 1
        /\ \A io \in IoTypes \ {"ACCEPT"} : y.pending[io] = x.pending[io]
        /\ y.mConnected = x.mConnected /\ y.mSendPendingCount = x.mSendPendingCount
        /\ Issue(y) = Issue(x) /\ Open(y) \in {0, 1}
        /\ Open(y) = 1 \/ (Open(y) = Open(x) /\ ~AcceptSucceeds)
    BY AcceptTaken
  <1>4. Numbers(x) /\ x.pending["ACCEPT"] >= 1 /\ Counts(s)
    BY <1>1, Typed, FromPort, Counted
  <1>5. Running /\ mFreeSessionList' = mFreeSessionList /\ (Sound' => Sound)
    BY <1>1, FromPort
  <1>6. work \in Stacks /\ Begins(t, <<Step("deleteContext", s), Step("accept", s)>>)
    <2>1. Begins(t, <<Step("deleteContext", s)>> \o <<Step("accept", s)>>)
      BY <1>1, FromPort
    <2>2. <<Step("deleteContext", s)>> \o <<Step("accept", s)>>
            = <<Step("deleteContext", s), Step("accept", s)>>
      BY JoinedSteps
    <2>3. QED
      BY <2>1, <2>2, Typed
  <1>7. /\ work' \in Stacks /\ SameBut(work, work', s)
        /\ Moves(work, work', s, 1, 1, 1, 0, 0, 0, 0, 0)
    <2>1. "deleteContext" \in Steps /\ "accept" \in Steps
      BY DEF Steps, ReleaseSteps, ReceiveSteps
    <2>2. /\ work' \in Stacks /\ SameBut(work, work', s)
          /\ Gains2(work, work', s, "deleteContext", "accept")
      BY <1>6, <2>1, GainsSteps2
    <2>3. /\ Row("deleteContext", 1, 0, 0, 0, 0, 0, 0, 0)
          /\ Row("accept", 0, 1, 1, 0, 0, 0, 0, 0)
      BY Rows
    <2>4. Moves(work, work', s, 1 + 0, 0 + 1, 0 + 1, 0 + 0, 0 + 0, 0 + 0, 0 + 0, 0 + 0)
      BY <2>2, <2>3 DEF Gains2, Row
    <2>5. QED
      BY <2>2, <2>4, SmallSums, Zenon
  <1> HIDE DEF x, y
  <1>8. ASSUME OneSend(x, Tally(work, s, Sending))
        PROVE  OneSend(y, Tally(work, s, Sending) + 0)
    BY <1>3, <1>4, <1>8 DEF OneSend, Numbers, Counts, IoTypes
  <1>9. ASSUME FitsIn(x, work, mFreeSessionList, s)
        PROVE  FitAfter(y, work, mFreeSessionList, s, 1, 1, 1, 0, 0, 0, 0)
    BY <1>3, <1>4, <1>9, FitAcceptDequeued DEF FitsIn, FitAfter, Counts, IoTypes
  <1>10. QED
    BY <1>2, <1>5, <1>7, <1>8, <1>9, SessionStep DEF x, y

(* A step after which the process has stopped. *)
LEMMA NothingRuns == ~Running' => SessionsInv'
  BY DEF SessionsInv, Sound

(* A step that changes no session, no stack and not the pool. *)
LEMMA NothingMoves ==
  ASSUME SessionsInv, UNCHANGED <<session, work, mFreeSessionList>>, Running, Sound' => Sound
  PROVE  SessionsInv'
  BY DEF SessionsInv, SessionGood

-----------------------------------------------------------------------------
(* The pool: a session more, a session less. *)
LEMMA PooledAppend ==
  ASSUME NEW f \in Seq(Sessions), NEW s \in Sessions
  PROVE  /\ Pooled(Append(f, s), s) = Pooled(f, s) + 1
         /\ \A r \in Sessions \ {s} : Pooled(Append(f, s), r) = Pooled(f, r)
  <1> DEFINE g == Append(f, s)
             n == Len(f) + 1
  <1>1. /\ DOMAIN g = DOMAIN f \cup {n} /\ n \notin DOMAIN f /\ g[n] = s
        /\ \A i \in DOMAIN f : g[i] = f[i]
    OBVIOUS
  <1> HIDE DEF g, n
  <1>2. Places(g, s) = Places(f, s) \cup {n} /\ n \notin Places(f, s)
    BY <1>1 DEF Places
  <1>3. \A r \in Sessions \ {s} : Places(g, r) = Places(f, r)
    BY <1>1 DEF Places
  <1>4. IsFiniteSet(Places(f, s))
    <2>1. Places(f, s) \in SUBSET (1 .. Len(f)) /\ Len(f) \in Nat
      BY DEF Places
    <2>2. IsFiniteSet(1 .. Len(f))
      BY <2>1, FS_Interval
    <2>3. QED
      BY <2>1, <2>2, FS_Subset
  <1>5. Cardinality(Places(f, s) \cup {n}) = Cardinality(Places(f, s)) + 1
    BY <1>2, <1>4, FS_AddElement
  <1>6. QED
    BY <1>2, <1>3, <1>5 DEF Pooled, g

LEMMA PooledPop ==
  ASSUME NEW f \in Seq(Sessions), f # <<>>, NEW s, s = f[Len(f)]
  PROVE  /\ s \in Sessions /\ Without(f) \in Seq(Sessions) /\ Len(Without(f)) = Len(f) - 1
         /\ Pooled(f, s) = Pooled(Without(f), s) + 1
         /\ \A r \in Sessions \ {s} : Pooled(Without(f), r) = Pooled(f, r)
  <1> DEFINE g == Without(f)
  <1>1. g \in Seq(Sessions) /\ Len(g) = Len(f) - 1 /\ f = Append(g, s) /\ s \in Sessions
    BY StackSplits
  <1> HIDE DEF g
  <1>2. /\ Pooled(Append(g, s), s) = Pooled(g, s) + 1
        /\ \A r \in Sessions \ {s} : Pooled(Append(g, s), r) = Pooled(g, r)
    BY <1>1, PooledAppend
  <1>3. /\ Pooled(f, s) = Pooled(g, s) + 1
        /\ \A r \in Sessions \ {s} : Pooled(g, r) = Pooled(f, r)
    BY <1>1, <1>2
  <1>4. QED
    BY <1>1, <1>3 DEF g

(* What is left of the count of places when a session enters the pool. *)
LEMMA SessionReturnedKeeps ==
  ASSUME TypeOK, SessionsInv, NEW t \in IoThreads, NEW s \in Sessions, SessionReturned(t, s)
  PROVE  SessionsInv'
  <1> DEFINE x == session[s]
             y == session'[s]
             w == work
             v == work'
             f == mFreeSessionList
             g == mFreeSessionList'
  <1>1. work \in Stacks /\ x \in SessionRec /\ f \in Seq(Sessions)
    BY Typed
  <1>2. Ready(t, "resetSend", s) /\ Done(t, <<>>)
    BY DEF SessionReturned
  <1>3. \A r \in Sessions \ {s} : session'[r] = session[r]
    BY DEF SessionReturned, TypeOK
  <1>4. /\ y.mRefCount = x.mRefCount /\ y.pending = x.pending
        /\ y.mConnected = x.mConnected /\ y.mSendPendingCount = x.mSendPendingCount
        /\ Open(y) = 0 /\ Issue(y) = Issue(x)
    BY <1>1 DEF SessionReturned, TypeOK, SessionRec, Open, Issue
  <1>5. v \in Stacks /\ SameBut(w, v, s) /\ Moves(w, v, s, 0, 0, 0, 0, 0, 0, -1, 0)
    <2>1. work' \in Stacks /\ SameBut(work, work', s) /\ Loses(work, work', s, "resetSend")
      BY <1>1, <1>2, LosesStep
    <2>2. Row("resetSend", 0, 0, 0, 0, 0, 0, 1, 0)
      BY Rows
    <2>3. QED
      BY <2>1, <2>2 DEF Loses, Row
  <1>6. /\ Running /\ (Sound' => Sound) /\ g = Append(f, s)
    BY DEF SessionReturned, Ready, processVars, Sound, Running
  <1>7. /\ Pooled(g, s) = Pooled(f, s) + 1
        /\ \A r \in Sessions \ {s} : Pooled(g, r) = Pooled(f, r)
    BY <1>1, <1>6, PooledAppend
  <1>8. Tally(w, s, Returning) >= 1
    BY <1>1, <1>2, OwnStepCounts DEF Returning
  <1>9. (\A dos : Tally(w, s, dos) \in Nat) /\ Pooled(f, s) \in Nat
    BY <1>1, Tallies
  <1> HIDE DEF x, y, w, v, f, g
  <1>10. /\ Pooled(g, s) + Tally(v, s, Returning) = Pooled(f, s) + Tally(w, s, Returning)
         /\ Pooled(f, s) + Tally(w, s, Returning) >= 1
    BY <1>5, <1>7, <1>8, <1>9 DEF Moves
  <1>11. ASSUME OneSendIn(x, w, s)
         PROVE  OneSendIn(y, v, s)
    BY <1>4, <1>5, <1>9, <1>11 DEF OneSendIn, OneSend, Moves
  <1>12. ASSUME FitsIn(x, w, f, s)
         PROVE  GoodIn(y, v, g, s)
    BY <1>4, <1>5, <1>9, <1>10, <1>12, FitReturned DEF FitsIn, GoodIn, Moves
  <1>13. Running' => OneSendIn(y, v, s)
    BY <1>6, <1>11 DEF SessionsInv, x, w
  <1>14. Sound' => GoodIn(y, v, g, s)
    BY <1>1, <1>6, <1>12, GoodFits DEF SessionsInv, SessionGood, x, w, f
  <1>15. QED
    BY <1>3, <1>5, <1>6, <1>7, <1>13, <1>14, OnlyOneSession DEF y, w, v, f, g

(* Nobody is in a receive step of a session nobody holds. *)
LEMMA NoReceiverUnheld ==
  ASSUME work \in Stacks, \A t \in IoThreads : StackOK(t), NEW s \in Sessions,
         Tally(work, s, Deletions) = 0
  PROVE  Tally(work, s, ReceiveSteps) = 0
  <1>1. SUFFICES ASSUME StepsIn(work, s, ReceiveSteps) # {}
                 PROVE  FALSE
    BY TallyZero
  <1>2. PICK t \in IoThreads : \E i \in DOMAIN work[t] :
          work[t][i].s = s /\ work[t][i].do \in ReceiveSteps
    BY <1>1, StepsInElement
  <1>3. PICK i \in DOMAIN work[t] : work[t][i].s = s /\ work[t][i].do \in ReceiveSteps
    BY <1>2
  <1>4. work[t][i].do \in Handling
    BY <1>3 DEF Handling
  <1>5. work[t][1] = Step("deleteContext", s)
    BY <1>3, <1>4 DEF StackOK, StackShape
  <1>6. work[t] \in Seq(StepSet) /\ 1 \in DOMAIN work[t]
    <2>1. work[t] \in Seq(StepSet)
      BY DEF Stacks
    <2>2. QED
      BY <1>3, <2>1
  <1>7. work[t][1].do \in Deletions /\ work[t][1].s = s
    BY <1>5 DEF Step, Deletions
  <1>8. Tally(work, s, Deletions) >= 1
    BY <1>6, <1>7, TallyPositive
  <1>9. QED
    BY <1>8

LEMMA IssuedNumbers ==
  ASSUME NEW x \in SessionRec,
         NEW y, y = WithContext([x EXCEPT !.mRefCount = @ + 1, !.issued = TRUE], "ACCEPT")
  PROVE  /\ y.mRefCount = x.mRefCount + 2 /\ PendingSum(y.pending) = PendingSum(x.pending) + 1
         /\ y.pending["ACCEPT"] = x.pending["ACCEPT"] + 1
         /\ \A io \in IoTypes \ {"ACCEPT"} : y.pending[io] = x.pending[io]
         /\ y.mConnected = x.mConnected /\ y.mSendPendingCount = x.mSendPendingCount
         /\ Open(y) = Open(x) /\ Issue(y) = 1
  <1> DEFINE c == [x EXCEPT !.mRefCount = @ + 1, !.issued = TRUE]
  <1>1. /\ c \in SessionRec /\ c.mRefCount = x.mRefCount + 1 /\ c.pending = x.pending
        /\ c.mConnected = x.mConnected /\ c.mSendPendingCount = x.mSendPendingCount
        /\ c.issued = TRUE /\ c.socket = x.socket
    <2> DEFINE a == [x EXCEPT !.mRefCount = @ + 1]
    <2>1. /\ a \in SessionRec /\ a.mRefCount = x.mRefCount + 1 /\ a.pending = x.pending
          /\ a.mConnected = x.mConnected /\ a.mSendPendingCount = x.mSendPendingCount
          /\ a.socket = x.socket
      BY DEF SessionRec
    <2>2. c = [a EXCEPT !.issued = TRUE]
      BY DEF SessionRec
    <2> HIDE DEF a, c
    <2>3. c \in SessionRec
      BY <2>1, <2>2 DEF SessionRec
    <2>4. c.issued = TRUE
      BY <2>1, <2>2 DEF SessionRec
    <2>5. /\ c.mRefCount = a.mRefCount /\ c.pending = a.pending /\ c.socket = a.socket
          /\ c.mConnected = a.mConnected /\ c.mSendPendingCount = a.mSendPendingCount
      BY <2>1, <2>2 DEF SessionRec
    <2>6. QED
      BY <2>1, <2>3, <2>4, <2>5
  <1>2. "ACCEPT" \in IoTypes /\ y = WithContext(c, "ACCEPT")
    BY DEF IoTypes
  <1> HIDE DEF c
  <1>3. Posted(c, y, "ACCEPT")
    BY <1>1, <1>2, NewContextNumbers
  <1>4. Issue(c) = 1 /\ Open(c) = Open(x)
    BY <1>1 DEF Issue, Open
  <1>5. x.mRefCount \in Int
    BY DEF SessionRec
  <1>6. QED
    BY <1>1, <1>3, <1>4, <1>5 DEF Posted

(* The session PostAccept pops. *)
Popped == mFreeSessionList[Len(mFreeSessionList)]

(* AcceptClientSessions pops a session: the counters say there is one. *)
LEMMA PostAcceptHasOne ==
  ASSUME PoolConserved, NEW ok \in BOOLEAN, PostAccept(ok)
  PROVE  mFreeSessionList # <<>> /\ Popped \in Sessions
  <1>1. mFreeSessionList \in Seq(Sessions) /\ Len(mFreeSessionList) > 0
    <2>1. mFreeSessionList \in Seq(Sessions) /\ PoolInUse < Cardinality(Sessions)
          /\ Len(mFreeSessionList) + PoolInUse = Cardinality(Sessions)
      BY DEF PoolConserved, TypeOK, PostAccept
    <2>2. PoolInUse \in Int /\ Cardinality(Sessions) \in Nat
      BY FS_CardinalityType, SessionPoolAssumption
         DEF PoolInUse, PoolConserved, TypeOK, SessionPoolAssumption
    <2>3. QED
      BY <2>1, <2>2
  <1>2. QED
    BY <1>1 DEF Popped

LEMMA PostAcceptPops ==
  ASSUME PoolConserved, PostAccept(TRUE)
  PROVE  /\ mFreeSessionList # <<>> /\ Popped \in Sessions
         /\ mFreeSessionList' = Without(mFreeSessionList)
         /\ session'[Popped] =
              WithContext([session[Popped] EXCEPT !.mRefCount = @ + 1, !.issued = TRUE],
                "ACCEPT")
         /\ \A r \in Sessions \ {Popped} : session'[r] = session[r]
  <1>2. mFreeSessionList # <<>> /\ Popped \in Sessions
    BY PostAcceptHasOne
  <1>3. /\ mFreeSessionList' = Without(mFreeSessionList)
        /\ session' = [session EXCEPT ![Popped] =
             WithContext([session[Popped] EXCEPT !.mRefCount = @ + 1, !.issued = TRUE],
               "ACCEPT")]
    BY DEF PostAccept, Popped, Without
  <1>4. QED
    BY <1>2, <1>3 DEF PoolConserved, TypeOK

LEMMA PostAcceptKeeps ==
  ASSUME PoolConserved, SessionsInv, \A t \in IoThreads : StackOK(t), PostAccept(TRUE)
  PROVE  SessionsInv'
  <1> DEFINE s == Popped
             x == session[s]
             y == session'[s]
             w == work
             f == mFreeSessionList
             g == mFreeSessionList'
  <1>1. s \in Sessions /\ work \in Stacks /\ x \in SessionRec /\ f \in Seq(Sessions) /\ f # <<>>
    BY PostAcceptPops, Typed DEF PoolConserved
  <1>2. \A r \in Sessions \ {s} : session'[r] = session[r]
    BY PostAcceptPops
  <1>3. /\ y.mRefCount = x.mRefCount + 2 /\ PendingSum(y.pending) = PendingSum(x.pending) + 1
        /\ y.pending["ACCEPT"] = x.pending["ACCEPT"] + 1
        /\ \A io \in IoTypes \ {"ACCEPT"} : y.pending[io] = x.pending[io]
        /\ y.mConnected = x.mConnected /\ y.mSendPendingCount = x.mSendPendingCount
        /\ Open(y) = Open(x) /\ Issue(y) = 1
    <2>1. y = WithContext([x EXCEPT !.mRefCount = @ + 1, !.issued = TRUE], "ACCEPT")
      BY PostAcceptPops
    <2>2. QED
      BY <1>1, <2>1, IssuedNumbers, ZenonT(60)
  <1>4. /\ Pooled(f, s) = Pooled(g, s) + 1
        /\ \A r \in Sessions \ {s} : Pooled(g, r) = Pooled(f, r)
    <2>1. g = Without(f) /\ s = f[Len(f)]
      BY PostAcceptPops DEF Popped
    <2>2. QED
      BY <1>1, <2>1, PooledPop
  <1>5. Running /\ (Sound' => Sound) /\ work' = work
    BY DEF PostAccept, Sound, Running, threadVars
  <1>6. g \in Seq(Sessions)
    BY <1>1, PostAcceptPops, PooledPop DEF Popped
  <1>7. (\A dos : Tally(w, s, dos) \in Nat) /\ Pooled(f, s) \in Nat /\ Pooled(g, s) \in Nat
    BY <1>1, <1>6, Tallies
  <1>8. Tally(w, s, Deletions) = 0 => Tally(w, s, ReceiveSteps) = 0
    BY <1>1, NoReceiverUnheld
  <1> HIDE DEF s, x, y, w, f, g
  <1>9. /\ Pooled(g, s) + Tally(w, s, Returning) = (Pooled(f, s) + Tally(w, s, Returning)) - 1
        /\ Pooled(f, s) + Tally(w, s, Returning) >= 1
    BY <1>4, <1>7
  <1>10. ASSUME OneSendIn(x, w, s)
         PROVE  OneSendIn(y, w, s)
    BY <1>3, <1>10 DEF OneSendIn, OneSend, IoTypes
  <1>11. ASSUME FitsIn(x, w, f, s)
         PROVE  GoodIn(y, w, g, s)
    <2>1. Tally(w, s, ReceiveSteps) = 0
      BY <1>7, <1>8, <1>9, <1>11, HomeIsUnheld DEF FitsIn
    <2>2. QED
      BY <1>3, <1>7, <1>9, <1>11, <2>1, FitIssued DEF FitsIn, GoodIn, IoTypes
  <1>12. SameBut(work, work', s)
    BY <1>5 DEF SameBut
  <1>13. Running' => OneSendIn(y, work', s)
    BY <1>1, <1>5, <1>10 DEF SessionsInv, x, w
  <1>14. Sound' => GoodIn(y, work', g, s)
    BY <1>1, <1>5, <1>11, GoodFits DEF SessionsInv, SessionGood, x, w, f
  <1>15. QED
    BY <1>1, <1>2, <1>4, <1>5, <1>12, <1>13, <1>14, OnlyOneSession DEF y, w, f, g

(* FlushSend's first test begins a stack, on the session at the head of the list. *)
LEMMA FlushSendBegins ==
  ASSUME TypeOK, NEW t \in IoThreads, FlushSend(t)
  PROVE  /\ Head(LSendRequestSessionList[t]) \in Sessions
         /\ \/ Begins(t, <<Step("flush", Head(LSendRequestSessionList[t]))>>)
            \/ Begins(t, <<Step("pop", Head(LSendRequestSessionList[t])),
                           Step("disconnect", Head(LSendRequestSessionList[t]))>>)
  <1>1. LSendRequestSessionList[t] \in Seq(Sessions) /\ LSendRequestSessionList[t] # <<>>
    BY DEF TypeOK, FlushSend
  <1>2. Head(LSendRequestSessionList[t]) \in Sessions
    BY <1>1
  <1>3. QED
    BY <1>2 DEF FlushSend, AtSendJob, Begins

LEMMA FlushSendKeeps ==
  ASSUME TypeOK, SessionsInv, NEW t \in IoThreads, FlushSend(t)
  PROVE  SessionsInv'
  <1> DEFINE s == Head(LSendRequestSessionList[t])
             x == session[s]
             y == session'[s]
  <1>1. s \in Sessions /\ work \in Stacks
    BY FlushSendBegins, Typed
  <1>2. Counts(s)
    BY <1>1, Counted
  <1>3. /\ Running /\ mFreeSessionList' = mFreeSessionList /\ (Sound' => Sound)
        /\ y = x /\ \A r \in Sessions \ {s} : session'[r] = session[r]
    BY DEF FlushSend, AtSendJob, managerVars, processVars, Sound, Running
  <1>4. Begins(t, <<Step("flush", s)>>) \/ Begins(t, <<Step("pop", s), Step("disconnect", s)>>)
    BY FlushSendBegins
  <1>5. "flush" \in Steps /\ "pop" \in Steps /\ "disconnect" \in Steps
    BY DEF Steps
  <1>6. /\ Row("flush", 0, 0, 0, 0, 0, 0, 0, 0) /\ Row("pop", 0, 0, 0, 0, 0, 0, 0, 0)
        /\ Row("disconnect", 0, 0, 0, 0, 0, 1, 0, 0)
    BY Rows
  <1> HIDE DEF s, x, y
  <1>7. CASE Begins(t, <<Step("flush", s)>>)
    <2>1. /\ work' \in Stacks /\ SameBut(work, work', s)
          /\ Moves(work, work', s, 0, 0, 0, 0, 0, 0, 0, 0)
      <3>1. work' \in Stacks /\ SameBut(work, work', s) /\ Gains1(work, work', s, "flush")
        BY <1>1, <1>5, <1>7, GainsSteps1
      <3>2. QED
        BY <1>6, <3>1 DEF Gains1, Row
    <2>2. ASSUME OneSend(x, Tally(work, s, Sending))
          PROVE  OneSend(y, Tally(work, s, Sending) + 0)
      BY <1>2, <1>3, <2>2 DEF OneSend, Counts
    <2>3. ASSUME FitsIn(x, work, mFreeSessionList, s)
          PROVE  FitAfter(y, work, mFreeSessionList, s, 0, 0, 0, 0, 0, 0, 0)
      BY <1>2, <1>3, <2>3, FitSame DEF FitsIn, FitAfter, Counts
    <2>4. QED
      BY <1>1, <1>3, <2>1, <2>2, <2>3, SessionStep DEF x, y
  <1>8. CASE Begins(t, <<Step("pop", s), Step("disconnect", s)>>)
    <2>1. /\ work' \in Stacks /\ SameBut(work, work', s)
          /\ Moves(work, work', s, 0, 0, 0, 0, 0, 1, 0, 0)
      <3>1. /\ work' \in Stacks /\ SameBut(work, work', s)
            /\ Gains2(work, work', s, "pop", "disconnect")
        BY <1>1, <1>5, <1>8, GainsSteps2
      <3>2. Moves(work, work', s, 0 + 0, 0 + 0, 0 + 0, 0 + 0, 0 + 0, 0 + 1, 0 + 0, 0 + 0)
        BY <1>6, <3>1 DEF Gains2, Row
      <3>3. QED
        BY <3>1, <3>2, SmallSums, Zenon
    <2>2. ASSUME OneSend(x, Tally(work, s, Sending))
          PROVE  OneSend(y, Tally(work, s, Sending) + 0)
      BY <1>2, <1>3, <2>2 DEF OneSend, Counts
    <2>3. ASSUME FitsIn(x, work, mFreeSessionList, s)
          PROVE  FitAfter(y, work, mFreeSessionList, s, 0, 0, 0, 0, 0, 1, 0)
      BY <1>2, <1>3, <2>3, FitToDisconnect DEF FitsIn, FitAfter, Counts
    <2>4. QED
      BY <1>1, <1>3, <2>1, <2>2, <2>3, SessionStep DEF x, y
  <1>9. QED
    BY <1>4, <1>7, <1>8

-----------------------------------------------------------------------------
(* The threads: their stacks keep their shape. *)
ThreadsTyped ==
  /\ phase \in [IoThreads -> {"iocp", "send"}] /\ work \in Stacks
  /\ LSendRequestSessionList \in [IoThreads -> Seq(Sessions)]
  /\ \A t \in IoThreads : phase[t] = "iocp" => work[t] = <<>>

ThreadsOK == ThreadsTyped /\ \A t \in IoThreads : StackOK(t)

(* The steps a handler may leave on the stack u. *)
MayFollow(u, more, list) ==
  \A j \in DOMAIN more :
    /\ more[j].do \in Handling => u # <<>> /\ u[1] = Step("deleteContext", more[j].s)
    /\ more[j].do = "reset" => j > 1 /\ more[j - 1] = Step("resetSend", more[j].s)
    /\ more[j].do \in {"flush", "pop"} => j = 1 /\ u = <<>> /\ list # <<>>

(* StackOK is kept when the last step of a stack is replaced, or removed. *)
LEMMA ShapeGrows ==
  ASSUME NEW u \in Seq(StepSet), NEW more \in Seq(StepSet), NEW list,
         StackShape(u, list), MayFollow(u, more, list)
  PROVE  StackShape(u \o more, list) /\ u \o more \in Seq(StepSet)
  <1> DEFINE v == u \o more
             m == Len(u)
             n == Len(more)
  <1>1. m \in Nat /\ n \in Nat /\ DOMAIN u = 1 .. m /\ DOMAIN more = 1 .. n
    OBVIOUS
  <1>2. /\ v \in Seq(StepSet) /\ DOMAIN v = 1 .. m + n
        /\ \A i \in 1 .. m : v[i] = u[i]
        /\ \A i \in m + 1 .. m + n : v[i] = more[i - m]
    OBVIOUS
  <1>3. u = <<>> <=> m = 0
    OBVIOUS
  <1> HIDE DEF v, m, n
  <1>4. ASSUME NEW i \in 1 .. m
        PROVE  /\ v[i].do \in Handling => v[1] = Step("deleteContext", v[i].s)
               /\ v[i].do = "reset" => i > 1 /\ v[i - 1] = Step("resetSend", v[i].s)
               /\ v[i].do \in {"flush", "pop"} => i = 1 /\ list # <<>>
    <2>1. v[i] = u[i] /\ v[1] = u[1] /\ (i > 1 => v[i - 1] = u[i - 1]) /\ i \in DOMAIN u
      BY <1>1, <1>2
    <2>2. QED
      BY <2>1 DEF StackShape
  <1>5. ASSUME NEW j \in 1 .. n, NEW i, i = m + j
        PROVE  /\ v[i].do \in Handling => v[1] = Step("deleteContext", v[i].s)
               /\ v[i].do = "reset" => i > 1 /\ v[i - 1] = Step("resetSend", v[i].s)
               /\ v[i].do \in {"flush", "pop"} => i = 1 /\ list # <<>>
    <2>1. i \in m + 1 .. m + n /\ i - m = j /\ j \in DOMAIN more
      BY <1>1, <1>5
    <2>2. v[i] = more[j]
      BY <1>2, <2>1
    <2>3. m # 0 => v[1] = u[1]
      BY <1>1, <1>2
    <2>4. j > 1 => i > 1 /\ v[i - 1] = more[j - 1]
      <3>1. ASSUME j > 1
            PROVE  i > 1 /\ i - 1 \in m + 1 .. m + n /\ (i - 1) - m = j - 1
        BY <1>1, <1>5, <3>1
      <3>2. QED
        BY <1>2, <3>1
    <2>5. j = 1 /\ u = <<>> => i = 1
      BY <1>1, <1>3, <1>5
    <2>6. QED
      BY <1>3, <2>1, <2>2, <2>3, <2>4, <2>5 DEF MayFollow
  <1>6. \A i \in 1 .. m + n : i \in 1 .. m \/ \E j \in 1 .. n : i = m + j
    <2> SUFFICES ASSUME NEW i \in 1 .. m + n, i \notin 1 .. m
                 PROVE  \E j \in 1 .. n : i = m + j
      OBVIOUS
    <2>1. i - m \in 1 .. n /\ i = m + (i - m)
      BY <1>1
    <2>2. QED
      BY <2>1
  <1>7. StackShape(v, list)
    <2> SUFFICES ASSUME NEW i \in DOMAIN v
                 PROVE  /\ v[i].do \in Handling => v[1] = Step("deleteContext", v[i].s)
                        /\ v[i].do = "reset" => i > 1 /\ v[i - 1] = Step("resetSend", v[i].s)
                        /\ v[i].do \in {"flush", "pop"} => i = 1 /\ list # <<>>
      BY DEF StackShape
    <2>1. CASE i \in 1 .. m
      BY <1>4, <2>1
    <2>2. CASE \E j \in 1 .. n : i = m + j
      BY <1>5, <2>2
    <2>3. QED
      BY <1>2, <1>6, <2>1, <2>2
  <1>8. QED
    BY <1>2, <1>7 DEF v

LEMMA ShapeShrinks ==
  ASSUME NEW u \in Seq(StepSet), u # <<>>, NEW list, StackShape(u, list)
  PROVE  StackShape(Without(u), list) /\ Without(u) \in Seq(StepSet)
  <1> DEFINE v == Without(u)
  <1>1. /\ v \in Seq(StepSet) /\ Len(v) = Len(u) - 1
        /\ \A i \in DOMAIN v : v[i] = u[i]
    BY StackSplits
  <1> HIDE DEF v
  <1>2. /\ Len(u) \in Nat /\ DOMAIN u = 1 .. Len(u) /\ Len(v) \in Nat /\ DOMAIN v = 1 .. Len(v)
    BY <1>1
  <1>3. \A i \in DOMAIN v : i \in DOMAIN u /\ 1 \in DOMAIN v /\ (i > 1 => i - 1 \in DOMAIN v)
    BY <1>1, <1>2
  <1>4. StackShape(v, list)
    BY <1>1, <1>3 DEF StackShape
  <1>5. QED
    BY <1>1, <1>4 DEF v

(* A handler makes a step and leaves others; it may change the thread's list. *)
LEMMA ThreadSteps ==
  ASSUME ThreadsOK, NEW t \in IoThreads, NEW do, NEW s, Ready(t, do, s),
         NEW more \in Seq(StepSet), Done(t, more), phase' = phase,
         LSendRequestSessionList' \in [IoThreads -> Seq(Sessions)],
         \A r \in IoThreads \ {t} : LSendRequestSessionList'[r] = LSendRequestSessionList[r],
         StackShape(Without(work[t]), LSendRequestSessionList'[t]),
         MayFollow(Without(work[t]), more, LSendRequestSessionList'[t])
  PROVE  ThreadsOK'
  <1> DEFINE u == Without(work[t])
  <1>1. work[t] \in Seq(StepSet) /\ work[t] # <<>> /\ u \in Seq(StepSet)
    <2>1. work[t] \in Seq(StepSet) /\ work[t] # <<>>
      BY DEF ThreadsOK, ThreadsTyped, Stacks, Ready
    <2>2. QED
      BY <2>1, StackSplits
  <1>2. work' = [work EXCEPT ![t] = u \o more]
    BY DEF Done, Without
  <1> HIDE DEF u
  <1>3. u \o more \in Seq(StepSet) /\ StackShape(u \o more, LSendRequestSessionList'[t])
    BY <1>1, ShapeGrows DEF u
  <1>4. /\ work' \in Stacks /\ work'[t] = u \o more
        /\ \A r \in IoThreads \ {t} : work'[r] = work[r]
    BY <1>2, <1>3 DEF ThreadsOK, ThreadsTyped, Stacks
  <1>5. ThreadsTyped'
    BY <1>1, <1>4 DEF ThreadsOK, ThreadsTyped
  <1>6. ASSUME NEW r \in IoThreads
        PROVE  StackOK(r)'
    <2>1. CASE r = t
      BY <1>3, <1>4, <2>1 DEF StackOK
    <2>2. CASE r # t
      BY <1>4, <2>2 DEF ThreadsOK, StackOK
    <2>3. QED
      BY <2>1, <2>2
  <1>7. QED
    BY <1>5, <1>6 DEF ThreadsOK

(* ... it may leave the list alone, ... *)
LEMMA ThreadContinues ==
  ASSUME ThreadsOK, NEW t \in IoThreads, NEW do, NEW s, Ready(t, do, s),
         NEW more \in Seq(StepSet), Done(t, more),
         phase' = phase, LSendRequestSessionList' = LSendRequestSessionList,
         MayFollow(Without(work[t]), more, LSendRequestSessionList[t])
  PROVE  ThreadsOK'
  <1>1. work[t] \in Seq(StepSet) /\ work[t] # <<>>
    BY DEF ThreadsOK, ThreadsTyped, Stacks, Ready
  <1>2. StackShape(Without(work[t]), LSendRequestSessionList[t])
    BY <1>1, ShapeShrinks DEF ThreadsOK, StackOK
  <1>3. QED
    BY <1>2, ThreadSteps DEF ThreadsOK, ThreadsTyped

(* ... it may do no more, ... *)
LEMMA NothingFollows == \A u, list : MayFollow(u, <<>>, list)
  BY DEF MayFollow

(* What a step has to show for the stacks to stay in shape. *)
LEMMA ThreadReturns ==
  ASSUME ThreadsOK, NEW t \in IoThreads, NEW do, NEW s, Ready(t, do, s), Done(t, <<>>),
         phase' = phase, LSendRequestSessionList' = LSendRequestSessionList
  PROVE  ThreadsOK'
  <1>1. <<>> \in Seq(StepSet)
    OBVIOUS
  <1>2. QED
    BY <1>1, NothingFollows, ThreadContinues

(* ... it is in a handler of a completion, whose context is still there, ... *)
LEMMA HandlerGoesOn ==
  ASSUME ThreadsOK, NEW t \in IoThreads, NEW do \in Handling, NEW s, Ready(t, do, s)
  PROVE  Without(work[t]) # <<>> /\ Without(work[t])[1] = Step("deleteContext", s)
  <1> DEFINE n == Len(work[t])
             u == Without(work[t])
  <1>1. work[t] \in Seq(StepSet) /\ work[t] # <<>> /\ work[t][n] = Step(do, s)
    BY DEF ThreadsOK, ThreadsTyped, Stacks, Ready
  <1>2. n \in Nat /\ n # 0 /\ DOMAIN work[t] = 1 .. n
    BY <1>1
  <1>3. work[t][n].do = do /\ work[t][n].s = s
    BY <1>1 DEF Step
  <1>4. work[t][1] = Step("deleteContext", s)
    BY <1>2, <1>3 DEF ThreadsOK, StackOK, StackShape
  <1>5. "deleteContext" \notin Handling
    BY DEF Handling, ReceiveSteps
  <1>6. n # 1
    BY <1>3, <1>4, <1>5 DEF Step
  <1>7. u \in Seq(StepSet) /\ Len(u) = n - 1 /\ \A i \in DOMAIN u : u[i] = work[t][i]
    BY <1>1, StackSplits
  <1> HIDE DEF u, n
  <1>8. u # <<>> /\ 1 \in DOMAIN u
    BY <1>2, <1>6, <1>7
  <1>9. QED
    BY <1>4, <1>7, <1>8 DEF u

(* ... or it is in FlushSend, or pops the list after it. *)
LEMMA OnlyStep ==
  ASSUME ThreadsOK, NEW t \in IoThreads, NEW do \in {"flush", "pop"}, NEW s, Ready(t, do, s)
  PROVE  Without(work[t]) = <<>> /\ LSendRequestSessionList[t] # <<>>
  <1> DEFINE n == Len(work[t])
             u == Without(work[t])
  <1>1. work[t] \in Seq(StepSet) /\ work[t] # <<>> /\ work[t][n] = Step(do, s)
    BY DEF ThreadsOK, ThreadsTyped, Stacks, Ready
  <1>2. n \in Nat /\ n # 0 /\ DOMAIN work[t] = 1 .. n
    BY <1>1
  <1>3. work[t][n].do = do
    BY <1>1 DEF Step
  <1>4. n = 1 /\ LSendRequestSessionList[t] # <<>>
    <2>1. StackShape(work[t], LSendRequestSessionList[t]) /\ n \in DOMAIN work[t]
      BY <1>2 DEF ThreadsOK, StackOK
    <2> HIDE DEF n
    <2>2. QED
      BY <1>3, <2>1 DEF StackShape
  <1>5. u \in Seq(StepSet) /\ Len(u) = n - 1
    BY <1>1, StackSplits
  <1> HIDE DEF u, n
  <1>6. QED
    BY <1>4, <1>5 DEF u

LEMMA ThreadPops ==
  ASSUME ThreadsOK, NEW t \in IoThreads, NEW do \in {"flush", "pop"}, NEW s, Ready(t, do, s),
         Done(t, <<>>), PopFront(t), phase' = phase
  PROVE  ThreadsOK'
  <1>1. Without(work[t]) = <<>> /\ LSendRequestSessionList[t] # <<>>
    BY OnlyStep
  <1>2. LSendRequestSessionList[t] \in Seq(Sessions)
    BY DEF ThreadsOK, ThreadsTyped
  <1>3. Tail(LSendRequestSessionList[t]) \in Seq(Sessions)
    BY <1>1, <1>2
  <1>4. /\ LSendRequestSessionList' \in [IoThreads -> Seq(Sessions)]
        /\ \A r \in IoThreads \ {t} : LSendRequestSessionList'[r] = LSendRequestSessionList[r]
    BY <1>3 DEF PopFront, ThreadsOK, ThreadsTyped
  <1>5. <<>> \in Seq(StepSet) /\ \A list : StackShape(<<>>, list)
    BY DEF StackShape
  <1>6. QED
    BY <1>1, <1>4, <1>5, NothingFollows, ThreadSteps

(* A thread without steps begins. *)
LEMMA ThreadBegins ==
  ASSUME ThreadsOK, NEW t \in IoThreads, NEW u \in Seq(StepSet), Begins(t, u),
         StackShape(u, LSendRequestSessionList[t]),
         phase' = [phase EXCEPT ![t] = "send"] \/ (phase' = phase /\ phase[t] = "send"),
         LSendRequestSessionList' = LSendRequestSessionList
  PROVE  ThreadsOK'
  <1>1. /\ work' \in Stacks /\ work'[t] = u
        /\ \A r \in IoThreads \ {t} : work'[r] = work[r]
    BY DEF Begins, ThreadsOK, ThreadsTyped, Stacks
  <1>2. phase' \in [IoThreads -> {"iocp", "send"}] /\ phase'[t] = "send"
        /\ \A r \in IoThreads \ {t} : phase'[r] = phase[r]
    BY DEF ThreadsOK, ThreadsTyped
  <1>3. ThreadsTyped'
    BY <1>1, <1>2 DEF ThreadsOK, ThreadsTyped
  <1>4. \A r \in IoThreads : StackOK(r)'
    BY <1>1 DEF ThreadsOK, StackOK
  <1>5. QED
    BY <1>3, <1>4 DEF ThreadsOK

LEMMA DequeueThreads ==
  ASSUME ThreadsOK, NEW t \in IoThreads, NEW s \in Sessions, NEW io, NEW steps \in Seq(StepSet),
         \A j \in DOMAIN steps : steps[j].s = s /\ steps[j].do \notin {"reset", "flush", "pop"},
         Dequeue(t, s, io, steps)
  PROVE  ThreadsOK'
  <1> DEFINE d == Step("deleteContext", s)
             u == <<d>>
  <1>1. d \in StepSet
    BY DEF Step, StepSet, Steps, ReleaseSteps
  <1>2. u \in Seq(StepSet) /\ u[1] = d /\ u # <<>> /\ DOMAIN u = {1}
    BY <1>1
  <1>3. StackShape(u, LSendRequestSessionList[t])
    <2>1. d.do = "deleteContext"
      BY DEF Step
    <2>2. d.do \notin Handling /\ d.do # "reset" /\ d.do \notin {"flush", "pop"}
      BY <2>1 DEF Handling, ReceiveSteps
    <2> HIDE DEF d, u
    <2>3. QED
      BY <1>2, <2>2 DEF StackShape
  <1>4. MayFollow(u, steps, LSendRequestSessionList[t])
    <2> HIDE DEF u
    <2>1. QED
      BY <1>2 DEF MayFollow
  <1> HIDE DEF u
  <1>5. /\ StackShape(u \o steps, LSendRequestSessionList[t]) /\ u \o steps \in Seq(StepSet)
    BY <1>2, <1>3, <1>4, ShapeGrows
  <1>6. Begins(t, u \o steps)
    BY DEF Dequeue, AtPort, Begins, u
  <1>7. QED
    BY <1>5, <1>6, ThreadBegins DEF Dequeue

(* The steps that may be left anywhere in a handler of session s. *)
Plain == Steps \ {"reset", "flush", "pop"}

(* Most steps neither need nor leave anything below them. *)
LEMMA PlainFollow ==
  ASSUME NEW s, NEW a \in Plain, NEW b \in Plain, NEW u, NEW list,
         a \in Handling \/ b \in Handling => u # <<>> /\ u[1] = Step("deleteContext", s)
  PROVE  MayFollow(u, <<Step(a, s)>>, list) /\ MayFollow(u, <<Step(a, s), Step(b, s)>>, list)
  <1> DEFINE one == <<Step(a, s)>>
             two == <<Step(a, s), Step(b, s)>>
  <1>1. /\ DOMAIN one = {1} /\ one[1].do = a /\ one[1].s = s
        /\ DOMAIN two = {1, 2} /\ two[1].do = a /\ two[1].s = s /\ two[2].do = b /\ two[2].s = s
    BY DEF Step
  <1> HIDE DEF one, two
  <1>2. MayFollow(u, one, list)
    BY <1>1 DEF MayFollow, Plain
  <1>3. MayFollow(u, two, list)
    BY <1>1 DEF MayFollow, Plain
  <1>4. QED
    BY <1>2, <1>3 DEF one, two

LEMMA PlainSteps ==
  ASSUME NEW s \in Sessions, NEW a \in Plain, NEW b \in Plain
  PROVE  <<Step(a, s)>> \in Seq(StepSet) /\ <<Step(a, s), Step(b, s)>> \in Seq(StepSet)
  <1>1. Step(a, s) \in StepSet /\ Step(b, s) \in StepSet
    BY DEF Plain, Step, StepSet
  <1>2. QED
    BY <1>1

(* A step of session s that leaves one or two plain steps. *)
LEMMA PlainContinues ==
  ASSUME ThreadsOK, NEW t \in IoThreads, NEW do, NEW s \in Sessions, Ready(t, do, s),
         NEW a \in Plain, NEW b \in Plain, a \in Handling \/ b \in Handling => do \in Handling,
         Done(t, <<Step(a, s)>>) \/ Done(t, <<Step(a, s), Step(b, s)>>),
         phase' = phase, LSendRequestSessionList' = LSendRequestSessionList
  PROVE  ThreadsOK'
  <1>1. a \in Handling \/ b \in Handling =>
          Without(work[t]) # <<>> /\ Without(work[t])[1] = Step("deleteContext", s)
    BY HandlerGoesOn
  <1>2. /\ MayFollow(Without(work[t]), <<Step(a, s)>>, LSendRequestSessionList[t])
        /\ MayFollow(Without(work[t]), <<Step(a, s), Step(b, s)>>, LSendRequestSessionList[t])
    BY <1>1, PlainFollow
  <1>3. QED
    BY <1>2, PlainSteps, ThreadContinues

LEMMA PlainDequeued ==
  ASSUME ThreadsOK, NEW t \in IoThreads, NEW s \in Sessions, NEW io,
         NEW a \in Plain, NEW b \in Plain,
         \/ Dequeue(t, s, io, <<>>) \/ Dequeue(t, s, io, <<Step(a, s)>>)
         \/ Dequeue(t, s, io, <<Step(a, s), Step(b, s)>>)
  PROVE  ThreadsOK'
  <1> DEFINE one == <<Step(a, s)>>
             two == <<Step(a, s), Step(b, s)>>
  <1>1. /\ DOMAIN one = {1} /\ one[1].do = a /\ one[1].s = s
        /\ DOMAIN two = {1, 2} /\ two[1].do = a /\ two[1].s = s /\ two[2].do = b /\ two[2].s = s
    BY DEF Step
  <1>2. one \in Seq(StepSet) /\ two \in Seq(StepSet) /\ <<>> \in Seq(StepSet)
    BY PlainSteps
  <1> HIDE DEF one, two
  <1>3. CASE Dequeue(t, s, io, <<>>)
    <2> DEFINE none == <<>>
    <2>1. DOMAIN none = {}
      OBVIOUS
    <2>2. none \in Seq(StepSet) /\ Dequeue(t, s, io, none)
      BY <1>2, <1>3
    <2> HIDE DEF none
    <2>3. QED
      BY <2>1, <2>2, DequeueThreads
  <1>4. CASE Dequeue(t, s, io, one)
    BY <1>1, <1>2, <1>4, DequeueThreads DEF Plain
  <1>5. CASE Dequeue(t, s, io, two)
    BY <1>1, <1>2, <1>5, DequeueThreads DEF Plain
  <1>6. QED
    BY <1>3, <1>4, <1>5 DEF one, two

LEMMA InPlain ==
  /\ {"accept", "load", "preRecv", "preRecvOrClose", "postRecvOrClose", "move", "postReply"}
       \subseteq Plain
  /\ {"sendDone", "sendShort", "disconnect", "return", "releaseNew", "releaseIssue"}
       \subseteq Plain
  /\ "disconnect" \notin Handling /\ "return" \notin Handling /\ "releaseNew" \notin Handling
  BY DEF Plain, Steps, ReleaseSteps, ReceiveSteps, Handling

(* ReturnClientSession, which leaves the steps of SessionReset. *)
LEMMA ReturnThreads ==
  ASSUME ThreadsOK, NEW t \in IoThreads, NEW s \in Sessions, ReturnClientSession(t, s)
  PROVE  ThreadsOK'
  <1> DEFINE more == <<Step("resetSend", s), Step("reset", s)>>
  <1>1. /\ Ready(t, "return", s) /\ Done(t, more)
        /\ phase' = phase /\ LSendRequestSessionList' = LSendRequestSessionList
    BY DEF ReturnClientSession
  <1>2. more \in Seq(StepSet)
    <2>1. Step("resetSend", s) \in StepSet /\ Step("reset", s) \in StepSet
      BY DEF Step, StepSet, Steps
    <2>2. QED
      BY <2>1
  <1>3. /\ DOMAIN more = {1, 2} /\ more[1] = Step("resetSend", s) /\ more[1].do = "resetSend"
        /\ more[2].do = "reset" /\ more[2].s = s
    BY DEF Step
  <1>4. "resetSend" \notin Handling /\ "reset" \notin Handling
    BY DEF Handling, ReceiveSteps
  <1> HIDE DEF more
  <1>5. \A u, list : MayFollow(u, more, list)
    BY <1>3, <1>4 DEF MayFollow
  <1>6. QED
    BY <1>1, <1>2, <1>5, ThreadContinues

(* FlushSend fails, and leaves four steps. *)
LEMMA FlushFailsThreads ==
  ASSUME ThreadsOK, NEW t \in IoThreads, NEW s \in Sessions, FlushFails(t, s)
  PROVE  ThreadsOK'
  <1> DEFINE more == <<Step("pop", s), Step("unlock", s), Step("disconnect", s),
                       Step("releaseNew", s)>>
  <1>1. /\ Ready(t, "flush", s) /\ Done(t, more)
        /\ phase' = phase /\ LSendRequestSessionList' = LSendRequestSessionList
    BY DEF FlushFails, InFlush
  <1>2. more \in Seq(StepSet)
    <2>1. /\ Step("pop", s) \in StepSet /\ Step("unlock", s) \in StepSet
          /\ Step("disconnect", s) \in StepSet /\ Step("releaseNew", s) \in StepSet
      BY DEF Step, StepSet, Steps, ReleaseSteps
    <2>2. QED
      BY <2>1
  <1>3. /\ DOMAIN more = {1, 2, 3, 4} /\ more[1].do = "pop" /\ more[2].do = "unlock"
        /\ more[3].do = "disconnect" /\ more[4].do = "releaseNew"
    BY DEF Step
  <1>4. /\ "pop" \notin Handling /\ "unlock" \notin Handling /\ "disconnect" \notin Handling
        /\ "releaseNew" \notin Handling
    BY DEF Handling, ReceiveSteps
  <1>5. Without(work[t]) = <<>> /\ LSendRequestSessionList[t] # <<>>
    BY <1>1, OnlyStep
  <1> HIDE DEF more
  <1>6. MayFollow(Without(work[t]), more, LSendRequestSessionList[t])
    BY <1>3, <1>4, <1>5 DEF MayFollow
  <1>7. QED
    BY <1>1, <1>2, <1>6, ThreadContinues

(* A reply is posted: the thread's list may grow. *)
LEMMA PostReplyThreads ==
  ASSUME ThreadsOK, NEW t \in IoThreads, NEW s \in Sessions, PostReply(t, s)
  PROVE  ThreadsOK'
  <1>1. Ready(t, "postReply", s) /\ Done(t, <<>>) /\ phase' = phase
    BY DEF PostReply
  <1>2. CASE LSendRequestSessionList' = LSendRequestSessionList
    BY <1>1, <1>2, ThreadReturns
  <1>3. CASE LSendRequestSessionList' = [LSendRequestSessionList EXCEPT ![t] = Append(@, s)]
    <2> DEFINE l == LSendRequestSessionList[t]
    <2>1. l \in Seq(Sessions)
      BY DEF ThreadsOK, ThreadsTyped
    <2>2. Append(l, s) \in Seq(Sessions) /\ Append(l, s) # <<>>
      BY <2>1
    <2>3. /\ LSendRequestSessionList' \in [IoThreads -> Seq(Sessions)]
          /\ LSendRequestSessionList'[t] = Append(l, s)
          /\ \A r \in IoThreads \ {t} : LSendRequestSessionList'[r] = LSendRequestSessionList[r]
      BY <1>3, <2>2 DEF ThreadsOK, ThreadsTyped
    <2>4. work[t] \in Seq(StepSet) /\ work[t] # <<>>
      BY <1>1 DEF ThreadsOK, ThreadsTyped, Stacks, Ready
    <2>5. StackShape(Without(work[t]), l)
      BY <2>4, ShapeShrinks DEF ThreadsOK, StackOK
    <2>6. StackShape(Without(work[t]), Append(l, s))
      BY <2>2, <2>5 DEF StackShape
    <2>7. <<>> \in Seq(StepSet)
      OBVIOUS
    <2>8. QED
      BY <1>1, <2>3, <2>6, <2>7, NothingFollows, ThreadSteps
  <1>4. QED
    BY <1>2, <1>3 DEF PostReply

(* FlushSend's first test. *)
LEMMA FlushSendThreads ==
  ASSUME TypeOK, ThreadsOK, NEW t \in IoThreads, FlushSend(t)
  PROVE  ThreadsOK'
  <1> DEFINE s == Head(LSendRequestSessionList[t])
             one == <<Step("flush", s)>>
             two == <<Step("pop", s), Step("disconnect", s)>>
  <1>1. s \in Sessions /\ (Begins(t, one) \/ Begins(t, two))
    BY FlushSendBegins
  <1>2. /\ LSendRequestSessionList[t] # <<>> /\ phase[t] = "send" /\ phase' = phase
        /\ LSendRequestSessionList' = LSendRequestSessionList
    BY DEF FlushSend, AtSendJob
  <1>3. one \in Seq(StepSet) /\ two \in Seq(StepSet)
    <2>1. /\ Step("flush", s) \in StepSet /\ Step("pop", s) \in StepSet
          /\ Step("disconnect", s) \in StepSet
      BY <1>1 DEF Step, StepSet, Steps
    <2>2. QED
      BY <2>1
  <1>4. /\ DOMAIN one = {1} /\ one[1].do = "flush"
        /\ DOMAIN two = {1, 2} /\ two[1].do = "pop" /\ two[2].do = "disconnect"
    BY DEF Step
  <1>5. "flush" \notin Handling /\ "pop" \notin Handling /\ "disconnect" \notin Handling
    BY DEF Handling, ReceiveSteps
  <1> HIDE DEF one, two
  <1>6. /\ StackShape(one, LSendRequestSessionList[t])
        /\ StackShape(two, LSendRequestSessionList[t])
    BY <1>2, <1>4, <1>5 DEF StackShape
  <1>7. QED
    BY <1>1, <1>2, <1>3, <1>6, ThreadBegins

(* Every step keeps the threads' part of the invariant. *)
LEMMA ThreadsKept ==
  ASSUME TypeOK, ThreadsOK, Next
  PROVE  ThreadsOK'
  <1>1. ASSUME MainThread
        PROVE  ThreadsOK'
    BY <1>1 DEF MainThread, AcceptClientSessions, PostAccept, AcceptDone, threadVars, ThreadsOK,
               ThreadsTyped, StackOK
  <1>2. ASSUME NEW t \in IoThreads, Timeout(t) \/ DoSendJobDone(t)
        PROVE  ThreadsOK'
    BY <1>2 DEF Timeout, DoSendJobDone, AtPort, AtSendJob, ThreadsOK, ThreadsTyped, StackOK
  <1>3. ASSUME NEW t \in IoThreads, NEW s \in Sessions, NEW ok \in BOOLEAN,
              AcceptDequeued(t, s, ok)
        PROVE  ThreadsOK'
    <2>1. Dequeue(t, s, "ACCEPT", <<Step("accept", s)>>)
      BY <1>3 DEF AcceptDequeued
    <2>2. QED
      BY <2>1, InPlain, PlainDequeued
  <1>4. ASSUME NEW t \in IoThreads, NEW s \in Sessions, RecvZeroDequeued(t, s)
        PROVE  ThreadsOK'
    <2>1. Dequeue(t, s, "RECV_ZERO", <<Step("postRecvOrClose", s)>>)
      BY <1>4 DEF RecvZeroDequeued
    <2>2. QED
      BY <2>1, InPlain, PlainDequeued
  <1>5. ASSUME NEW t \in IoThreads, NEW s \in Sessions, RecvDequeued(t, s)
        PROVE  ThreadsOK'
    <2>1. Dequeue(t, s, "RECV", <<Step("preRecvOrClose", s), Step("move", s)>>)
      BY <1>5 DEF RecvDequeued
    <2>2. QED
      BY <2>1, InPlain, PlainDequeued
  <1>6. ASSUME NEW t \in IoThreads, NEW s \in Sessions, RecvFailed(t, s)
        PROVE  ThreadsOK'
    <2>1. Dequeue(t, s, "RECV", <<Step("disconnect", s)>>)
      BY <1>6 DEF RecvFailed
    <2>2. QED
      BY <2>1, InPlain, PlainDequeued
  <1>7. ASSUME NEW t \in IoThreads, NEW s \in Sessions, SendFull(t, s)
        PROVE  ThreadsOK'
    <2>1. Dequeue(t, s, "SEND", <<Step("sendDone", s)>>)
      BY <1>7 DEF SendFull, SendDequeued
    <2>2. QED
      BY <2>1, InPlain, PlainDequeued
  <1>8. ASSUME NEW t \in IoThreads, NEW s \in Sessions, SendShort(t, s)
        PROVE  ThreadsOK'
    <2>1. Dequeue(t, s, "SEND", <<Step("disconnect", s), Step("sendShort", s)>>)
      BY <1>8 DEF SendShort, SendDequeued
    <2>2. QED
      BY <2>1, InPlain, PlainDequeued
  <1>9. ASSUME NEW t \in IoThreads, NEW s \in Sessions, SendFailed(t, s)
        PROVE  ThreadsOK'
    <2>1. Dequeue(t, s, "SEND", <<Step("disconnect", s)>>)
      BY <1>9 DEF SendFailed, SendDequeued
    <2>2. QED
      BY <2>1, InPlain, PlainDequeued
  <1>10. ASSUME NEW t \in IoThreads, NEW s \in Sessions, DisconnectDequeued(t, s)
         PROVE  ThreadsOK'
    <2>1. Dequeue(t, s, "DISCONNECT", <<Step("releaseIssue", s)>>)
      BY <1>10 DEF DisconnectDequeued
    <2>2. QED
      BY <2>1, InPlain, PlainDequeued
  <1>11. ASSUME NEW t \in IoThreads, NEW s \in Sessions, DbResultDequeued(t, s)
         PROVE  ThreadsOK'
    <2>1. Dequeue(t, s, "DB", <<>>)
      BY <1>11 DEF DbResultDequeued
    <2>2. QED
      BY <2>1, InPlain, PlainDequeued
  <1>12. ASSUME NEW t \in IoThreads, NEW s \in Sessions, AcceptCompletion(t, s)
         PROVE  ThreadsOK'
    <2>1. /\ Ready(t, "accept", s) /\ phase' = phase /\ LSendRequestSessionList'
               = LSendRequestSessionList
          /\ \/ Done(t, <<>>)
             \/ Done(t, <<Step("load", s), Step("preRecv", s)>>)
             \/ Done(t, <<Step("disconnect", s)>>)
      BY <1>12 DEF AcceptCompletion
    <2>2. "accept" \in Handling
      BY DEF Handling, ReceiveSteps
    <2>3. QED
      BY <2>1, <2>2, ThreadReturns, InPlain, PlainContinues
  <1>13. ASSUME NEW t \in IoThreads, NEW s \in Sessions, RequestLoad(t, s)
         PROVE  ThreadsOK'
    <2>1. /\ Ready(t, "load", s) /\ phase' = phase /\ LSendRequestSessionList'
               = LSendRequestSessionList
          /\ Done(t, <<>>)
      BY <1>13 DEF RequestLoad
    <2>2. QED
      BY <2>1, ThreadReturns
  <1>14. ASSUME NEW t \in IoThreads, NEW s \in Sessions, NEW do \in ReceiveSteps,
              Receive(t, s, do)
         PROVE  ThreadsOK'
    <2>1. /\ Ready(t, do, s) /\ phase' = phase /\ LSendRequestSessionList'
               = LSendRequestSessionList
          /\ \/ Done(t, <<>>) \/ Done(t, <<Step("disconnect", s)>>)
             \/ Done(t, <<>> \o <<Step("releaseNew", s)>>)
             \/ Done(t, <<Step("disconnect", s)>> \o <<Step("releaseNew", s)>>)
      BY <1>14 DEF Receive
    <2>2. /\ <<>> \o <<Step("releaseNew", s)>> = <<Step("releaseNew", s)>>
          /\ <<Step("disconnect", s)>> \o <<Step("releaseNew", s)>>
               = <<Step("disconnect", s), Step("releaseNew", s)>>
      BY JoinedSteps, JoinedEmpty
    <2>3. \/ Done(t, <<>>) \/ Done(t, <<Step("disconnect", s)>>)
          \/ Done(t, <<Step("releaseNew", s)>>)
          \/ Done(t, <<Step("disconnect", s), Step("releaseNew", s)>>)
      BY <2>1, <2>2, Zenon
    <2>4. QED
      BY <2>1, <2>3, ThreadReturns, InPlain, PlainContinues
  <1>15. ASSUME NEW t \in IoThreads, NEW s \in Sessions, Handle_SC_MOVE(t, s)
         PROVE  ThreadsOK'
    <2>1. /\ Ready(t, "move", s) /\ phase' = phase /\ LSendRequestSessionList'
               = LSendRequestSessionList
          /\ \/ Done(t, <<>>)
             \/ Done(t, <<Step("postReply", s)>>)
      BY <1>15 DEF Handle_SC_MOVE
    <2>2. "move" \in Handling
      BY DEF Handling, ReceiveSteps
    <2>3. QED
      BY <2>1, <2>2, ThreadReturns, InPlain, PlainContinues
  <1>16. ASSUME NEW t \in IoThreads, NEW s \in Sessions, PostReply(t, s)
         PROVE  ThreadsOK'
    BY <1>16, PostReplyThreads
  <1>17. ASSUME NEW t \in IoThreads, NEW s \in Sessions, NEW do \in {"sendDone", "sendShort"},
              SendCompletion(t, s, do)
         PROVE  ThreadsOK'
    <2>1. /\ Ready(t, do, s) /\ phase' = phase /\ LSendRequestSessionList'
               = LSendRequestSessionList
          /\ Done(t, <<>>)
      BY <1>17 DEF SendCompletion
    <2>2. QED
      BY <2>1, ThreadReturns
  <1>18. ASSUME NEW t \in IoThreads, NEW s \in Sessions, DisconnectRequest(t, s)
         PROVE  ThreadsOK'
    <2>1. /\ Ready(t, "disconnect", s) /\ phase' = phase /\ LSendRequestSessionList'
               = LSendRequestSessionList
          /\ \/ Done(t, <<>>)
             \/ Done(t, <<Step("releaseNew", s)>>)
      BY <1>18 DEF DisconnectRequest
    <2>2. QED
      BY <2>1, ThreadReturns, InPlain, PlainContinues
  <1>19. ASSUME NEW t \in IoThreads, NEW s \in Sessions, NEW do \in ReleaseSteps,
              ReleaseRef(t, s, do)
         PROVE  ThreadsOK'
    <2>1. /\ Ready(t, do, s) /\ phase' = phase /\ LSendRequestSessionList'
               = LSendRequestSessionList
          /\ \/ Done(t, <<>>)
             \/ Done(t, <<Step("return", s)>>)
      BY <1>19 DEF ReleaseRef
    <2>2. QED
      BY <2>1, ThreadReturns, InPlain, PlainContinues
  <1>20. ASSUME NEW t \in IoThreads, NEW s \in Sessions, ReturnClientSession(t, s)
         PROVE  ThreadsOK'
    BY <1>20, ReturnThreads
  <1>21. ASSUME NEW t \in IoThreads, NEW s \in Sessions, SessionReset(t, s)
         PROVE  ThreadsOK'
    <2>1. /\ Ready(t, "reset", s) /\ phase' = phase /\ LSendRequestSessionList'
               = LSendRequestSessionList
          /\ Done(t, <<>>)
      BY <1>21 DEF SessionReset
    <2>2. QED
      BY <2>1, ThreadReturns
  <1>22. ASSUME NEW t \in IoThreads, NEW s \in Sessions, SessionReturned(t, s)
         PROVE  ThreadsOK'
    <2>1. /\ Ready(t, "resetSend", s) /\ phase' = phase /\ LSendRequestSessionList'
               = LSendRequestSessionList
          /\ Done(t, <<>>)
      BY <1>22 DEF SessionReturned
    <2>2. QED
      BY <2>1, ThreadReturns
  <1>23. ASSUME NEW t \in IoThreads, FlushSend(t)
         PROVE  ThreadsOK'
    BY <1>23, FlushSendThreads
  <1>24. ASSUME NEW t \in IoThreads, NEW s \in Sessions, FlushAgain(t, s)
         PROVE  ThreadsOK'
    <2>1. /\ Ready(t, "flush", s) /\ phase' = phase /\ LSendRequestSessionList'
               = LSendRequestSessionList
          /\ Done(t, <<>>)
      BY <1>24 DEF FlushAgain, InFlush
    <2>2. QED
      BY <2>1, ThreadReturns
  <1>25. ASSUME NEW t \in IoThreads, NEW s \in Sessions, FlushNothing(t, s) \/ FlushIssue(t, s)
         PROVE  ThreadsOK'
    <2>1. Ready(t, "flush", s) /\ Done(t, <<>>) /\ PopFront(t) /\ phase' = phase
      BY <1>25 DEF FlushNothing, FlushIssue, InFlush
    <2>2. QED
      BY <2>1, ThreadPops
  <1>26. ASSUME NEW t \in IoThreads, NEW s \in Sessions, FlushFails(t, s)
         PROVE  ThreadsOK'
    BY <1>26, FlushFailsThreads
  <1>27. ASSUME NEW t \in IoThreads, NEW s \in Sessions, Unlock(t, s)
         PROVE  ThreadsOK'
    <2>1. /\ Ready(t, "unlock", s) /\ phase' = phase /\ LSendRequestSessionList'
               = LSendRequestSessionList
          /\ Done(t, <<>>)
      BY <1>27 DEF Unlock
    <2>2. QED
      BY <2>1, ThreadReturns
  <1>28. ASSUME NEW t \in IoThreads, NEW s \in Sessions, Pop(t, s)
         PROVE  ThreadsOK'
    <2>1. Ready(t, "pop", s) /\ Done(t, <<>>) /\ PopFront(t) /\ phase' = phase
      BY <1>28 DEF Pop
    <2>2. QED
      BY <2>1, ThreadPops
  <1>29. QED
    BY <1>1, <1>2, <1>3, <1>4, <1>5, <1>6, <1>7, <1>8, <1>9, <1>10, <1>11, <1>12,
       <1>13, <1>14, <1>15, <1>16, <1>17, <1>18, <1>19, <1>20, <1>21, <1>22, <1>23,
       <1>24, <1>25, <1>26, <1>27, <1>28
       DEF Next, DoIocpJob, Handler, DoSendJob

-----------------------------------------------------------------------------
(* The sessions: their fields keep their types, and no step but a failing  *)
(* FlushSend takes a mSendBufferLock and keeps it.                         *)
Tidy(x, y) == y \in SessionRec /\ y.mSendBufferLock \in {x.mSendBufferLock, Nobody}

TidyStep ==
  /\ session' \in [Sessions -> SessionRec]
  /\ \A r \in Sessions : session'[r].mSendBufferLock \in {session[r].mSendBufferLock, Nobody}

(* The sessions keep their type, and no step but a failing FlushSend takes a lock. *)
LEMMA TidyOne ==
  ASSUME TypeOK, NEW s \in Sessions, NEW y, session' = [session EXCEPT ![s] = y],
         Tidy(session[s], y)
  PROVE  TidyStep
  <1>1. session \in [Sessions -> SessionRec] /\ y \in SessionRec
    BY DEF TypeOK, SessionRec, Tidy
  <1>2. session' \in [Sessions -> SessionRec]
    BY <1>1
  <1>3. session'[s] = y /\ \A r \in Sessions \ {s} : session'[r] = session[r]
    BY <1>1
  <1>4. QED
    BY <1>2, <1>3 DEF TidyStep, Tidy

LEMMA TidyNone == TypeOK /\ session' = session => TidyStep
  BY DEF TypeOK, SessionRec, TidyStep

(* ... whatever field it assigns, one or two of them ... *)
LEMMA TidyFields ==
  ASSUME NEW x \in SessionRec
  PROVE  /\ Tidy(x, x)
         /\ \A c \in {0, 1} : Tidy(x, [x EXCEPT !.mConnected = c])
         /\ \A n \in Int : Tidy(x, [x EXCEPT !.mRefCount = n])
         /\ \A n \in Int : Tidy(x, [x EXCEPT !.mSendPendingCount = n])
         /\ \A n \in Nat : Tidy(x, [x EXCEPT !.stored = n])
         /\ \A n \in Nat : Tidy(x, [x EXCEPT !.sendLen = n])
         /\ \A w \in {"new", "open", "closing"} : Tidy(x, [x EXCEPT !.socket = w])
         /\ \A b \in BOOLEAN : Tidy(x, [x EXCEPT !.issued = b])
         /\ \A p \in [IoTypes -> Nat] : Tidy(x, [x EXCEPT !.pending = p])
         /\ Tidy(x, [x EXCEPT !.mSendBufferLock = Nobody])
  <1>1. Tidy(x, x)
    BY DEF Tidy
  <1>2. \A c \in {0, 1} : Tidy(x, [x EXCEPT !.mConnected = c])
    BY DEF Tidy, SessionRec
  <1>3. \A n \in Int : Tidy(x, [x EXCEPT !.mRefCount = n])
    BY DEF Tidy, SessionRec
  <1>4. \A n \in Int : Tidy(x, [x EXCEPT !.mSendPendingCount = n])
    BY DEF Tidy, SessionRec
  <1>5. \A n \in Nat : Tidy(x, [x EXCEPT !.stored = n])
    BY DEF Tidy, SessionRec
  <1>6. \A n \in Nat : Tidy(x, [x EXCEPT !.sendLen = n])
    BY DEF Tidy, SessionRec
  <1>7. \A w \in {"new", "open", "closing"} : Tidy(x, [x EXCEPT !.socket = w])
    BY DEF Tidy, SessionRec
  <1>8. \A b \in BOOLEAN : Tidy(x, [x EXCEPT !.issued = b])
    BY DEF Tidy, SessionRec
  <1>9. \A p \in [IoTypes -> Nat] : Tidy(x, [x EXCEPT !.pending = p])
    BY DEF Tidy, SessionRec
  <1>10. Tidy(x, [x EXCEPT !.mSendBufferLock = Nobody])
    BY DEF Tidy, SessionRec
  <1>11. QED
    BY <1>1, <1>2, <1>3, <1>4, <1>5, <1>6, <1>7, <1>8, <1>9, <1>10

LEMMA TidyTwice ==
  ASSUME NEW x, NEW y, NEW z, Tidy(x, y), Tidy(y, z)
  PROVE  Tidy(x, z)
  BY DEF Tidy

(* ... or the operators that assign several. *)
LEMMA TidyContext ==
  ASSUME NEW x \in SessionRec
  PROVE  /\ \A io \in IoTypes : Tidy(x, WithContext(x, io))
         /\ Tidy(x, WithFailedContext(x))
  <1>1. Tidy(x, WithFailedContext(x))
    <2>1. x.mRefCount + 1 \in Int
      BY DEF SessionRec
    <2>2. WithFailedContext(x) = [x EXCEPT !.mRefCount = x.mRefCount + 1]
      BY DEF WithFailedContext
    <2>3. QED
      BY <2>1, <2>2, TidyFields
  <1>2. ASSUME NEW io \in IoTypes
        PROVE  Tidy(x, WithContext(x, io))
    <2> DEFINE q == [x.pending EXCEPT ![io] = @ + 1]
               y == WithFailedContext(x)
    <2>1. q \in [IoTypes -> Nat] /\ WithContext(x, io) = [y EXCEPT !.pending = q]
      BY DEF WithContext, WithFailedContext, SessionRec
    <2>2. y \in SessionRec /\ Tidy(x, y)
      BY <1>1 DEF Tidy
    <2> HIDE DEF y, q
    <2>3. Tidy(y, WithContext(x, io))
      BY <2>1, <2>2, TidyFields
    <2>4. QED
      BY <2>2, <2>3, TidyTwice
  <1>3. QED
    BY <1>1, <1>2

LEMMA TidyTaken ==
  ASSUME NEW x \in SessionRec, NEW io \in IoTypes, x.pending[io] >= 1
  PROVE  Tidy(x, [x EXCEPT !.pending[io] = @ - 1])
  <1> DEFINE q == [x.pending EXCEPT ![io] = @ - 1]
  <1>1. q \in [IoTypes -> Nat]
    BY DEF SessionRec
  <1>2. [x EXCEPT !.pending[io] = @ - 1] = [x EXCEPT !.pending = q]
    BY DEF SessionRec
  <1> HIDE DEF q
  <1>3. QED
    BY <1>1, <1>2, TidyFields

(* A completion is taken. *)
LEMMA TidyDequeue ==
  ASSUME TypeOK, NEW t \in IoThreads, NEW s \in Sessions, NEW io \in IoTypes, NEW steps,
         Dequeue(t, s, io, steps), session' = Taken(s, io)
  PROVE  TidyStep
  <1> DEFINE y == [session[s] EXCEPT !.pending[io] = @ - 1]
  <1>1. session[s] \in SessionRec /\ session[s].pending[io] >= 1
    BY Typed, FromPort
  <1>2. Tidy(session[s], y)
    BY <1>1, TidyTaken
  <1>3. session' = [session EXCEPT ![s] = y]
    BY DEF Taken, TypeOK
  <1> HIDE DEF y
  <1>4. QED
    BY <1>2, <1>3, TidyOne

LEMMA TidyAccept ==
  ASSUME TypeOK, NEW t \in IoThreads, NEW s \in Sessions, NEW ok \in BOOLEAN,
         AcceptDequeued(t, s, ok)
  PROVE  TidyStep
  <1> DEFINE z == [session[s] EXCEPT !.pending["ACCEPT"] = @ - 1]
             y == [z EXCEPT !.socket = IF ok THEN "open" ELSE z.socket]
             v == Taken(s, "ACCEPT")
  <1>1. "ACCEPT" \in IoTypes /\ Dequeue(t, s, "ACCEPT", <<Step("accept", s)>>)
    BY DEF AcceptDequeued, IoTypes
  <1>2. session[s] \in SessionRec /\ session[s].pending["ACCEPT"] >= 1
    BY <1>1, Typed, FromPort
  <1>3. Tidy(session[s], z)
    BY <1>1, <1>2, TidyTaken
  <1>4. v = [session EXCEPT ![s] = z]
    BY DEF Taken, TypeOK
  <1>5. session' = [v EXCEPT ![s].socket = IF ok THEN "open" ELSE @]
    BY DEF AcceptDequeued
  <1> HIDE DEF v, z
  <1>6. DOMAIN session = Sessions
    BY DEF TypeOK
  <1>7. session' = [session EXCEPT ![s] = y]
    BY <1>4, <1>5, <1>6
  <1>8. z \in SessionRec
    BY <1>3 DEF Tidy
  <1>9. (IF ok THEN "open" ELSE z.socket) \in {"new", "open", "closing"}
    BY <1>8 DEF SessionRec
  <1>10. Tidy(z, y)
    BY <1>8, <1>9, TidyFields
  <1> HIDE DEF y
  <1>11. QED
    BY <1>3, <1>7, <1>10, TidyTwice, TidyOne

(* The process's own variables, and the manager's. *)
ProcessTyped ==
  /\ halted \in Halts /\ playerId \in Nat /\ requests \in Nat
  /\ flushFault \in {"none", "failed", "revived"}

ManagerOK ==
  /\ mFreeSessionList \in Seq(Sessions)
  /\ mLock \in IoThreads \cup {Main, Nobody}
  /\ mCurrentIssueCount \in Nat /\ mCurrentReturnCount \in Nat
  /\ Len(mFreeSessionList) + PoolInUse = Cardinality(Sessions)

(* PoolConserved, in the parts that the following lemmas keep. *)
LEMMA Parts ==
  PoolConserved <=> /\ session \in [Sessions -> SessionRec] /\ ManagerOK /\ ThreadsTyped
                    /\ ProcessTyped
  BY DEF PoolConserved, TypeOK, SessionRec, ManagerOK, ThreadsTyped, Stacks, StepSet,
     ProcessTyped

LEMMA PartsAfter ==
  PoolConserved' <=> /\ session' \in [Sessions -> SessionRec] /\ ManagerOK' /\ ThreadsTyped'
                     /\ ProcessTyped'
  BY DEF PoolConserved, TypeOK, SessionRec, ManagerOK, ThreadsTyped, Stacks, StepSet,
     ProcessTyped

(* Popping and returning keep the pool and its counters in agreement. *)
LEMMA PostAcceptManager ==
  ASSUME PoolConserved, NEW ok \in BOOLEAN, PostAccept(ok)
  PROVE  ManagerOK'
  <1> DEFINE f == mFreeSessionList
             n == Len(f)
  <1>1. /\ f \in Seq(Sessions) /\ mCurrentIssueCount \in Nat /\ mCurrentReturnCount \in Nat
        /\ mLock \in IoThreads \cup {Main, Nobody}
        /\ Len(f) + (mCurrentIssueCount - mCurrentReturnCount) = Cardinality(Sessions)
    BY DEF PoolConserved, TypeOK, PoolInUse
  <1>2. Cardinality(Sessions) \in Nat
    BY FS_CardinalityType, SessionPoolAssumption DEF SessionPoolAssumption
  <1>3. /\ mFreeSessionList' = Without(f) /\ mLock' = mLock
        /\ mCurrentIssueCount' = mCurrentIssueCount + 1
        /\ mCurrentReturnCount' = mCurrentReturnCount
        /\ mCurrentIssueCount - mCurrentReturnCount < Cardinality(Sessions)
    BY DEF PostAccept, PoolInUse, Without
  <1>4. f # <<>>
    <2>1. Len(f) \in Nat
      BY <1>1
    <2>2. Len(f) > 0
      BY <1>1, <1>2, <1>3, <2>1
    <2>3. QED
      BY <2>2
  <1>5. Without(f) \in Seq(Sessions) /\ Len(Without(f)) = Len(f) - 1
    BY <1>1, <1>4, StackSplits
  <1>6. QED
    BY <1>1, <1>2, <1>3, <1>5 DEF ManagerOK, PoolInUse

LEMMA SessionReturnedManager ==
  ASSUME PoolConserved, NEW t \in IoThreads, NEW s \in Sessions, SessionReturned(t, s)
  PROVE  ManagerOK'
  <1> DEFINE f == mFreeSessionList
  <1>1. /\ f \in Seq(Sessions) /\ mCurrentIssueCount \in Nat /\ mCurrentReturnCount \in Nat
        /\ Len(f) + (mCurrentIssueCount - mCurrentReturnCount) = Cardinality(Sessions)
    BY DEF PoolConserved, TypeOK, PoolInUse
  <1>2. Append(f, s) \in Seq(Sessions) /\ Len(Append(f, s)) = Len(f) + 1 /\ Len(f) \in Nat
    BY <1>1
  <1>3. /\ mFreeSessionList' = Append(f, s) /\ mLock' = Nobody
        /\ mCurrentIssueCount' = mCurrentIssueCount
        /\ mCurrentReturnCount' = mCurrentReturnCount + 1
    BY DEF SessionReturned
  <1> HIDE DEF f
  <1>4. QED
    BY <1>1, <1>2, <1>3 DEF ManagerOK, PoolInUse

(* The session a handler's step changes. *)
LEMMA TidyReceive ==
  ASSUME TypeOK, NEW t \in IoThreads, NEW s \in Sessions, NEW do \in ReceiveSteps,
         Receive(t, s, do)
  PROVE  TidyStep
  <1> DEFINE io == IF do = "postRecvOrClose" THEN "RECV" ELSE "RECV_ZERO"
  <1>1. io \in IoTypes /\ session[s] \in SessionRec
    BY Typed DEF IoTypes
  <1>2. \/ session' = session
        \/ session' = [session EXCEPT ![s] = WithContext(session[s], io)]
        \/ session' = [session EXCEPT ![s] = WithFailedContext(session[s])]
    BY DEF Receive
  <1> HIDE DEF io
  <1>3. QED
    BY <1>1, <1>2, TidyNone, TidyContext, TidyOne

(* The handlers, one by one. *)
LEMMA TidySendCompletion ==
  ASSUME TypeOK, NEW t \in IoThreads, NEW s \in Sessions, NEW do, SendCompletion(t, s, do)
  PROVE  TidyStep
  <1> DEFINE x == session[s]
  <1>1. x \in SessionRec /\ x.stored \in Nat /\ x.sendLen \in Nat /\ x.mSendPendingCount \in Int
    BY Typed DEF SessionRec
  <1>2. PICK n \in 0 .. x.sendLen :
          session' = [session EXCEPT ![s].stored = IF n < @ THEN @ - n ELSE 0,
                                     ![s].mSendPendingCount = @ - 1]
    BY DEF SendCompletion
  <1> DEFINE m == IF n < x.stored THEN x.stored - n ELSE 0
             y == [x EXCEPT !.stored = m]
             z == [y EXCEPT !.mSendPendingCount = y.mSendPendingCount - 1]
  <1>3. m \in Nat
    BY <1>1, <1>2
  <1>4. session' = [session EXCEPT ![s] = z]
    BY <1>1, <1>2 DEF TypeOK, SessionRec
  <1> HIDE DEF x, m
  <1>5. Tidy(x, y) /\ y \in SessionRec
    BY <1>1, <1>3, TidyFields DEF Tidy
  <1> HIDE DEF y
  <1>6. Tidy(y, z)
    <2>1. y.mSendPendingCount - 1 \in Int
      BY <1>5 DEF SessionRec
    <2>2. QED
      BY <1>5, <2>1, TidyFields
  <1> HIDE DEF z
  <1>7. QED
    BY <1>4, <1>5, <1>6, TidyTwice, TidyOne DEF x

LEMMA TidyDisconnect ==
  ASSUME TypeOK, NEW t \in IoThreads, NEW s \in Sessions, DisconnectRequest(t, s)
  PROVE  TidyStep
  <1> DEFINE x == session[s]
             c == [x EXCEPT !.mConnected = 0]
             d == WithContext(c, "DISCONNECT")
  <1>1. x \in SessionRec /\ "DISCONNECT" \in IoTypes
    BY Typed DEF IoTypes
  <1>2. \/ session' = session
        \/ session' = [session EXCEPT ![s] = [d EXCEPT !.socket = "closing"]]
        \/ session' = [session EXCEPT ![s] = WithFailedContext(c)]
    BY DEF DisconnectRequest
  <1>3. Tidy(x, c) /\ c \in SessionRec
    BY <1>1, TidyFields DEF Tidy
  <1> HIDE DEF c
  <1>4. Tidy(c, d) /\ d \in SessionRec /\ Tidy(c, WithFailedContext(c))
    BY <1>1, <1>3, TidyContext DEF Tidy
  <1> HIDE DEF d
  <1>5. Tidy(d, [d EXCEPT !.socket = "closing"])
    BY <1>4, TidyFields
  <1>6. Tidy(x, [d EXCEPT !.socket = "closing"]) /\ Tidy(x, WithFailedContext(c))
    BY <1>3, <1>4, <1>5, TidyTwice
  <1>7. QED
    BY <1>2, <1>6, TidyNone, TidyOne

LEMMA TidyRelease ==
  ASSUME TypeOK, NEW t \in IoThreads, NEW s \in Sessions, NEW do, ReleaseRef(t, s, do)
  PROVE  TidyStep
  <1> DEFINE x == session[s]
             y == [x EXCEPT !.mRefCount = x.mRefCount - 1]
             b == IF do = "releaseIssue" THEN FALSE ELSE x.issued
             z == [y EXCEPT !.issued = b]
  <1>1. x \in SessionRec /\ x.mRefCount - 1 \in Int /\ b \in BOOLEAN
    <2>1. x \in SessionRec
      BY Typed
    <2>2. x.mRefCount \in Int /\ x.issued \in BOOLEAN
      BY <2>1 DEF SessionRec
    <2> HIDE DEF x
    <2>3. x.mRefCount - 1 \in Int
      BY <2>2
    <2>4. b \in BOOLEAN
      BY <2>2, Zenon
    <2>5. QED
      BY <2>1, <2>3, <2>4
  <1>2. session' = [session EXCEPT ![s] = z]
    BY <1>1 DEF ReleaseRef, TypeOK, SessionRec
  <1> HIDE DEF b
  <1>3. Tidy(x, y) /\ y \in SessionRec
    BY <1>1, TidyFields DEF Tidy
  <1> HIDE DEF y
  <1>4. Tidy(y, z)
    BY <1>1, <1>3, TidyFields
  <1> HIDE DEF z
  <1>5. QED
    BY <1>2, <1>3, <1>4, TidyTwice, TidyOne

LEMMA TidyReset ==
  ASSUME TypeOK, NEW t \in IoThreads, NEW s \in Sessions, SessionReset(t, s)
  PROVE  TidyStep
  <1> DEFINE x == session[s]
             y == [x EXCEPT !.mConnected = 0]
             z == [y EXCEPT !.mRefCount = 0]
  <1>1. x \in SessionRec
    BY Typed
  <1>2. session' = [session EXCEPT ![s] = z]
    BY <1>1 DEF SessionReset, TypeOK, SessionRec
  <1>3. Tidy(x, y) /\ y \in SessionRec
    BY <1>1, TidyFields DEF Tidy
  <1> HIDE DEF y
  <1>4. Tidy(y, z)
    <2>1. \A n \in Int : Tidy(y, [y EXCEPT !.mRefCount = n])
      BY <1>3, TidyFields
    <2>2. 0 \in Int
      OBVIOUS
    <2>3. QED
      BY <2>1, <2>2
  <1> HIDE DEF z
  <1>5. QED
    BY <1>2, <1>3, <1>4, TidyTwice, TidyOne

LEMMA TidyReturned ==
  ASSUME TypeOK, NEW t \in IoThreads, NEW s \in Sessions, SessionReturned(t, s)
  PROVE  TidyStep
  <1> DEFINE x == session[s]
             y == [x EXCEPT !.stored = 0]
             z == [y EXCEPT !.socket = "new"]
  <1>1. x \in SessionRec
    BY Typed
  <1>2. session' = [session EXCEPT ![s] = z]
    BY <1>1 DEF SessionReturned, TypeOK, SessionRec
  <1>3. Tidy(x, y) /\ y \in SessionRec
    BY <1>1, TidyFields DEF Tidy
  <1> HIDE DEF y
  <1>4. Tidy(y, z)
    BY <1>3, TidyFields
  <1> HIDE DEF z
  <1>5. QED
    BY <1>2, <1>3, <1>4, TidyTwice, TidyOne

LEMMA TidySend ==
  ASSUME NEW x \in SessionRec, NEW n \in Nat
  PROVE  Tidy(x, WithSend(x, n))
  <1> DEFINE d == WithContext(x, "SEND")
             y == [d EXCEPT !.mSendPendingCount = d.mSendPendingCount + 1]
             z == [y EXCEPT !.sendLen = n]
  <1>1. "SEND" \in IoTypes
    BY DEF IoTypes
  <1>2. Tidy(x, d) /\ d \in SessionRec
    BY <1>1, TidyContext DEF Tidy
  <1>3. WithSend(x, n) = z
    BY DEF WithSend
  <1> HIDE DEF d
  <1>4. Tidy(d, y) /\ y \in SessionRec
    <2>1. d.mSendPendingCount + 1 \in Int
      BY <1>2 DEF SessionRec
    <2>2. QED
      BY <1>2, <2>1, TidyFields DEF Tidy
  <1> HIDE DEF y
  <1>5. Tidy(y, z)
    BY <1>4, TidyFields
  <1> HIDE DEF z
  <1>6. QED
    BY <1>2, <1>3, <1>4, <1>5, TidyTwice

LEMMA TidyFlushIssue ==
  ASSUME TypeOK, NEW t \in IoThreads, NEW s \in Sessions, FlushIssue(t, s)
  PROVE  TidyStep
  <1>1. session[s] \in SessionRec /\ session[s].stored \in Nat
    BY Typed DEF SessionRec
  <1>2. PICK n \in 1 .. session[s].stored :
          session' = [session EXCEPT ![s] = WithSend(session[s], n)]
    BY DEF FlushIssue
  <1>3. n \in Nat
    BY <1>1
  <1>4. QED
    BY <1>1, <1>2, <1>3, TidySend, TidyOne

LEMMA TidyPostAccept ==
  ASSUME PoolConserved, NEW ok \in BOOLEAN, PostAccept(ok)
  PROVE  TidyStep
  <1> DEFINE x == session[Popped]
             y == [x EXCEPT !.mRefCount = x.mRefCount + 1]
             z == [y EXCEPT !.issued = TRUE]
             a == WithContext(z, "ACCEPT")
  <1>1. Popped \in Sessions
    BY PostAcceptHasOne
  <1>2. x \in SessionRec /\ x.mRefCount + 1 \in Int /\ "ACCEPT" \in IoTypes
    BY <1>1, Typed DEF PoolConserved, SessionRec, IoTypes
  <1>3. session' = [session EXCEPT ![Popped] = IF ok THEN a ELSE z]
    <2>1. [session[Popped] EXCEPT !.mRefCount = @ + 1, !.issued = TRUE] = z
      OBVIOUS
    <2> HIDE DEF z
    <2>2. QED
      BY <2>1 DEF PostAccept, Popped
  <1>4. Tidy(x, y) /\ y \in SessionRec
    BY <1>2, TidyFields DEF Tidy
  <1> HIDE DEF y
  <1>5. Tidy(y, z) /\ z \in SessionRec
    BY <1>4, TidyFields DEF Tidy
  <1> HIDE DEF z
  <1>6. Tidy(z, a)
    BY <1>2, <1>5, TidyContext
  <1> HIDE DEF a
  <1>7. Tidy(x, IF ok THEN a ELSE z)
    BY <1>4, <1>5, <1>6, TidyTwice
  <1>8. TypeOK
    BY DEF PoolConserved
  <1>9. QED
    BY <1>1, <1>3, <1>7, <1>8, TidyOne

LEMMA FlushFailsTyped ==
  ASSUME TypeOK, NEW t \in IoThreads, NEW s \in Sessions, FlushFails(t, s)
  PROVE  session' \in [Sessions -> SessionRec] /\ flushFault' # "none"
  <1> DEFINE x == session[s]
             y == WithFailedContext(x)
             z == [y EXCEPT !.mSendBufferLock = t]
  <1>1. x \in SessionRec /\ session \in [Sessions -> SessionRec]
    BY Typed DEF TypeOK, SessionRec
  <1>2. session' = [session EXCEPT ![s] = z] /\ flushFault' # "none"
    BY DEF FlushFails
  <1>3. y \in SessionRec
    BY <1>1, TidyContext DEF Tidy
  <1> HIDE DEF y
  <1>4. z \in SessionRec
    BY <1>3 DEF SessionRec
  <1> HIDE DEF z
  <1>5. QED
    BY <1>1, <1>2, <1>4

(* Every step keeps what is said of the fields of the sessions, of the     *)
(* manager and of the process.                                             *)
LEMMA SessionsTypedKept ==
  ASSUME PoolConserved, LockKeptByFailure, Next
  PROVE  session' \in [Sessions -> SessionRec] /\ LockKeptByFailure'
  <1>0. TypeOK /\ \A s \in Sessions : session[s] \in SessionRec
    BY Typed DEF PoolConserved
  <1>1. ASSUME TidyStep, flushFault = "none" \/ flushFault' # "none"
        PROVE  session' \in [Sessions -> SessionRec] /\ LockKeptByFailure'
    BY <1>1 DEF TidyStep, LockKeptByFailure
  <1>2. ASSUME AcceptClientSessions \/ AcceptDone
        PROVE  TidyStep /\ (flushFault = "none" \/ flushFault' # "none")
    BY <1>2, <1>0, TidyNone DEF AcceptClientSessions, AcceptDone, processVars
  <1>3. ASSUME NEW ok \in BOOLEAN, PostAccept(ok)
        PROVE  TidyStep /\ (flushFault = "none" \/ flushFault' # "none")
    BY <1>3, TidyPostAccept DEF PostAccept
  <1>4. ASSUME NEW t \in IoThreads, Timeout(t) \/ DoSendJobDone(t) \/ FlushSend(t)
        PROVE  TidyStep /\ (flushFault = "none" \/ flushFault' # "none")
    BY <1>4, <1>0, TidyNone DEF Timeout, DoSendJobDone, FlushSend, processVars
  <1>5. ASSUME NEW t \in IoThreads, NEW s \in Sessions, NEW ok \in BOOLEAN,
              AcceptDequeued(t, s, ok)
        PROVE  TidyStep /\ (flushFault = "none" \/ flushFault' # "none")
    BY <1>5, <1>0, TidyAccept DEF AcceptDequeued, Dequeue
  <1>6. ASSUME NEW t \in IoThreads, NEW s \in Sessions, RecvZeroDequeued(t, s)
        PROVE  TidyStep /\ (flushFault = "none" \/ flushFault' # "none")
    BY <1>6, <1>0, TidyDequeue DEF RecvZeroDequeued, Dequeue, IoTypes
  <1>7. ASSUME NEW t \in IoThreads, NEW s \in Sessions, RecvDequeued(t, s)
        PROVE  TidyStep /\ (flushFault = "none" \/ flushFault' # "none")
    BY <1>7, <1>0, TidyDequeue DEF RecvDequeued, Dequeue, IoTypes
  <1>8. ASSUME NEW t \in IoThreads, NEW s \in Sessions, RecvFailed(t, s)
        PROVE  TidyStep /\ (flushFault = "none" \/ flushFault' # "none")
    BY <1>8, <1>0, TidyDequeue DEF RecvFailed, Dequeue, IoTypes
  <1>9. ASSUME NEW t \in IoThreads, NEW s \in Sessions, SendFull(t, s)
        PROVE  TidyStep /\ (flushFault = "none" \/ flushFault' # "none")
    BY <1>9, <1>0, TidyDequeue DEF SendFull, Dequeue, IoTypes, SendDequeued
  <1>10. ASSUME NEW t \in IoThreads, NEW s \in Sessions, SendShort(t, s)
         PROVE  TidyStep /\ (flushFault = "none" \/ flushFault' # "none")
    BY <1>10, <1>0, TidyDequeue DEF SendShort, Dequeue, IoTypes, SendDequeued
  <1>11. ASSUME NEW t \in IoThreads, NEW s \in Sessions, SendFailed(t, s)
         PROVE  TidyStep /\ (flushFault = "none" \/ flushFault' # "none")
    BY <1>11, <1>0, TidyDequeue DEF SendFailed, Dequeue, IoTypes, SendDequeued
  <1>12. ASSUME NEW t \in IoThreads, NEW s \in Sessions, DisconnectDequeued(t, s)
         PROVE  TidyStep /\ (flushFault = "none" \/ flushFault' # "none")
    BY <1>12, <1>0, TidyDequeue DEF DisconnectDequeued, Dequeue, IoTypes
  <1>13. ASSUME NEW t \in IoThreads, NEW s \in Sessions, DbResultDequeued(t, s)
         PROVE  TidyStep /\ (flushFault = "none" \/ flushFault' # "none")
    BY <1>13, <1>0, TidyDequeue DEF DbResultDequeued, Dequeue, IoTypes
  <1>14. ASSUME NEW t \in IoThreads, NEW s \in Sessions, AcceptCompletion(t, s)
         PROVE  TidyStep /\ (flushFault = "none" \/ flushFault' # "none")
    <2>1. session' = [session EXCEPT ![s] = [session[s] EXCEPT !.mConnected = 1]]
      BY <1>14, <1>0 DEF AcceptCompletion, TypeOK
    <2>2. QED
      BY <1>14, <1>0, <2>1, TidyFields, TidyOne DEF AcceptCompletion
  <1>15. ASSUME NEW t \in IoThreads, NEW s \in Sessions, RequestLoad(t, s)
         PROVE  TidyStep /\ (flushFault = "none" \/ flushFault' # "none")
    <2>1. session' = [session EXCEPT ![s] = WithContext(session[s], "DB")] /\ "DB" \in IoTypes
      BY <1>15 DEF RequestLoad, IoTypes
    <2>2. QED
      BY <1>15, <1>0, <2>1, TidyContext, TidyOne DEF RequestLoad
  <1>16. ASSUME NEW t \in IoThreads, NEW s \in Sessions, NEW do \in ReceiveSteps,
               Receive(t, s, do)
         PROVE  TidyStep /\ (flushFault = "none" \/ flushFault' # "none")
    BY <1>16, <1>0, TidyReceive DEF Receive, processVars
  <1>17. ASSUME NEW t \in IoThreads, NEW s \in Sessions, Handle_SC_MOVE(t, s)
         PROVE  TidyStep /\ (flushFault = "none" \/ flushFault' # "none")
    BY <1>17, <1>0, TidyNone DEF Handle_SC_MOVE, processVars
  <1>18. ASSUME NEW t \in IoThreads, NEW s \in Sessions, PostReply(t, s)
         PROVE  TidyStep /\ (flushFault = "none" \/ flushFault' # "none")
    <2>1. \/ session' = session
          \/ session' = [session EXCEPT ![s]
               = [session[s] EXCEPT !.stored = session[s].stored + 1]]
      BY <1>18, <1>0 DEF PostReply, TypeOK
    <2>2. session[s].stored + 1 \in Nat
      BY <1>0 DEF SessionRec
    <2>3. Tidy(session[s], [session[s] EXCEPT !.stored = session[s].stored + 1])
      BY <1>0, <2>2, TidyFields
    <2>4. TidyStep
      BY <1>0, <2>1, <2>3, TidyNone, TidyOne
    <2>5. QED
      BY <1>18, <2>4 DEF PostReply, processVars
  <1>19. ASSUME NEW t \in IoThreads, NEW s \in Sessions, NEW do,
               SendCompletion(t, s, do)
         PROVE  TidyStep /\ (flushFault = "none" \/ flushFault' # "none")
    BY <1>19, <1>0, TidySendCompletion DEF SendCompletion, processVars
  <1>20. ASSUME NEW t \in IoThreads, NEW s \in Sessions, DisconnectRequest(t, s)
         PROVE  TidyStep /\ (flushFault = "none" \/ flushFault' # "none")
    BY <1>20, <1>0, TidyDisconnect DEF DisconnectRequest, processVars
  <1>21. ASSUME NEW t \in IoThreads, NEW s \in Sessions, NEW do,
               ReleaseRef(t, s, do)
         PROVE  TidyStep /\ (flushFault = "none" \/ flushFault' # "none")
    BY <1>21, <1>0, TidyRelease DEF ReleaseRef
  <1>22. ASSUME NEW t \in IoThreads, NEW s \in Sessions, ReturnClientSession(t, s)
         PROVE  TidyStep /\ (flushFault = "none" \/ flushFault' # "none")
    BY <1>22, <1>0, TidyNone DEF ReturnClientSession
  <1>23. ASSUME NEW t \in IoThreads, NEW s \in Sessions, SessionReset(t, s)
         PROVE  TidyStep /\ (flushFault = "none" \/ flushFault' # "none")
    BY <1>23, <1>0, TidyReset DEF SessionReset, processVars
  <1>24. ASSUME NEW t \in IoThreads, NEW s \in Sessions, SessionReturned(t, s)
         PROVE  TidyStep /\ (flushFault = "none" \/ flushFault' # "none")
    BY <1>24, <1>0, TidyReturned DEF SessionReturned, processVars
  <1>25. ASSUME NEW t \in IoThreads, NEW s \in Sessions, FlushAgain(t, s)
                \/ FlushNothing(t, s) \/ Pop(t, s)
         PROVE  TidyStep /\ (flushFault = "none" \/ flushFault' # "none")
    BY <1>25, <1>0, TidyNone DEF FlushAgain, FlushNothing, Pop, processVars
  <1>26. ASSUME NEW t \in IoThreads, NEW s \in Sessions, FlushIssue(t, s)
         PROVE  TidyStep /\ (flushFault = "none" \/ flushFault' # "none")
    BY <1>26, <1>0, TidyFlushIssue DEF FlushIssue
  <1>27. ASSUME NEW t \in IoThreads, NEW s \in Sessions, FlushFails(t, s)
         PROVE  session' \in [Sessions -> SessionRec] /\ LockKeptByFailure'
    BY <1>27, <1>0, FlushFailsTyped DEF LockKeptByFailure
  <1>28. ASSUME NEW t \in IoThreads, NEW s \in Sessions, Unlock(t, s)
         PROVE  TidyStep /\ (flushFault = "none" \/ flushFault' # "none")
    <2>1. session' = [session EXCEPT ![s] = [session[s] EXCEPT !.mSendBufferLock = Nobody]]
      BY <1>28, <1>0 DEF Unlock, TypeOK
    <2>2. QED
      BY <1>28, <1>0, <2>1, TidyFields, TidyOne DEF Unlock, processVars
  <1>29. QED
    BY <1>1, <1>2, <1>3, <1>4, <1>5, <1>6, <1>7, <1>8, <1>9, <1>10, <1>11, <1>12,
       <1>13, <1>14, <1>15, <1>16, <1>17, <1>18, <1>19, <1>20, <1>21, <1>22, <1>23,
       <1>24, <1>25, <1>26, <1>27, <1>28
       DEF Next, MainThread, DoIocpJob, Handler, DoSendJob

(* The parts together. *)
LEMMA ManagerKept ==
  ASSUME PoolConserved, Next
  PROVE  ManagerOK'
  <1>1. ManagerOK
    BY Parts
  <1>2. ASSUME UNCHANGED managerVars
        PROVE  ManagerOK'
    BY <1>1, <1>2 DEF ManagerOK, PoolInUse, managerVars
  <1>3. ASSUME AcceptClientSessions \/ AcceptDone
        PROVE  ManagerOK'
    BY <1>1, <1>3 DEF AcceptClientSessions, AcceptDone, ManagerOK, PoolInUse
  <1>4. ASSUME NEW ok \in BOOLEAN, PostAccept(ok)
        PROVE  ManagerOK'
    BY <1>4, PostAcceptManager
  <1>5. ASSUME NEW t \in IoThreads, DoIocpJob(t)
        PROVE  UNCHANGED managerVars
    BY <1>5, Zenon
       DEF DoIocpJob, Timeout, AcceptDequeued, RecvZeroDequeued, RecvDequeued, RecvFailed,
           SendFull, SendShort, SendFailed, SendDequeued, DisconnectDequeued, DbResultDequeued,
           Dequeue
  <1>6. ASSUME NEW t \in IoThreads, DoSendJob(t)
        PROVE  UNCHANGED managerVars
    BY <1>6, Zenon
       DEF DoSendJob, DoSendJobDone, FlushSend, FlushAgain, FlushNothing, FlushIssue,
         FlushFails,
           Unlock, Pop
  <1>7. ASSUME NEW t \in IoThreads, NEW s \in Sessions, ReturnClientSession(t, s)
        PROVE  ManagerOK'
    BY <1>1, <1>7 DEF ReturnClientSession, ManagerOK, PoolInUse
  <1>8. ASSUME NEW t \in IoThreads, NEW s \in Sessions, SessionReturned(t, s)
        PROVE  ManagerOK'
    BY <1>8, SessionReturnedManager
  <1>9. ASSUME NEW t \in IoThreads, Handler(t),
               \A s \in Sessions : ~ReturnClientSession(t, s) /\ ~SessionReturned(t, s)
        PROVE  UNCHANGED managerVars
    BY <1>9, ZenonT(60)
       DEF Handler, AcceptCompletion, RequestLoad, Receive, Handle_SC_MOVE, PostReply,
           SendCompletion, DisconnectRequest, ReleaseRef, SessionReset
  <1>10. QED
    BY <1>2, <1>3, <1>4, <1>5, <1>6, <1>7, <1>8, <1>9 DEF Next, MainThread

LEMMA ProcessKept ==
  ASSUME ProcessTyped, Next
  PROVE  ProcessTyped'
  <1>1. ASSUME UNCHANGED processVars
        PROVE  ProcessTyped'
    BY <1>1 DEF ProcessTyped, processVars
  <1>2. ASSUME MainThread
        PROVE  ProcessTyped'
    <2>1. UNCHANGED <<playerId, requests, flushFault>> /\ halted' \in {halted, "no", "exit"}
      BY <1>2 DEF MainThread, AcceptClientSessions, PostAccept, AcceptDone, processVars
    <2>2. QED
      BY <2>1 DEF ProcessTyped, Halts
  <1>3. ASSUME NEW t \in IoThreads, DoIocpJob(t)
        PROVE  /\ UNCHANGED <<halted, playerId, flushFault>>
               /\ requests' = requests \/ requests' = requests + 1
    BY <1>3, Zenon
       DEF DoIocpJob, Timeout, AcceptDequeued, RecvZeroDequeued, RecvDequeued, RecvFailed,
           SendFull, SendShort, SendFailed, SendDequeued, DisconnectDequeued, DbResultDequeued,
           Dequeue, processVars
  <1>4. ASSUME NEW t \in IoThreads, DoSendJob(t)
        PROVE  /\ UNCHANGED <<halted, playerId, requests>>
               /\ flushFault' \in {flushFault, "revived", "failed"}
    BY <1>4
       DEF DoSendJob, DoSendJobDone, FlushSend, FlushAgain, FlushNothing, FlushIssue,
         FlushFails,
           Unlock, Pop, processVars
  <1>5. ASSUME NEW t \in IoThreads, NEW s \in Sessions,
               \/ AcceptCompletion(t, s) \/ RequestLoad(t, s) \/ ReturnClientSession(t, s)
               \/ \E do \in ReleaseSteps : ReleaseRef(t, s, do)
        PROVE  ProcessTyped'
    <2>1. /\ requests' = requests /\ flushFault' = flushFault
          /\ playerId' = playerId \/ playerId' = playerId + 1
      BY <1>5, Zenon DEF AcceptCompletion, RequestLoad, ReturnClientSession, ReleaseRef
    <2>2. halted' \in {halted, "no", "AcceptCompletion", "RequestLoad", "ReturnClientSession",
                       "ReleaseRef"}
      <3>1. ASSUME AcceptCompletion(t, s)
            PROVE  halted' = halted \/ halted' = "AcceptCompletion"
        BY <3>1, Zenon DEF AcceptCompletion
      <3>2. ASSUME RequestLoad(t, s)
            PROVE  halted' = "no" \/ halted' = "RequestLoad"
        BY <3>2, Zenon DEF RequestLoad
      <3>3. ASSUME ReturnClientSession(t, s)
            PROVE  halted' = "no" \/ halted' = "ReturnClientSession"
        BY <3>3, Zenon DEF ReturnClientSession
      <3>4. ASSUME NEW do \in ReleaseSteps, ReleaseRef(t, s, do)
            PROVE  halted' = "no" \/ halted' = "ReleaseRef"
        BY <3>4, Zenon DEF ReleaseRef
      <3>5. QED
        BY <1>5, <3>1, <3>2, <3>3, <3>4
    <2>3. QED
      BY <2>1, <2>2 DEF ProcessTyped, Halts
  <1>6. ASSUME NEW t \in IoThreads, NEW s \in Sessions,
               \/ \E do \in ReceiveSteps : Receive(t, s, do)
               \/ \E do \in {"sendDone", "sendShort"} : SendCompletion(t, s, do)
               \/ Handle_SC_MOVE(t, s) \/ PostReply(t, s) \/ DisconnectRequest(t, s)
               \/ SessionReset(t, s) \/ SessionReturned(t, s)
        PROVE  UNCHANGED processVars
    BY <1>6, Zenon
       DEF Receive, Handle_SC_MOVE, PostReply, SendCompletion, DisconnectRequest, SessionReset,
           SessionReturned
  <1>7. ASSUME NEW t \in IoThreads, DoIocpJob(t)
        PROVE  ProcessTyped'
    BY <1>3, <1>7 DEF ProcessTyped
  <1>10. ASSUME NEW t \in IoThreads, DoSendJob(t)
        PROVE  ProcessTyped'
    BY <1>4, <1>10 DEF ProcessTyped
  <1>8. ASSUME NEW t \in IoThreads, Handler(t)
        PROVE  ProcessTyped'
    BY <1>1, <1>5, <1>6, <1>8 DEF Handler
  <1>9. QED
    BY <1>2, <1>7, <1>8, <1>10 DEF Next

(* The pool counts what it holds, whatever happens. *)
LEMMA PoolKept ==
  ASSUME PoolConserved, \A t \in IoThreads : StackOK(t), LockKeptByFailure, Next
  PROVE  PoolConserved' /\ (\A t \in IoThreads : StackOK(t)') /\ LockKeptByFailure'
  <1>1. ThreadsOK /\ ProcessTyped /\ TypeOK
    BY Parts DEF ThreadsOK, PoolConserved
  <1>2. ThreadsOK'
    BY <1>1, ThreadsKept
  <1>3. session' \in [Sessions -> SessionRec] /\ LockKeptByFailure'
    BY SessionsTypedKept
  <1>4. ManagerOK' /\ ProcessTyped'
    BY <1>1, ManagerKept, ProcessKept
  <1>5. QED
    BY <1>2, <1>3, <1>4, PartsAfter DEF ThreadsOK

-----------------------------------------------------------------------------
(* The assertions: what the numbers of a session say where they stand. *)
LEMMA FitAtAccept ==
  \A iss, ref, pend, del, con, opn, pa, pd, pz, pr, clm, acc, rcv, pre, dis, home :
    /\ Fits(iss, ref, pend, del, con, opn, pa, pd, pz, pr,
            clm, acc, rcv, pre, dis, home)
    => (acc >= 1 => con = 0) /\ (del >= 1 \/ clm >= 1 => ref >= 1)
  BY DEF Fits, Fit, Nums

(* What CRASH_ASSERT asks for holds where it is asked. *)
LEMMA AtAsserts ==
  ASSUME TypeOK, SessionsInv, Sound, NEW s \in Sessions
  PROVE  /\ Tally(work, s, {"accept"}) >= 1 => session[s].mConnected = 0
         /\ Tally(work, s, Deletions) >= 1 \/ Tally(work, s, Claiming) >= 1
              => session[s].mRefCount >= 1
         /\ Tally(work, s, Returning) >= 1
              => session[s].mConnected = 0 /\ session[s].mRefCount = 0
  <1>1. FitsIn(session[s], work, mFreeSessionList, s)
    BY Typed, GoodFits DEF SessionsInv, SessionGood
  <1>2. Tally(work, s, Returning) \in Nat /\ Pooled(mFreeSessionList, s) \in Nat
    BY Typed, Tallies
  <1>3. Tally(work, s, Returning) >= 1
          => Pooled(mFreeSessionList, s) + Tally(work, s, Returning) >= 1
    BY <1>2
  <1>4. QED
    BY <1>1, <1>3, FitAtAccept, HomeIsUnheld DEF FitsIn

LEMMA AssertsKept ==
  ASSUME TypeOK, SessionsInv, AssertsHold, Next
  PROVE  AssertsHold'
  <1> SUFFICES ASSUME halted' \in {"AcceptCompletion", "ReleaseRef", "ReturnClientSession"},
                      flushFault' # "revived"
               PROVE  FALSE
    BY DEF AssertsHold
  <1>1. work \in Stacks
    BY Typed
  <1>2. ASSUME MainThread
        PROVE  FALSE
    BY <1>2 DEF MainThread, AcceptClientSessions, PostAccept, AcceptDone, processVars, Running
  <1>3. ASSUME NEW t \in IoThreads, DoIocpJob(t)
        PROVE  halted' = "no"
    BY <1>3, ZenonT(60)
       DEF DoIocpJob, Timeout, AcceptDequeued, RecvZeroDequeued, RecvDequeued, RecvFailed,
           SendFull, SendShort, SendFailed, SendDequeued, DisconnectDequeued, DbResultDequeued,
           Dequeue, AtPort, Running, processVars
  <1>4. ASSUME NEW t \in IoThreads, DoSendJob(t)
        PROVE  halted' = "no"
    BY <1>4, Zenon
       DEF DoSendJob, DoSendJobDone, FlushSend, FlushAgain, FlushNothing, FlushIssue,
         FlushFails,
           Unlock, Pop, InFlush, AtSendJob, Ready, Running, processVars
  <1>5. ASSUME NEW t \in IoThreads, NEW s \in Sessions, AcceptCompletion(t, s)
        PROVE  FALSE
    <2>1. Ready(t, "accept", s) /\ Sound
      BY <1>5 DEF AcceptCompletion, Ready, Sound
    <2>2. Tally(work, s, {"accept"}) >= 1
      BY <1>1, <2>1, OwnStepCounts
    <2>3. session[s].mConnected = 0
      BY <2>1, <2>2, AtAsserts
    <2>4. QED
      BY <1>5, <2>1, <2>3 DEF AcceptCompletion, Ready, Running
  <1>6. ASSUME NEW t \in IoThreads, NEW s \in Sessions, RequestLoad(t, s)
        PROVE  FALSE
    BY <1>6 DEF RequestLoad
  <1>7. ASSUME NEW t \in IoThreads, NEW s \in Sessions, NEW do \in ReleaseSteps,
               ReleaseRef(t, s, do)
        PROVE  FALSE
    <2>1. Ready(t, do, s) /\ Sound
      BY <1>7 DEF ReleaseRef, Ready, Sound
    <2>2. do \in Deletions \/ do \in Claiming
      BY DEF ReleaseSteps, Deletions, Claiming
    <2>3. Tally(work, s, Deletions) >= 1 \/ Tally(work, s, Claiming) >= 1
      BY <1>1, <2>1, <2>2, OwnStepCounts
    <2>4. session[s].mRefCount >= 1 /\ session[s].mRefCount \in Int
      BY <2>1, <2>3, AtAsserts, Typed DEF Numbers
    <2>5. QED
      BY <1>7, <2>4 DEF ReleaseRef
  <1>8. ASSUME NEW t \in IoThreads, NEW s \in Sessions, ReturnClientSession(t, s)
        PROVE  FALSE
    <2>1. Ready(t, "return", s) /\ Sound
      BY <1>8 DEF ReturnClientSession, Ready, Sound
    <2>2. Tally(work, s, Returning) >= 1
      BY <1>1, <2>1, OwnStepCounts DEF Returning
    <2>3. session[s].mConnected = 0 /\ session[s].mRefCount = 0
      BY <2>1, <2>2, AtAsserts
    <2>4. QED
      BY <1>8, <2>3 DEF ReturnClientSession
  <1>9. ASSUME NEW t \in IoThreads, NEW s \in Sessions,
               \/ \E do \in ReceiveSteps : Receive(t, s, do)
               \/ \E do \in {"sendDone", "sendShort"} : SendCompletion(t, s, do)
               \/ Handle_SC_MOVE(t, s) \/ PostReply(t, s) \/ DisconnectRequest(t, s)
               \/ SessionReset(t, s) \/ SessionReturned(t, s)
        PROVE  halted' = "no"
    BY <1>9, Zenon
       DEF Receive, Handle_SC_MOVE, PostReply, SendCompletion, DisconnectRequest, SessionReset,
           SessionReturned, processVars, Ready, Running
  <1>10. QED
    BY <1>2, <1>3, <1>4, <1>5, <1>6, <1>7, <1>8, <1>9 DEF Next, Handler

-----------------------------------------------------------------------------
(* Every step keeps what holds of the sessions. *)
LEMMA AcceptKeeps ==
  ASSUME TypeOK, SessionsInv, NEW t \in IoThreads, NEW s \in Sessions, AcceptCompletion(t, s)
  PROVE  SessionsInv'
  <1>1. CASE session[s].mConnected = 1
    <2>1. ~Running'
      BY <1>1 DEF AcceptCompletion, Running
    <2>2. QED
      BY <2>1, NothingRuns
  <1>2. CASE session[s].mConnected # 1
    <2>1. \/ session[s].socket = "open" /\ Done(t, <<Step("load", s), Step("preRecv", s)>>)
          \/ Done(t, <<Step("disconnect", s)>>)
      BY <1>2 DEF AcceptCompletion
    <2>2. QED
      BY <1>2, <2>1, Accepts, AcceptsInVain
  <1>3. QED
    BY <1>1, <1>2

(* The branches put together, operation by operation. *)
LEMMA ReceiveKeeps ==
  ASSUME TypeOK, SessionsInv, NEW t \in IoThreads, NEW s \in Sessions, StackOK(t),
         NEW do \in ReceiveSteps, Receive(t, s, do)
  PROVE  SessionsInv'
  <1>1. NotConnected(t, s, do) \/ ReceivePosted(t, s, do) \/ ReceiveFailed(t, s, do)
    BY ReceiveEnds
  <1>2. CASE do = "preRecv"
    BY <1>1, <1>2, FirstReceiveNotConnected, FirstReceivePosted, FirstReceiveFails
  <1>3. CASE do = "preRecvOrClose"
    BY <1>1, <1>3, PreRecvNotConnected, PreRecvPosted, PreRecvFails
  <1>4. CASE do = "postRecvOrClose"
    BY <1>1, <1>4, PostRecvNotConnected, PostRecvPosted, PostRecvFails
  <1>5. QED
    BY <1>2, <1>3, <1>4 DEF ReceiveSteps

LEMMA DisconnectKeeps ==
  ASSUME TypeOK, SessionsInv, NEW t \in IoThreads, NEW s \in Sessions, DisconnectRequest(t, s)
  PROVE  SessionsInv'
  <1>1. \/ session[s].mConnected = 0
        \/ /\ session[s].mConnected = 1 /\ Done(t, <<>>)
           /\ session' = [session EXCEPT ![s] = Disconnecting(session[s])]
        \/ /\ session[s].mConnected = 1 /\ Done(t, <<Step("releaseNew", s)>>)
           /\ session[s].socket # "open" \/ MayFail("DisconnectEx")
           /\ session' = [session EXCEPT ![s] = DisconnectFailed(session[s])]
    BY DEF DisconnectRequest, Disconnecting, DisconnectFailed
  <1>2. CASE session[s].mConnected = 0
    <2>1. session' = session /\ Done(t, <<>>)
      BY <1>2 DEF DisconnectRequest
    <2>2. QED
      BY <1>2, <2>1, DisconnectedBefore
  <1>3. QED
    BY <1>1, <1>2, Disconnects, DisconnectFails

LEMMA ReleaseKeeps ==
  ASSUME TypeOK, SessionsInv, NEW t \in IoThreads, NEW s \in Sessions,
         NEW do \in ReleaseSteps, ReleaseRef(t, s, do)
  PROVE  SessionsInv'
  <1>1. CASE do = "deleteContext"
    BY <1>1, DeleteLastKeeps, DeleteKeeps
  <1>2. CASE do = "releaseNew"
    BY <1>2, DeleteNewLastKeeps, DeleteNewKeeps
  <1>3. CASE do = "releaseIssue"
    BY <1>3, ReleaseIssueLastKeeps, ReleaseIssueKeeps
  <1>4. QED
    BY <1>1, <1>2, <1>3 DEF ReleaseSteps

LEMMA SessionsKept ==
  ASSUME PoolConserved, SessionsInv, \A t \in IoThreads : StackOK(t), Next
  PROVE  SessionsInv'
  <1>1. TypeOK
    BY DEF PoolConserved
  <1>2. ASSUME AcceptClientSessions \/ AcceptDone
        PROVE  SessionsInv'
    BY <1>2, NothingMoves
       DEF AcceptClientSessions, AcceptDone, threadVars, processVars, Sound, Running
  <1>3. ASSUME NEW ok \in BOOLEAN, PostAccept(ok)
        PROVE  SessionsInv'
    <2>1. CASE ok = TRUE
      BY <1>3, <2>1, PostAcceptKeeps
    <2>2. CASE ok = FALSE
      <3>1. ~Running'
        BY <1>3, <2>2 DEF PostAccept, Running
      <3>2. QED
        BY <3>1, NothingRuns
    <2>3. QED
      BY <2>1, <2>2
  <1>4. ASSUME NEW t \in IoThreads, Timeout(t) \/ DoSendJobDone(t)
        PROVE  SessionsInv'
    BY <1>4, NothingMoves
       DEF Timeout, DoSendJobDone, AtPort, AtSendJob, managerVars, processVars, Sound, Running
  <1>5. ASSUME NEW t \in IoThreads, DoIocpJob(t)
        PROVE  SessionsInv'
    BY <1>1, <1>4, <1>5, AcceptDequeuedKeeps, RecvZeroDequeuedKeeps, RecvDequeuedKeeps,
       RecvFailedKeeps, SendFullKeeps, SendShortKeeps, SendFailedKeeps, DisconnectDequeuedKeeps,
       DbResultDequeuedKeeps
       DEF DoIocpJob
  <1>6. ASSUME NEW t \in IoThreads, NEW s \in Sessions, Handle_SC_MOVE(t, s)
        PROVE  SessionsInv'
    BY <1>1, <1>6, MoveReplies, MoveIgnored
  <1>7. ASSUME NEW t \in IoThreads, NEW s \in Sessions,
               NEW do \in {"sendDone", "sendShort"}, SendCompletion(t, s, do)
        PROVE  SessionsInv'
    BY <1>1, <1>7, SentKeeps, SentShortKeeps
  <1>8. ASSUME NEW t \in IoThreads, Handler(t)
        PROVE  SessionsInv'
    BY <1>1, <1>6, <1>7, <1>8, AcceptKeeps, RequestLoadKeeps, ReceiveKeeps, PostReplyKeeps,
       DisconnectKeeps, ReleaseKeeps, ReturnKeeps, ResetKeeps, SessionReturnedKeeps
       DEF Handler
  <1>9. ASSUME NEW t \in IoThreads, DoSendJob(t)
        PROVE  SessionsInv'
    BY <1>1, <1>4, <1>9, FlushSendKeeps, FlushAgainKeeps, FlushNothingKeeps, FlushIssueKeeps,
       FlushFailsKeeps, UnlockKeeps, PopKeeps
       DEF DoSendJob
  <1>10. QED
    BY <1>2, <1>3, <1>5, <1>8, <1>9 DEF Next, MainThread

-----------------------------------------------------------------------------
(* The invariant holds at the start: every session waits in the pool, once. *)
LEMMA PooledAtMostOnce ==
  ASSUME NEW f \in Seq(Sessions), NEW s,
         \A i, j \in DOMAIN f : f[i] = f[j] => i = j
  PROVE  Pooled(f, s) \in {0, 1}
  <1>1. CASE Places(f, s) = {}
    BY <1>1, FS_EmptySet DEF Pooled
  <1>2. ASSUME NEW i \in Places(f, s)
        PROVE  Pooled(f, s) = 1
    <2>1. Places(f, s) = {i}
      BY <1>2 DEF Places
    <2>2. QED
      BY <2>1, FS_Singleton DEF Pooled
  <1>3. QED
    BY <1>1, <1>2

LEMMA NoStepsAtFirst ==
  ASSUME Init, NEW s, NEW dos
  PROVE  Tally(work, s, dos) = 0
  <1> DEFINE none == <<>>
  <1>1. DOMAIN none = {}
    OBVIOUS
  <1>2. \A t \in IoThreads : work[t] = none
    BY DEF Init
  <1> HIDE DEF none
  <1>3. StepsIn(work, s, dos) = {}
    BY <1>1, <1>2, StepsInElement
  <1>4. QED
    BY <1>3, FS_EmptySet DEF Tally

LEMMA FitAtFirst ==
  \A home \in {0, 1} : Fit(0, 0, 0, 0, 0, 0, 0, 0, 0, 0, 0, 0, 0, 0, 0, home)
  BY DEF Fit

(* A session before its first issue. *)
LEMMA FreshNumbers ==
  /\ Fresh \in SessionRec /\ Issue(Fresh) = 0 /\ Open(Fresh) = 0 /\ PendingSum(Fresh.pending)
       = 0
  /\ Fresh.mConnected = 0 /\ Fresh.mRefCount = 0 /\ Fresh.mSendPendingCount = 0
  /\ Fresh.mSendBufferLock = Nobody /\ \A io \in IoTypes : Fresh.pending[io] = 0
  <1>1. Fresh \in SessionRec
    BY DEF Fresh, SessionRec
  <1>2. Issue(Fresh) = 0 /\ Open(Fresh) = 0
    BY DEF Fresh, Issue, Open
  <1>3. /\ Fresh.mConnected = 0 /\ Fresh.mRefCount = 0 /\ Fresh.mSendPendingCount = 0
        /\ Fresh.mSendBufferLock = Nobody /\ \A io \in IoTypes : Fresh.pending[io] = 0
    BY DEF Fresh
  <1>4. PendingSum(Fresh.pending) = 0
    BY <1>3 DEF PendingSum, IoTypes
  <1>5. QED
    BY <1>1, <1>2, <1>3, <1>4

LEMMA InitHolds ==
  ASSUME Init
  PROVE  IInv
  <1>1. \A s \in Sessions : session[s] = Fresh
    BY DEF Init
  <1>2. PoolConserved
    <2>1. session \in [Sessions -> SessionRec]
      BY FreshNumbers DEF Init
    <2>2. ManagerOK
      BY SessionPoolAssumption DEF SessionPoolAssumption, Init, ManagerOK, PoolInUse
    <2>3. ThreadsTyped
      BY DEF Init, ThreadsTyped, Stacks
    <2>4. ProcessTyped
      BY DEF Init, ProcessTyped, Halts
    <2>5. QED
      BY <2>1, <2>2, <2>3, <2>4, Parts
  <1>3. \A t \in IoThreads : StackOK(t)
    BY DEF Init, StackOK, StackShape
  <1>4. LockKeptByFailure
    BY <1>1, FreshNumbers DEF LockKeptByFailure
  <1>5. ASSUME NEW s \in Sessions
        PROVE  OneSendIn(session[s], work, s) /\ SessionGood(s)
    <2>1. session[s] = Fresh /\ \A dos : Tally(work, s, dos) = 0
      BY <1>1, NoStepsAtFirst
    <2>2. Pooled(mFreeSessionList, s) \in {0, 1}
      BY PooledAtMostOnce, SessionPoolAssumption DEF SessionPoolAssumption, Init
    <2>3. {"SEND", "ACCEPT", "DISCONNECT", "RECV_ZERO", "RECV"} \subseteq IoTypes
      BY DEF IoTypes
    <2>4. Pooled(mFreeSessionList, s) + 0 \in {0, 1}
      BY <2>2
    <2>5. OneSendIn(session[s], work, s)
      BY <2>1, <2>3, FreshNumbers DEF OneSendIn, OneSend
    <2>6. SessionGood(s)
      BY <2>1, <2>3, <2>4, FreshNumbers, FitAtFirst, Zenon DEF SessionGood, GoodIn
    <2>7. QED
      BY <2>5, <2>6
  <1>6. SessionsInv
    BY <1>5 DEF SessionsInv
  <1>7. AssertsHold
    BY DEF Init, AssertsHold
  <1>8. QED
    BY <1>2, <1>3, <1>4, <1>6, <1>7 DEF IInv

-----------------------------------------------------------------------------
(* ... and every step keeps it. *)
LEMMA NextKeeps ==
  ASSUME IInv, [Next]_vars
  PROVE  IInv'
  <1>1. CASE Next
    <2>1. TypeOK /\ PoolConserved /\ (\A t \in IoThreads : StackOK(t)) /\ LockKeptByFailure
          /\ SessionsInv /\ AssertsHold
      BY DEF IInv, PoolConserved
    <2>2. PoolConserved' /\ (\A t \in IoThreads : StackOK(t)') /\ LockKeptByFailure'
      BY <1>1, <2>1, PoolKept
    <2>3. SessionsInv' /\ AssertsHold'
      BY <1>1, <2>1, SessionsKept, AssertsKept
    <2>4. QED
      BY <2>2, <2>3 DEF IInv
  <1>2. CASE UNCHANGED vars
    <2>1. UNCHANGED <<session, mFreeSessionList, mLock, mCurrentIssueCount, mCurrentReturnCount,
                      phase, work, LSendRequestSessionList, halted, playerId, requests,
                      flushFault>>
      BY <1>2 DEF vars, managerVars, threadVars, processVars
    <2>2. PoolConserved'
      BY <2>1 DEF IInv, PoolConserved, TypeOK, PoolInUse
    <2>3. (\A t \in IoThreads : StackOK(t)') /\ LockKeptByFailure' /\ AssertsHold'
      BY <2>1 DEF IInv, StackOK, LockKeptByFailure, AssertsHold
    <2>4. SessionsInv'
      BY <2>1 DEF IInv, SessionsInv, SessionGood, Sound, Running
    <2>5. QED
      BY <2>2, <2>3, <2>4 DEF IInv
  <1>3. QED
    BY <1>1, <1>2

(***************************************************************************)
(* The inductive invariant holds in every reachable state: no completion,  *)
(* handler, flush or turn of the main thread breaks what it says of the    *)
(* pool, the stacks of the threads, the send locks and each session.       *)
(***************************************************************************)
THEOREM Invariant == Spec => []IInv
  <1>1. Init => IInv
    BY InitHolds
  <1>2. IInv /\ [Next]_vars => IInv'
    BY NextKeeps
  <1>3. QED
    BY <1>1, <1>2, PTL DEF Spec

-----------------------------------------------------------------------------
(* What the invariant says of a session while nothing was revived. *)
LEMMA Tallied ==
  \A s, dos : StepsOn(s, dos) = StepsIn(work, s, dos)
  BY DEF StepsOn, StepsIn

LEMMA SoundSession ==
  ASSUME IInv, Sound, NEW s \in Sessions
  PROVE  FitsIn(session[s], work, mFreeSessionList, s)
  BY Typed, GoodFits DEF IInv, PoolConserved, SessionsInv, SessionGood

(***************************************************************************)
(* Whatever fails, and however completions, flushes and the main thread    *)
(* interleave, the list of the pool and its two counters agree with the    *)
(* number of sessions: AcceptClientSessions pops only what is there, and   *)
(* every variable keeps its type.                                          *)
(***************************************************************************)
THEOREM PoolConservation == Spec => []PoolConserved
  <1>1. IInv => PoolConserved
    BY DEF IInv
  <1>2. QED
    BY <1>1, Invariant, PTL

(***************************************************************************)
(* The reference count of a session is the issue reference, its contexts   *)
(* with the kernel and the deletions still to come: AddRef, ReleaseRef and *)
(* DeleteIoContext are paired on every path of every handler.              *)
(***************************************************************************)
THEOREM RefCountsAreHonest == Spec => []RefCountHonest
  <1>1. ASSUME IInv
        PROVE  RefCountHonest
    <2>1. SUFFICES ASSUME Sound, NEW s \in Sessions
                   PROVE  session[s].mRefCount = IssueRef(s) + PendingOn(s)
                            + Cardinality(StepsOn(s, {"deleteContext", "releaseNew"}))
      BY DEF RefCountHonest
    <2>2. FitsIn(session[s], work, mFreeSessionList, s)
      BY <1>1, <2>1, SoundSession
    <2>3. session[s].mRefCount = Issue(session[s]) + PendingSum(session[s].pending)
                                   + Tally(work, s, Deletions)
      BY <2>2 DEF FitsIn, Fits, Fit
    <2>4. IssueRef(s) = Issue(session[s]) /\ PendingOn(s) = PendingSum(session[s].pending)
      BY DEF IssueRef, Issue, PendingOn, PendingSum
    <2>5. Cardinality(StepsOn(s, {"deleteContext", "releaseNew"})) = Tally(work, s, Deletions)
      BY Tallied DEF Tally, Deletions
    <2>6. QED
      BY <2>3, <2>4, <2>5
  <1>2. QED
    BY <1>1, Invariant, PTL

LEMMA FitClaims ==
  \A iss, ref, pend, del, con, opn, pa, pd, pz, pr, clm, acc, rcv, pre, dis, home :
    Fits(iss, ref, pend, del, con, opn, pa, pd, pz, pr, clm, acc, rcv, pre, dis, home)
    => con + pa + pd + clm <= iss /\ (ClaimsKept => con + pa + pd + clm = iss)
  BY DEF Fits, Fit

(***************************************************************************)
(* The right to give up the issue reference, handed from AcceptEx to the   *)
(* connection, its one DisconnectEx and that completion, is never in two   *)
(* hands, and is lost only where those two calls fail.                     *)
(***************************************************************************)
THEOREM ClaimsAreSingle == Spec => []OneClaimPerIssue
  <1>1. ASSUME IInv
        PROVE  OneClaimPerIssue
    <2>1. SUFFICES ASSUME Sound, NEW s \in Sessions
                   PROVE  Claims(s) <= IssueRef(s) /\ (ClaimsKept => Claims(s) = IssueRef(s))
      BY DEF OneClaimPerIssue, ClaimsKept
    <2>2. FitsIn(session[s], work, mFreeSessionList, s)
      BY <1>1, <2>1, SoundSession
    <2>3. Claims(s) = session[s].mConnected + session[s].pending["ACCEPT"]
                        + session[s].pending["DISCONNECT"] + Tally(work, s, Claiming)
      BY Tallied DEF Claims, Tally, Claiming
    <2>4. IssueRef(s) = Issue(session[s])
      BY DEF IssueRef, Issue
    <2>5. QED
      BY <2>2, <2>3, <2>4, FitClaims DEF FitsIn
  <1>2. QED
    BY <1>1, Invariant, PTL

LEMMA FitReceives ==
  \A iss, ref, pend, del, con, opn, pa, pd, pz, pr, clm, acc, rcv, pre, dis, home :
    Fits(iss, ref, pend, del, con, opn, pa, pd, pz, pr, clm, acc, rcv, pre, dis, home)
    => pz + pr + rcv <= 1
       /\ (con = 1 /\ FirstReceiveSucceeds => pz + pr + rcv = 1 \/ dis # 0)
  BY DEF Fits, Fit, Nums

(***************************************************************************)
(* PreRecv and PostRecv take turns: a session never has two receives, and  *)
(* a connected one is never without a receive or a disconnection to come,  *)
(* except after the first PreRecv, whose result AcceptCompletion ignores.  *)
(***************************************************************************)
THEOREM ReceivesAlternate == Spec => []OneReceiver
  <1>1. ASSUME IInv
        PROVE  OneReceiver
    <2>1. SUFFICES ASSUME Sound, NEW s \in Sessions
                   PROVE  /\ Receivers(s) <= 1
                          /\ session[s].mConnected = 1 /\ FirstReceiveSucceeds
                               => Receivers(s) = 1 \/ StepsOn(s, {"disconnect"}) # {}
      BY DEF OneReceiver, FirstReceiveSucceeds
    <2>2. FitsIn(session[s], work, mFreeSessionList, s) /\ work \in Stacks
      BY <1>1, <2>1, SoundSession, Typed DEF IInv, PoolConserved
    <2>3. Receivers(s) = session[s].pending["RECV_ZERO"] + session[s].pending["RECV"]
                           + Tally(work, s, ReceiveSteps)
      BY Tallied DEF Receivers, Tally
    <2>4. Tally(work, s, {"disconnect"}) = 0 <=> StepsOn(s, {"disconnect"}) = {}
      BY <2>2, TallyZero, Tallied
    <2>5. QED
      BY <2>2, <2>3, <2>4, FitReceives DEF FitsIn
  <1>2. QED
    BY <1>1, Invariant, PTL

(***************************************************************************)
(* FlushSend never starts a second WSASend before SendCompletion has       *)
(* counted the first one down, on any connection and after any recycling   *)
(* or revival of the session: mSendPendingCount is 0 or 1.                 *)
(***************************************************************************)
THEOREM SendsAreSingle == Spec => []OneSendAtATime
  <1>1. ASSUME IInv
        PROVE  OneSendAtATime
    <2>1. SUFFICES ASSUME Running, NEW s \in Sessions
                   PROVE  /\ session[s].mSendPendingCount \in {0, 1}
                          /\ session[s].pending["SEND"]
                               + Cardinality(StepsOn(s, {"sendDone", "sendShort"}))
                               <= session[s].mSendPendingCount
      BY DEF OneSendAtATime
    <2>2. OneSendIn(session[s], work, s)
      BY <1>1, <2>1 DEF IInv, SessionsInv
    <2>3. Cardinality(StepsOn(s, {"sendDone", "sendShort"})) = Tally(work, s, Sending)
      BY Tallied DEF Tally, Sending
    <2>4. QED
      BY <2>2, <2>3 DEF OneSendIn, OneSend
  <1>2. QED
    BY <1>1, Invariant, PTL

(* What the pool has once. *)
LEMMA FoundOnce ==
  ASSUME NEW f \in Seq(Sessions), NEW i \in DOMAIN f, NEW s, f[i] = s
  PROVE  /\ Pooled(f, s) \in Nat /\ Pooled(f, s) >= 1
         /\ Pooled(f, s) = 1 => \A j \in DOMAIN f : f[j] = s => j = i
  <1>1. Len(f) \in Nat /\ DOMAIN f = 1 .. Len(f)
    OBVIOUS
  <1>2. IsFiniteSet(1 .. Len(f))
    BY <1>1, FS_Interval
  <1>3. Places(f, s) \in SUBSET (1 .. Len(f)) /\ i \in Places(f, s)
    BY <1>1 DEF Places
  <1>4. IsFiniteSet(Places(f, s))
    BY <1>2, <1>3, FS_Subset
  <1>5. /\ Pooled(f, s) \in Nat /\ IsFiniteSet(Places(f, s) \ {i})
        /\ Cardinality(Places(f, s) \ {i}) \in Nat
        /\ Cardinality(Places(f, s) \ {i}) = Pooled(f, s) - 1
    BY <1>3, <1>4, FS_RemoveElement, FS_CardinalityType DEF Pooled
  <1>6. ASSUME Pooled(f, s) = 1
        PROVE  Places(f, s) \ {i} = {}
    BY <1>5, <1>6, FS_EmptySet
  <1>7. QED
    BY <1>5, <1>6 DEF Places

LEMMA PooledIsLeft ==
  ASSUME work \in Stacks, \A t \in IoThreads : StackOK(t), NEW s \in Sessions,
         Tally(work, s, Deletions) = 0, Tally(work, s, Returning) = 0
  PROVE  StepsOn(s, Steps \ {"flush", "disconnect", "unlock", "pop"}) = {}
  <1>1. StepsIn(work, s, Deletions) = {} /\ StepsIn(work, s, Returning) = {}
    BY TallyZero
  <1>2. ASSUME NEW t \in IoThreads, NEW i \in DOMAIN work[t], work[t][i].s = s
        PROVE  work[t][i].do \notin Deletions \cup Returning
    BY <1>1, <1>2, StepsInElement
  <1>3. ASSUME NEW t \in IoThreads, NEW i \in DOMAIN work[t], work[t][i].s = s,
               work[t][i].do \in Steps \ {"flush", "disconnect", "unlock", "pop"}
        PROVE  FALSE
    <2>1. work[t] \in Seq(StepSet) /\ i \in 1 .. Len(work[t])
            /\ StackShape(work[t], LSendRequestSessionList[t])
      BY DEF Stacks, StackOK
    <2>2. CASE work[t][i].do \in Handling
      <3>1. 1 \in DOMAIN work[t] /\ work[t][1] = Step("deleteContext", s)
        BY <1>3, <2>1, <2>2 DEF StackShape
      <3>2. QED
        BY <3>1, <1>2 DEF Step, Deletions
    <2>3. CASE work[t][i].do = "reset"
      <3>1. i - 1 \in DOMAIN work[t] /\ work[t][i - 1] = Step("resetSend", s)
        BY <1>3, <2>1, <2>3 DEF StackShape
      <3>2. QED
        BY <3>1, <1>2 DEF Step, Returning
    <2>4. work[t][i].do \in Deletions \cup Returning \cup Handling \cup {"reset"}
      BY <1>3 DEF Steps, ReleaseSteps, ReceiveSteps, Deletions, Returning, Handling
    <2>5. QED
      BY <1>2, <1>3, <2>2, <2>3, <2>4
  <1>4. QED
    BY <1>3 DEF StepsOn

LEMMA HomeCounts ==
  \A p, r \in Nat : p >= 1 => p + r >= 1 /\ (p + r = 1 => p = 1 /\ r = 0)
  OBVIOUS

(***************************************************************************)
(* A session in the pool is disconnected, unreferenced, in no completion   *)
(* and in no handler, and is there once: StartAccept never issues a        *)
(* session a former client or another AcceptEx still has.                  *)
(***************************************************************************)
THEOREM PooledSessionsRest == Spec => []PooledSessionsAtRest
  <1>1. ASSUME IInv
        PROVE  PooledSessionsAtRest
    <2> DEFINE f == mFreeSessionList
    <2>1. SUFFICES ASSUME Sound, NEW i \in DOMAIN f, NEW s, s = f[i]
                   PROVE  /\ session[s].mConnected = 0 /\ session[s].mRefCount = 0
                          /\ ~session[s].issued /\ PendingOn(s) = 0
                          /\ StepsOn(s, Steps \ {"flush", "disconnect", "unlock", "pop"}) = {}
                          /\ \A j \in DOMAIN f : f[j] = s => j = i
      BY DEF PooledSessionsAtRest
    <2>2. f \in Seq(Sessions) /\ work \in Stacks /\ \A t \in IoThreads : StackOK(t)
      BY <1>1, Typed DEF IInv, PoolConserved
    <2>3. s \in Sessions
      BY <2>1, <2>2
    <2>4. FitsIn(session[s], work, f, s)
      BY <1>1, <2>1, <2>3, SoundSession
    <2>5. /\ Pooled(f, s) \in Nat /\ Pooled(f, s) >= 1
          /\ Pooled(f, s) = 1 => \A j \in DOMAIN f : f[j] = s => j = i
      BY <2>1, <2>2, FoundOnce
    <2>6. Tally(work, s, Returning) \in Nat
      BY <2>2, Tallies
    <2> HIDE DEF f
    <2>7. /\ Pooled(f, s) + Tally(work, s, Returning) = 1
          /\ session[s].mRefCount = 0 /\ Issue(session[s]) = 0
          /\ PendingSum(session[s].pending) = 0
          /\ Tally(work, s, Deletions) = 0 /\ session[s].mConnected = 0
      BY <2>4, <2>5, <2>6, HomeCounts, HomeIsUnheld DEF FitsIn
    <2>8. Pooled(f, s) = 1 /\ Tally(work, s, Returning) = 0
      BY <2>5, <2>6, <2>7, HomeCounts
    <2>9. ~session[s].issued /\ PendingOn(s) = 0
      BY <2>7 DEF Issue, PendingOn, PendingSum
    <2>10. StepsOn(s, Steps \ {"flush", "disconnect", "unlock", "pop"}) = {}
      BY <2>2, <2>3, <2>7, <2>8, PooledIsLeft
    <2>11. QED
      BY <2>5, <2>7, <2>8, <2>9, <2>10
  <1>2. QED
    BY <1>1, Invariant, PTL

(***************************************************************************)
(* The CRASH_ASSERTs of AcceptCompletion, ReleaseRef and                   *)
(* ReturnClientSession can fire only in a run in which a FlushSend revived *)
(* a session that nobody held any more.                                    *)
(***************************************************************************)
THEOREM AssertionsHold == Spec => []AssertsHold
  <1>1. IInv => AssertsHold
    BY DEF IInv
  <1>2. QED
    BY <1>1, Invariant, PTL

(***************************************************************************)
(* A thread that returns a session to the pool, with the pool's lock in    *)
(* its hands, waits for mSendBufferLock, and only the FlushSend that       *)
(* failed can have left this lock to the thread itself.                    *)
(***************************************************************************)
THEOREM SelfDeadlockNeedsFailure == Spec => []NoSelfDeadlock
  <1>1. IInv => NoSelfDeadlock
    BY SessionPoolAssumption DEF SessionPoolAssumption, IInv, LockKeptByFailure, NoSelfDeadlock
  <1>2. QED
    BY <1>1, Invariant, PTL
=============================================================================
