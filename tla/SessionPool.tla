----------------------------- MODULE SessionPool -----------------------------
(***************************************************************************)
(* The life of the pooled ClientSessions of EduServer_IOCP: the main       *)
(* thread issues them to AcceptEx, the I/O worker threads run their        *)
(* completions, and whoever gives up the last reference returns them to    *)
(* the pool (ClientSessionManager, Session, ClientSession, IOThread,       *)
(* OverlappedIOContext, DatabaseJobContext).                               *)
(*                                                                         *)
(* A reference is held for the issue of a session, by every overlapped     *)
(* context and by every database context.  The send-request list of a      *)
(* thread holds none: that is the hazard this module is about.             *)
(*                                                                         *)
(* work[t] is the stack of steps thread t has left in its handler, the     *)
(* last one being next.  Interlocked operations, reads of mConnected       *)
(* outside a lock and lock acquisitions are steps of their own, so every   *)
(* interleaving that tells them apart is explored.                         *)
(***************************************************************************)
EXTENDS Integers, Sequences, FiniteSets

CONSTANTS
  Sessions,       (* the pool: MAX_CONNECTION sessions                     *)
  IoThreads,      (* the I/O worker threads: MAX_IO_THREAD of them         *)
  Main,           (* the main thread, which runs StartAccept               *)
  Nobody,         (* the owner of a free lock                              *)
  PoolOrder,      (* the order in which PrepareClientSessions fills the    *)
                  (* pool                                                  *)
  SendCapacity,   (* replies mSendBuffer has room for                      *)
  Fails,          (* which calls of the environment may fail               *)
  MaxPlayerLoads, (* loads before AcceptCompletion's test code runs out of *)
                  (* player ids (9 in the source)                          *)
  MaxIssue,       (* bound: sessions issued                                *)
  MaxRequests     (* bound: requests the clients send                      *)

FailableCalls == {"AcceptEx", "setsockopt", "firstWSARecv", "WSARecv", "WSASend", "DisconnectEx",
                  "acceptCompletion", "sendCompletion"}

ASSUME SessionPoolAssumption ==
  /\ IsFiniteSet(Sessions) /\ IsFiniteSet(IoThreads)
  /\ Main \notin IoThreads /\ Nobody \notin IoThreads \cup {Main}
  /\ PoolOrder \in Seq(Sessions) /\ Len(PoolOrder) = Cardinality(Sessions)
  /\ \A i, j \in DOMAIN PoolOrder : PoolOrder[i] = PoolOrder[j] => i = j
  /\ SendCapacity \in Nat \ {0} /\ Fails \subseteq FailableCalls
  /\ MaxPlayerLoads \in Nat /\ MaxIssue \in Nat /\ MaxRequests \in Nat

VARIABLES
  session,                 (* the state of each session, see Fresh below   *)
  mFreeSessionList, mLock, (* ClientSessionManager                         *)
  mCurrentIssueCount, mCurrentReturnCount,
  phase,                   (* each thread is in DoIocpJob or in DoSendJob  *)
  work,                    (* the steps it has left there                  *)
  LSendRequestSessionList, (* thread-local                                 *)
  halted,                  (* why the process stopped, if it did           *)
  playerId,                (* ids handed out by AcceptCompletion           *)
  requests,                (* requests received so far                     *)
  flushFault               (* history: what went wrong in a FlushSend      *)

managerVars == <<mFreeSessionList, mLock, mCurrentIssueCount, mCurrentReturnCount>>
threadVars  == <<phase, work, LSendRequestSessionList>>
processVars == <<halted, playerId, requests, flushFault>>
vars == <<session, managerVars, threadVars, processVars>>

IoTypes == {"ACCEPT", "RECV_ZERO", "RECV", "SEND", "DISCONNECT", "DB"}

(* "socket" is what the kernel knows of mSocket, "pending" counts the      *)
(* contexts that are with the kernel or in the completion queue, "stored"  *)
(* the replies in mSendBuffer and "sendLen" those of the last WSASend.     *)
(* "issued" is history: the reference added when issuing is still held.    *)
Fresh == [mConnected |-> 0, mRefCount |-> 0, mSendPendingCount |-> 0,
          mSendBufferLock |-> Nobody, stored |-> 0, sendLen |-> 0,
          socket |-> "new", pending |-> [io \in IoTypes |-> 0], issued |-> FALSE]

Halts == {"no", "exit", "AcceptCompletion", "ReleaseRef", "ReturnClientSession",
          "RequestLoad"}

ReleaseSteps == {"deleteContext", "releaseNew", "releaseIssue"}

ReceiveSteps == {"preRecv", "preRecvOrClose", "postRecvOrClose"}

Steps == ReleaseSteps \cup ReceiveSteps \cup
  {"accept", "load", "move", "postReply", "sendDone", "sendShort",
   "disconnect", "return", "reset", "resetSend", "flush", "unlock", "pop"}

Init ==
  /\ session = [s \in Sessions |-> Fresh]
  /\ mFreeSessionList = PoolOrder /\ mLock = Nobody
  /\ mCurrentIssueCount = 0 /\ mCurrentReturnCount = 0
  /\ phase = [t \in IoThreads |-> "iocp"]
  /\ work = [t \in IoThreads |-> <<>>]
  /\ LSendRequestSessionList = [t \in IoThreads |-> <<>>]
  /\ halted = "no" /\ playerId = 0 /\ requests = 0 /\ flushFault = "none"

-----------------------------------------------------------------------------
(***************************************************************************)
(* Threads and contexts.                                                   *)
(***************************************************************************)
Running == halted = "no"

Step(do, s) == [do |-> do, s |-> s]

(* Thread t's next step is "do" on session s. *)
Ready(t, do, s) ==
  /\ Running /\ work[t] # <<>>
  /\ work[t][Len(work[t])] = Step(do, s)

(* That step is done; the steps "more" follow, the last of them first. *)
Done(t, more) ==
  work' = [work EXCEPT ![t] = SubSeq(@, 1, Len(@) - 1) \o more]

(* new OverlappedXxxContext: the constructor's AddRef; the kernel has it. *)
WithContext(x, io) ==
  [x EXCEPT !.mRefCount = @ + 1, !.pending[io] = @ + 1]

(* The same, but the call fails at once and the caller must delete it. *)
WithFailedContext(x) == [x EXCEPT !.mRefCount = @ + 1]

MayFail(call) == call \in Fails

(***************************************************************************)
(* The main thread: AcceptClientSessions, forever.                         *)
(***************************************************************************)
AcceptClientSessions ==
  /\ Running /\ mLock = Nobody
  /\ mCurrentIssueCount < MaxIssue
  /\ mLock' = Main
  /\ UNCHANGED <<session, mFreeSessionList, mCurrentIssueCount,
                 mCurrentReturnCount, threadVars, processVars>>

PoolInUse == mCurrentIssueCount - mCurrentReturnCount

(* Mutant: the session is not popped from mFreeSessionList. *)
PostAcceptNoPop(ok) ==
  /\ Running /\ mLock = Main
  /\ PoolInUse < Cardinality(Sessions) /\ mCurrentIssueCount < MaxIssue
  /\ ok
  /\ LET s == mFreeSessionList[Len(mFreeSessionList)]
     IN  session' = [session EXCEPT ![s] =
           WithContext([@ EXCEPT !.mRefCount = @ + 1, !.issued = TRUE], "ACCEPT")]
  /\ mCurrentIssueCount' = mCurrentIssueCount + 1
  /\ UNCHANGED <<mFreeSessionList, mLock, mCurrentReturnCount, threadVars, processVars>>

(* One turn of its loop: pop, AddRef, PostAccept.  When AcceptEx fails,    *)
(* StartAccept returns and the process ends.                               *)
PostAccept(ok) ==
  /\ Running /\ mLock = Main
  /\ PoolInUse < Cardinality(Sessions) /\ mCurrentIssueCount < MaxIssue
  /\ ok \/ MayFail("AcceptEx")
  /\ LET n == Len(mFreeSessionList)
         s == mFreeSessionList[n]
         x == [session[s] EXCEPT !.mRefCount = @ + 1, !.issued = TRUE]
     IN  /\ mFreeSessionList' = SubSeq(mFreeSessionList, 1, n - 1)
         /\ session' = [session EXCEPT ![s] = IF ok THEN WithContext(x, "ACCEPT") ELSE x]
  /\ mCurrentIssueCount' = mCurrentIssueCount + 1
  /\ halted' = IF ok THEN "no" ELSE "exit"
  /\ UNCHANGED <<mLock, mCurrentReturnCount, threadVars, playerId, requests,
                 flushFault>>

AcceptDone ==
  /\ Running /\ mLock = Main
  /\ PoolInUse = Cardinality(Sessions) \/ mCurrentIssueCount = MaxIssue
  /\ mLock' = Nobody
  /\ UNCHANGED <<session, mFreeSessionList, mCurrentIssueCount,
                 mCurrentReturnCount, threadVars, processVars>>

(***************************************************************************)
(* IOThread::DoIocpJob: one completion is dequeued.                        *)
(***************************************************************************)
AtPort(t) == Running /\ phase[t] = "iocp" /\ work[t] = <<>>

Timeout(t) ==
  /\ AtPort(t)
  /\ phase' = [phase EXCEPT ![t] = "send"]
  /\ UNCHANGED <<session, managerVars, work, LSendRequestSessionList, processVars>>

(* Thread t takes a context of type io; "steps" is what its case does. *)
Dequeue(t, s, io, steps) ==
  /\ AtPort(t)
  /\ session[s].pending[io] > 0
  /\ phase' = [phase EXCEPT ![t] = "send"]
  /\ work' = [work EXCEPT ![t] = <<Step("deleteContext", s)>> \o steps]
  /\ UNCHANGED <<managerVars, LSendRequestSessionList, halted, playerId, flushFault>>

Taken(s, io) == [session EXCEPT ![s].pending[io] = @ - 1]

(* AcceptEx completed with a client, or with an error. *)
AcceptDequeued(t, s, ok) ==
  /\ ok \/ MayFail("acceptCompletion")
  /\ Dequeue(t, s, "ACCEPT", <<Step("accept", s)>>)
  /\ session' = [Taken(s, "ACCEPT") EXCEPT ![s].socket = IF ok THEN "open" ELSE @]
  /\ UNCHANGED requests

(* A zero-byte receive completed; success and failure are treated alike. *)
RecvZeroDequeued(t, s) ==
  /\ Dequeue(t, s, "RECV_ZERO", <<Step("postRecvOrClose", s)>>)
  /\ session' = Taken(s, "RECV_ZERO")
  /\ UNCHANGED requests

(* A receive completed with a request: Handle_CS_MOVE, then PreRecv. *)
RecvDequeued(t, s) ==
  /\ requests < MaxRequests
  /\ Dequeue(t, s, "RECV", <<Step("preRecvOrClose", s), Step("move", s)>>)
  /\ session' = Taken(s, "RECV")
  /\ requests' = requests + 1

(* ... or with nothing or an error: DR_COMPLETION_ERROR. *)
RecvFailed(t, s) ==
  /\ Dequeue(t, s, "RECV", <<Step("disconnect", s)>>)
  /\ session' = Taken(s, "RECV")
  /\ UNCHANGED requests

(* A send completed, completely, in part, or (no SendCompletion) not. *)
SendDequeued(t, s, steps) ==
  /\ Dequeue(t, s, "SEND", steps)
  /\ session' = Taken(s, "SEND")
  /\ UNCHANGED requests

SendFull(t, s) == SendDequeued(t, s, <<Step("sendDone", s)>>)

SendShort(t, s) ==
  /\ MayFail("sendCompletion")
  /\ SendDequeued(t, s, <<Step("disconnect", s), Step("sendShort", s)>>)

SendFailed(t, s) ==
  /\ MayFail("sendCompletion") \/ session[s].socket # "open"
  /\ SendDequeued(t, s, <<Step("disconnect", s)>>)

DisconnectDequeued(t, s) ==
  /\ Dequeue(t, s, "DISCONNECT", <<Step("releaseIssue", s)>>)
  /\ session' = Taken(s, "DISCONNECT")
  /\ UNCHANGED requests

(* CK_DB_RESULT: OnResult, then the context is deleted. *)
DbResultDequeued(t, s) ==
  /\ Dequeue(t, s, "DB", <<>>)
  /\ session' = Taken(s, "DB")
  /\ UNCHANGED requests

(***************************************************************************)
(* The steps of the handlers.                                              *)
(***************************************************************************)
(* ClientSession::AcceptCompletion; a failing setsockopt disconnects. *)
AcceptCompletion(t, s) ==
  /\ Ready(t, "accept", s)
  /\ session' = [session EXCEPT ![s].mConnected = 1]
  /\ IF session[s].mConnected = 1
     THEN halted' = "AcceptCompletion" /\ Done(t, <<>>)
     ELSE /\ \/ /\ session[s].socket = "open"
                /\ Done(t, <<Step("load", s), Step("preRecv", s)>>)
             \/ /\ session[s].socket # "open" \/ MayFail("setsockopt")
                /\ Done(t, <<Step("disconnect", s)>>)
          /\ UNCHANGED halted
  /\ UNCHANGED <<managerVars, phase, LSendRequestSessionList, playerId,
                 requests, flushFault>>

(* mPlayer.RequestLoad(id++): the request goes straight to the port. *)
RequestLoad(t, s) ==
  /\ Ready(t, "load", s)
  /\ session' = [session EXCEPT ![s] = WithContext(@, "DB")]
  /\ playerId' = playerId + 1
  /\ halted' = IF playerId' > MaxPlayerLoads THEN "RequestLoad" ELSE "no"
  /\ Done(t, <<>>)
  /\ UNCHANGED <<managerVars, phase, LSendRequestSessionList, requests, flushFault>>

(* AcceptCompletion's call is told apart, as it ignores what it returns. *)
RecvCall(do) == IF do = "preRecv" THEN "firstWSARecv" ELSE "WSARecv"

(* Mutant: the context of a failed call is not deleted. *)
ReceiveLeaks(t, s, do) ==
  /\ Ready(t, do, s)
  /\ session[s].mConnected = 1 /\ MayFail(RecvCall(do))
  /\ session' = [session EXCEPT ![s] = WithFailedContext(@)]
  /\ Done(t, IF do = "preRecv" THEN <<>> ELSE <<Step("disconnect", s)>>)
  /\ UNCHANGED <<managerVars, phase, LSendRequestSessionList, processVars>>

(* Mutant: what PreRecv returns is ignored wherever it is called. *)
ReceiveIgnored(t, s, do) ==
  LET io == IF do = "postRecvOrClose" THEN "RECV" ELSE "RECV_ZERO"
      onFalse == IF do = "postRecvOrClose" THEN <<Step("disconnect", s)>> ELSE <<>>
  IN
  /\ Ready(t, do, s)
  /\ \/ /\ session[s].mConnected = 0
        /\ Done(t, onFalse)
        /\ UNCHANGED session
     \/ /\ session[s].mConnected = 1 /\ session[s].socket = "open"
        /\ session' = [session EXCEPT ![s] = WithContext(@, io)]
        /\ Done(t, <<>>)
     \/ /\ session[s].mConnected = 1
        /\ session[s].socket # "open" \/ MayFail(RecvCall(do))
        /\ session' = [session EXCEPT ![s] = WithFailedContext(@)]
        /\ Done(t, onFalse \o <<Step("releaseNew", s)>>)
  /\ UNCHANGED <<managerVars, phase, LSendRequestSessionList, processVars>>

(* PreRecv and PostRecv.  AcceptCompletion ignores what PreRecv returns,   *)
(* the other callers disconnect when they get false.  The receive buffer   *)
(* is empty whenever PostRecv asks for its free space, as Handle_CS_MOVE   *)
(* consumes all that the one receive committed.                            *)
Receive(t, s, do) ==
  LET io == IF do = "postRecvOrClose" THEN "RECV" ELSE "RECV_ZERO"
      onFalse == IF do = "preRecv" THEN <<>> ELSE <<Step("disconnect", s)>>
  IN
  /\ Ready(t, do, s)
  /\ \/ /\ session[s].mConnected = 0
        /\ Done(t, onFalse)
        /\ UNCHANGED session
     \/ /\ session[s].mConnected = 1 /\ session[s].socket = "open"
        /\ session' = [session EXCEPT ![s] = WithContext(@, io)]
        /\ Done(t, <<>>)
     \/ /\ session[s].mConnected = 1
        /\ session[s].socket # "open" \/ MayFail(RecvCall(do))
        /\ session' = [session EXCEPT ![s] = WithFailedContext(@)]
        /\ Done(t, onFalse \o <<Step("releaseNew", s)>>)
  /\ UNCHANGED <<managerVars, phase, LSendRequestSessionList, processVars>>

(* Handle_SC_MOVE: the IsConnected() test ... *)
Handle_SC_MOVE(t, s) ==
  /\ Ready(t, "move", s)
  /\ Done(t, IF session[s].mConnected = 1 THEN <<Step("postReply", s)>> ELSE <<>>)
  /\ UNCHANGED <<session, managerVars, phase, LSendRequestSessionList, processVars>>

(* ... and its critical section.  The buffer may refuse a reply although   *)
(* there is room for it, as its free memory may be in two pieces.          *)
PostReply(t, s) ==
  /\ Ready(t, "postReply", s)
  /\ session[s].mSendBufferLock = Nobody
  /\ \/ /\ session[s].stored < SendCapacity
        /\ session' = [session EXCEPT ![s].stored = @ + 1]
        /\ LSendRequestSessionList' = [LSendRequestSessionList EXCEPT ![t] = Append(@, s)]
     \/ /\ session[s].stored > 0
        /\ UNCHANGED <<session, LSendRequestSessionList>>
  /\ Done(t, <<>>)
  /\ UNCHANGED <<managerVars, phase, processVars>>

(* Mutant: SendCompletion returns without leaving mSendBufferLock. *)
SendCompletionKeepsLock(t, s, do) ==
  /\ Ready(t, do, s)
  /\ session[s].mSendBufferLock = Nobody
  /\ session' = [session EXCEPT ![s].stored = 0, ![s].mSendPendingCount = @ - 1,
                                ![s].mSendBufferLock = t]
  /\ Done(t, <<>>)
  /\ UNCHANGED <<managerVars, phase, LSendRequestSessionList, processVars>>

(* SendCompletion removes the replies that left; Remove stops at empty. *)
SendCompletion(t, s, do) ==
  /\ Ready(t, do, s)
  /\ session[s].mSendBufferLock = Nobody
  /\ \E n \in 0 .. session[s].sendLen :
       /\ do = "sendDone" => n = session[s].sendLen
       /\ do = "sendShort" => n < session[s].sendLen
       /\ session' = [session EXCEPT ![s].stored = IF n < @ THEN @ - n ELSE 0,
                                     ![s].mSendPendingCount = @ - 1]
  /\ Done(t, <<>>)
  /\ UNCHANGED <<managerVars, phase, LSendRequestSessionList, processVars>>

(* Mutant: everyone goes on to DisconnectEx. *)
DisconnectRequestAlways(t, s) ==
  /\ Ready(t, "disconnect", s)
  /\ LET x == [session[s] EXCEPT !.mConnected = 0]
     IN  session' = [session EXCEPT ![s] =
           [WithContext(x, "DISCONNECT") EXCEPT !.socket = "closing"]]
  /\ Done(t, <<>>)
  /\ UNCHANGED <<managerVars, phase, LSendRequestSessionList, processVars>>

(* Only the one that resets mConnected goes on to DisconnectEx. *)
DisconnectRequest(t, s) ==
  /\ Ready(t, "disconnect", s)
  /\ LET x == [session[s] EXCEPT !.mConnected = 0]
     IN  \/ /\ session[s].mConnected = 0
            /\ Done(t, <<>>)
            /\ UNCHANGED session
         \/ /\ session[s].mConnected = 1 /\ session[s].socket = "open"
            /\ session' = [session EXCEPT ![s] =
                 [WithContext(x, "DISCONNECT") EXCEPT !.socket = "closing"]]
            /\ Done(t, <<>>)
         \/ /\ session[s].mConnected = 1
            /\ session[s].socket # "open" \/ MayFail("DisconnectEx")
            /\ session' = [session EXCEPT ![s] = WithFailedContext(x)]
            /\ Done(t, <<Step("releaseNew", s)>>)
  /\ UNCHANGED <<managerVars, phase, LSendRequestSessionList, processVars>>

(* Mutant: OnRelease is called one reference too early. *)
ReleaseRefEarly(t, s, do) ==
  /\ Ready(t, do, s)
  /\ session' = [session EXCEPT ![s].mRefCount = @ - 1,
                                ![s].issued = IF do = "releaseIssue" THEN FALSE ELSE @]
  /\ Done(t, IF session[s].mRefCount = 2 THEN <<Step("return", s)>> ELSE <<>>)
  /\ UNCHANGED <<managerVars, phase, LSendRequestSessionList, processVars>>

(* Mutant: the count is compared with zero before the decrement. *)
ReleaseRefLate(t, s, do) ==
  /\ Ready(t, do, s)
  /\ session' = [session EXCEPT ![s].mRefCount = @ - 1,
                                ![s].issued = IF do = "releaseIssue" THEN FALSE ELSE @]
  /\ Done(t, IF session[s].mRefCount = 0 THEN <<Step("return", s)>> ELSE <<>>)
  /\ UNCHANGED <<managerVars, phase, LSendRequestSessionList, processVars>>

(* ReleaseRef, for a context (DeleteIoContext, ~DatabaseJobContext) or for *)
(* the issue (DisconnectCompletion); zero means OnRelease.                 *)
ReleaseRef(t, s, do) ==
  /\ Ready(t, do, s)
  /\ session' = [session EXCEPT ![s].mRefCount = @ - 1,
                                ![s].issued = IF do = "releaseIssue" THEN FALSE ELSE @]
  /\ Done(t, IF session[s].mRefCount = 1 THEN <<Step("return", s)>> ELSE <<>>)
  /\ halted' = IF session[s].mRefCount < 1 THEN "ReleaseRef" ELSE "no"
  /\ UNCHANGED <<managerVars, phase, LSendRequestSessionList, playerId,
                 requests, flushFault>>

(* ReturnClientSession takes the manager's lock and asserts ... *)
ReturnClientSession(t, s) ==
  /\ Ready(t, "return", s)
  /\ mLock = Nobody
  /\ mLock' = t
  /\ halted' = IF session[s].mConnected = 0 /\ session[s].mRefCount = 0
               THEN "no" ELSE "ReturnClientSession"
  /\ Done(t, <<Step("resetSend", s), Step("reset", s)>>)
  /\ UNCHANGED <<session, mFreeSessionList, mCurrentIssueCount,
                 mCurrentReturnCount, phase, LSendRequestSessionList, playerId,
                 requests, flushFault>>

(* ... SessionReset overwrites the counters ... *)
SessionReset(t, s) ==
  /\ Ready(t, "reset", s)
  /\ session' = [session EXCEPT ![s].mConnected = 0, ![s].mRefCount = 0]
  /\ Done(t, <<>>)
  /\ UNCHANGED <<managerVars, phase, LSendRequestSessionList, processVars>>

(* Mutant: mCurrentReturnCount is not incremented. *)
SessionReturnedUncounted(t, s) ==
  /\ Ready(t, "resetSend", s)
  /\ session[s].mSendBufferLock = Nobody
  /\ session' = [session EXCEPT ![s].stored = 0, ![s].socket = "new"]
  /\ mFreeSessionList' = Append(mFreeSessionList, s)
  /\ mLock' = Nobody
  /\ Done(t, <<>>)
  /\ UNCHANGED <<mCurrentIssueCount, mCurrentReturnCount, phase,
                 LSendRequestSessionList, processVars>>

(* ... empties the send buffer under its lock, replaces the socket, and    *)
(* the session is back in the pool.  mSendPendingCount is not reset.       *)
SessionReturned(t, s) ==
  /\ Ready(t, "resetSend", s)
  /\ session[s].mSendBufferLock = Nobody
  /\ session' = [session EXCEPT ![s].stored = 0, ![s].socket = "new"]
  /\ mFreeSessionList' = Append(mFreeSessionList, s)
  /\ mCurrentReturnCount' = mCurrentReturnCount + 1
  /\ mLock' = Nobody
  /\ Done(t, <<>>)
  /\ UNCHANGED <<mCurrentIssueCount, phase, LSendRequestSessionList, processVars>>

(***************************************************************************)
(* IOThread::DoSendJob.                                                    *)
(***************************************************************************)
AtSendJob(t) == Running /\ phase[t] = "send" /\ work[t] = <<>>

DoSendJobDone(t) ==
  /\ AtSendJob(t) /\ LSendRequestSessionList[t] = <<>>
  /\ phase' = [phase EXCEPT ![t] = "iocp"]
  /\ UNCHANGED <<session, managerVars, work, LSendRequestSessionList, processVars>>

(* FlushSend's IsConnected() test, before the lock. *)
FlushSend(t) ==
  /\ AtSendJob(t) /\ LSendRequestSessionList[t] # <<>>
  /\ LET s == Head(LSendRequestSessionList[t])
     IN  work' = [work EXCEPT ![t] =
           IF session[s].mConnected = 1 THEN <<Step("flush", s)>>
           ELSE <<Step("pop", s), Step("disconnect", s)>>]
  /\ UNCHANGED <<session, managerVars, phase, LSendRequestSessionList, processVars>>

PopFront(t) ==
  LSendRequestSessionList' = [LSendRequestSessionList EXCEPT ![t] = Tail(@)]

InFlush(t, s) == Ready(t, "flush", s) /\ session[s].mSendBufferLock = Nobody

(* FlushSend returns false: the entry stays, DoSendJob tries again. *)
FlushAgain(t, s) ==
  /\ InFlush(t, s)
  /\ session[s].mSendPendingCount > 0
  /\ Done(t, <<>>)
  /\ UNCHANGED <<session, managerVars, phase, LSendRequestSessionList, processVars>>

FlushNothing(t, s) ==
  /\ InFlush(t, s)
  /\ session[s].mSendPendingCount = 0 /\ session[s].stored = 0
  /\ PopFront(t) /\ Done(t, <<>>)
  /\ UNCHANGED <<session, managerVars, phase, processVars>>

(* WSASend took the n oldest replies. *)
WithSend(x, n) ==
  [WithContext(x, "SEND") EXCEPT !.mSendPendingCount = @ + 1, !.sendLen = n]

(* Mutant: mSendPendingCount is not tested. *)
FlushIssueUntested(t, s) ==
  /\ InFlush(t, s)
  /\ session[s].stored > 0 /\ session[s].socket = "open"
  /\ \E n \in 1 .. session[s].stored :
       session' = [session EXCEPT ![s] = WithSend(@, n)]
  /\ PopFront(t) /\ Done(t, <<>>)
  /\ UNCHANGED <<managerVars, phase, processVars>>

(* The thread's list kept the session but no reference to it: the context  *)
(* may be constructed when nobody holds the session any more.              *)
Revived(s) == session[s].mRefCount = 0

(* WSASend accepts the oldest contiguous bytes, some or all of the replies. *)
FlushIssue(t, s) ==
  /\ InFlush(t, s)
  /\ session[s].mSendPendingCount = 0 /\ session[s].stored > 0
  /\ session[s].socket = "open"
  /\ \E n \in 1 .. session[s].stored :
       session' = [session EXCEPT ![s] = WithSend(@, n)]
  /\ flushFault' = IF Revived(s) THEN "revived" ELSE flushFault
  /\ PopFront(t) /\ Done(t, <<>>)
  /\ UNCHANGED <<managerVars, phase, halted, playerId, requests>>

(* WSASend fails: the context is deleted and the session disconnected with *)
(* mSendBufferLock still held.                                             *)
FlushFails(t, s) ==
  /\ InFlush(t, s)
  /\ session[s].mSendPendingCount = 0 /\ session[s].stored > 0
  /\ session[s].socket # "open" \/ MayFail("WSASend")
  /\ session' = [session EXCEPT ![s] =
       [WithFailedContext(@) EXCEPT !.mSendBufferLock = t]]
  /\ flushFault' = IF Revived(s) \/ flushFault = "revived" THEN "revived" ELSE "failed"
  /\ Done(t, <<Step("pop", s), Step("unlock", s), Step("disconnect", s),
               Step("releaseNew", s)>>)
  /\ UNCHANGED <<managerVars, phase, LSendRequestSessionList, halted, playerId,
                 requests>>

Unlock(t, s) ==
  /\ Ready(t, "unlock", s)
  /\ session' = [session EXCEPT ![s].mSendBufferLock = Nobody]
  /\ Done(t, <<>>)
  /\ UNCHANGED <<managerVars, phase, LSendRequestSessionList, processVars>>

Pop(t, s) ==
  /\ Ready(t, "pop", s)
  /\ PopFront(t) /\ Done(t, <<>>)
  /\ UNCHANGED <<session, managerVars, phase, processVars>>

-----------------------------------------------------------------------------
MainThread ==
  \/ AcceptClientSessions
  \/ \E ok \in BOOLEAN : PostAccept(ok)
  \/ AcceptDone

DoIocpJob(t) ==
  \/ Timeout(t)
  \/ \E s \in Sessions :
       \/ \E ok \in BOOLEAN : AcceptDequeued(t, s, ok)
       \/ RecvZeroDequeued(t, s)
       \/ RecvDequeued(t, s)
       \/ RecvFailed(t, s)
       \/ SendFull(t, s)
       \/ SendShort(t, s)
       \/ SendFailed(t, s)
       \/ DisconnectDequeued(t, s)
       \/ DbResultDequeued(t, s)

Handler(t) ==
  \E s \in Sessions :
    \/ AcceptCompletion(t, s)
    \/ RequestLoad(t, s)
    \/ \E do \in ReceiveSteps : Receive(t, s, do)
    \/ Handle_SC_MOVE(t, s)
    \/ PostReply(t, s)
    \/ \E do \in {"sendDone", "sendShort"} : SendCompletion(t, s, do)
    \/ DisconnectRequest(t, s)
    \/ \E do \in ReleaseSteps : ReleaseRef(t, s, do)
    \/ ReturnClientSession(t, s)
    \/ SessionReset(t, s)
    \/ SessionReturned(t, s)

DoSendJob(t) ==
  \/ DoSendJobDone(t)
  \/ FlushSend(t)
  \/ \E s \in Sessions :
       \/ FlushAgain(t, s)
       \/ FlushNothing(t, s)
       \/ FlushIssue(t, s)
       \/ FlushFails(t, s)
       \/ Unlock(t, s)
       \/ Pop(t, s)

Next ==
  \/ MainThread
  \/ \E t \in IoThreads : DoIocpJob(t) \/ Handler(t) \/ DoSendJob(t)

Spec == Init /\ [][Next]_vars

(***************************************************************************)
(* Fairness.  The scheduler runs every thread.  A disconnected socket      *)
(* completes everything that was pending on it; a send and a database      *)
(* request complete in any case, a receive only when the client acts.  The *)
(* port is FIFO and a thread that finds it non-empty takes a completion    *)
(* rather than time out, hence strong fairness.  The manager's lock is     *)
(* never kept from a thread: the main thread sleeps 100 ms between two     *)
(* turns, EnterLock retries after 10 ms at most.                           *)
(***************************************************************************)
Completes(t, s, io) ==
  \/ io = "SEND" /\ (SendFull(t, s) \/ SendFailed(t, s))
  \/ io = "DISCONNECT" /\ DisconnectDequeued(t, s)
  \/ io = "DB" /\ DbResultDequeued(t, s)
  \/ io = "RECV_ZERO" /\ session[s].socket # "open" /\ RecvZeroDequeued(t, s)
  \/ io = "RECV" /\ session[s].socket # "open" /\ RecvFailed(t, s)

Fairness ==
  /\ WF_vars(MainThread)
  /\ \A t \in IoThreads :
       /\ WF_vars(Handler(t)) /\ WF_vars(DoSendJob(t))
       /\ SF_vars(\E s \in Sessions : ReturnClientSession(t, s))
  /\ \A s \in Sessions, io \in IoTypes :
       SF_vars(\E t \in IoThreads : Completes(t, s, io))

FairSpec == Spec /\ Fairness

-----------------------------------------------------------------------------
TypeOK ==
  /\ session \in [Sessions ->
       [mConnected : {0, 1}, mRefCount : Int, mSendPendingCount : Int,
        mSendBufferLock : IoThreads \cup {Nobody}, stored : Nat, sendLen : Nat,
        socket : {"new", "open", "closing"}, pending : [IoTypes -> Nat],
        issued : BOOLEAN]]
  /\ mFreeSessionList \in Seq(Sessions)
  /\ mLock \in IoThreads \cup {Main, Nobody}
  /\ mCurrentIssueCount \in Nat /\ mCurrentReturnCount \in Nat
  /\ phase \in [IoThreads -> {"iocp", "send"}]
  /\ work \in [IoThreads -> Seq([do : Steps, s : Sessions])]
  /\ LSendRequestSessionList \in [IoThreads -> Seq(Sessions)]
  /\ \A t \in IoThreads : phase[t] = "iocp" => work[t] = <<>>
  /\ halted \in Halts /\ playerId \in Nat /\ requests \in Nat
  /\ flushFault \in {"none", "failed", "revived"}

(* The steps of the given kinds that threads have still to make on s. *)
StepsOn(s, dos) ==
  UNION {{<<t, i>> : i \in {j \in DOMAIN work[t] : work[t][j].s = s
                                                 /\ work[t][j].do \in dos}} :
         t \in IoThreads}

PendingOn(s) ==
  LET p == session[s].pending
  IN  p["ACCEPT"] + p["RECV_ZERO"] + p["RECV"] + p["SEND"] + p["DISCONNECT"] + p["DB"]

IssueRef(s) == IF session[s].issued THEN 1 ELSE 0

Sound == flushFault # "revived" /\ Running

(***************************************************************************)
(* Reference counting.  As long as no FlushSend has revived a session, the *)
(* count of a session is exactly the issue reference, its contexts with    *)
(* the kernel, and the deletions threads have still to perform: nobody     *)
(* releases a reference twice, or forgets one, on any path of a handler.   *)
(***************************************************************************)
RefCountHonest ==
  Sound => \A s \in Sessions :
    session[s].mRefCount =
      IssueRef(s) + PendingOn(s)
        + Cardinality(StepsOn(s, {"deleteContext", "releaseNew"}))

(***************************************************************************)
(* A session in the pool is at rest: nobody holds it, no completion of a   *)
(* former client can still arrive, no handler is inside it, and the pool   *)
(* has it once, so it cannot be issued to two clients.                     *)
(***************************************************************************)
PooledSessionsAtRest ==
  Sound => \A i \in DOMAIN mFreeSessionList :
    LET s == mFreeSessionList[i]
    IN  /\ session[s].mConnected = 0 /\ session[s].mRefCount = 0
        /\ ~session[s].issued /\ PendingOn(s) = 0
        /\ StepsOn(s, Steps \ {"flush", "disconnect", "unlock", "pop"}) = {}
        /\ \A j \in DOMAIN mFreeSessionList : mFreeSessionList[j] = s => j = i

(***************************************************************************)
(* The right to give up the issue reference is handed from AcceptEx to the *)
(* connection, to the one DisconnectEx, and to its completion.  It is      *)
(* never duplicated (the session would be returned under its users), and   *)
(* it is lost, so that the session never returns to the pool, only when    *)
(* DisconnectEx itself fails or AcceptEx completes with an error.          *)
(***************************************************************************)
Claims(s) ==
  session[s].mConnected + session[s].pending["ACCEPT"] + session[s].pending["DISCONNECT"]
    + Cardinality(StepsOn(s, {"accept", "releaseIssue"}))

OneClaimPerIssue ==
  Sound => \A s \in Sessions :
    /\ Claims(s) <= IssueRef(s)
    /\ Fails \cap {"DisconnectEx", "acceptCompletion"} = {} => Claims(s) = IssueRef(s)

(***************************************************************************)
(* One receive at a time, and never none: two would fill the one receive   *)
(* buffer out of order, and a connected session that nothing is pending on *)
(* is heard of no more, neither by a request nor by the end of its client, *)
(* and is lost to the pool.  Every path of the receive handlers ends in a  *)
(* new receive or in a disconnection; only the first receive of a          *)
(* connection, whose failure AcceptCompletion ignores, can be missing.     *)
(***************************************************************************)
Receivers(s) ==
  session[s].pending["RECV_ZERO"] + session[s].pending["RECV"]
    + Cardinality(StepsOn(s, ReceiveSteps))

OneReceiver ==
  Sound => \A s \in Sessions :
    /\ Receivers(s) <= 1
    /\ session[s].mConnected = 1 /\ "firstWSARecv" \notin Fails =>
         Receivers(s) = 1 \/ StepsOn(s, {"disconnect"}) # {}

(***************************************************************************)
(* One send at a time, even across a recycling of the session and whatever *)
(* a FlushSend did to it: mSendPendingCount never exceeds 1 and is never 0 *)
(* while a WSASend is with the kernel or its completion is being handled;  *)
(* a second WSASend would transmit the same bytes again.                   *)
(***************************************************************************)
OneSendAtATime ==
  Running => \A s \in Sessions :
    /\ session[s].mSendPendingCount \in {0, 1}
    /\ session[s].pending["SEND"] + Cardinality(StepsOn(s, {"sendDone", "sendShort"}))
         <= session[s].mSendPendingCount

(***************************************************************************)
(* Whatever happens, the state is typed and what the pool holds and what   *)
(* it counts agree, so that AcceptClientSessions never pops an empty list. *)
(***************************************************************************)
PoolConserved == TypeOK /\ Len(mFreeSessionList) + PoolInUse = Cardinality(Sessions)

(***************************************************************************)
(* No assertion of the session code fires, and no thread waits for the     *)
(* send lock it holds itself (with the pool's lock in its hands), except   *)
(* after a FlushSend on a session that was being torn down.                *)
(***************************************************************************)
AssertsHold ==
  halted \in {"AcceptCompletion", "ReleaseRef", "ReturnClientSession"}
    => flushFault = "revived"

NoSelfDeadlock ==
  \A t \in IoThreads, s \in Sessions :
    Ready(t, "resetSend", s) /\ session[s].mSendBufferLock = t => flushFault # "none"

(***************************************************************************)
(* CRASH_ASSERT(client->mConnected == 0 && client->mRefCount == 0) in      *)
(* ReturnClientSession (ClientSessionManager.cpp:40) holds.                *)
(***************************************************************************)
ReturnAssertHolds == halted # "ReturnClientSession"

(***************************************************************************)
(* A disconnected client's session returns to the pool, unless the process *)
(* stops or a FlushSend went wrong.                                        *)
(***************************************************************************)
DisconnectedReturns ==
  \A s \in Sessions :
    session[s].pending["DISCONNECT"] > 0
      ~> \/ \E i \in DOMAIN mFreeSessionList : mFreeSessionList[i] = s
         \/ ~Running \/ flushFault # "none"
=============================================================================
