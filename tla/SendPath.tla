------------------------------ MODULE SendPath ------------------------------
(***************************************************************************)
(* How one ClientSession answers its client: the I/O threads append        *)
(* replies to mSendBuffer and put the session on their own                 *)
(* LSendRequestSessionList (Session::PostSend, Session::Handle_SC_MOVE),   *)
(* drain that list after every completion (IOThread::DoSendJob, FlushSend) *)
(* and remove what the kernel has sent (SendCompletion).  The buffer is    *)
(* the real CircularBuffer and the kernel reads the memory of a pending    *)
(* send only when it completes, which overlapped WSASend allows.           *)
(*                                                                         *)
(* Every access to mSendBuffer and mSendPendingCount is under              *)
(* mSendBufferLock, so a critical section is one action; the IsConnected() *)
(* test before the lock, the steps of a handler around it, and the loop of *)
(* DoSendJob are separate actions that other threads interleave with.      *)
(*                                                                         *)
(* Reference counting and the pool are module SessionPool's; here Recycle  *)
(* stands for the release of the last reference, SessionReset and the next *)
(* AcceptCompletion, in one step.                                          *)
(***************************************************************************)
EXTENDS Integers, Sequences, SequencesExt

CONSTANTS
  IoThreads,      (* the I/O worker threads                                *)
  Capacity,       (* CLIENT_BUFSIZE, in bytes                              *)
  ReplyLen,       (* the bytes of one SC_MOVE reply                        *)
  Window,         (* replies the client lets accumulate before it stops    *)
                  (* sending requests                                      *)
  MayFail,        (* whether overlapped sends may fail or be cut short     *)
  MaxReplies,     (* bound: replies posted on one connection               *)
  MaxConnections, (* bound: clients served one after the other             *)
  NoSend          (* the value of inFlight when no send is pending         *)

ASSUME SendPathAssumption ==
  /\ Capacity \in Nat \ {0} /\ ReplyLen \in 1 .. Capacity
  /\ Window \in Nat \ {0} /\ MayFail \in BOOLEAN
  /\ MaxReplies \in Nat /\ MaxConnections \in Nat \ {0}
  /\ NoSend \notin [at : 0 .. Capacity, len : 0 .. Capacity, data : Seq(0 .. 2)]

VARIABLES
  buf,                    (* mSendBuffer                                   *)
  mConnected,
  mSendPendingCount,
  inFlight,               (* the overlapped send the kernel works on       *)
  recvPosted,             (* a receive is outstanding on the socket        *)
  sendList,               (* LSendRequestSessionList of each thread: how   *)
                          (* many entries point to this session            *)
  pc,                     (* where each thread is                          *)
  posted,                 (* history: the bytes committed for this client  *)
  received,               (* history: the bytes this client has been sent  *)
  connections             (* clients served so far                         *)

vars == <<buf, mConnected, mSendPendingCount, inFlight, recvPosted, sendList,
          pc, posted, received, connections>>

(* Byte p of the stream of a connection is p % 3: a byte sent twice, *)
(* skipped or overwritten shows.                                     *)
StreamByte(p) == p % 3

Buffer == INSTANCE CircularBuffer WITH Byte <- 0 .. 2, Zero <- 0

NextReply == [i \in 1 .. ReplyLen |-> StreamByte(Len(posted) + i - 1)]

PcValues == {"gqcs", "move", "post", "preRecv", "close", "flush", "flushLocked"}

At(t, here) == pc[t] = here
Go(t, there) == pc' = [pc EXCEPT ![t] = there]

-----------------------------------------------------------------------------
Init ==
  /\ buf = Buffer!Fresh([i \in 0 .. Capacity - 1 |-> 0])
  /\ mConnected = 1
  /\ mSendPendingCount = 0
  /\ inFlight = NoSend
  /\ recvPosted = TRUE
  /\ sendList = [t \in IoThreads |-> 0]
  /\ pc = [t \in IoThreads |-> "gqcs"]
  /\ posted = <<>> /\ received = <<>>
  /\ connections = 1

(* DisconnectRequest: only the first one closes the socket; the pending *)
(* overlapped calls then complete one by one.                           *)
DisconnectRequest == mConnected' = 0

(***************************************************************************)
(* IOThread::DoIocpJob.                                                    *)
(***************************************************************************)
(* GetQueuedCompletionStatus timed out, or served another session. *)
Timeout(t) ==
  /\ At(t, "gqcs")
  /\ Go(t, "flush")
  /\ UNCHANGED <<buf, mConnected, mSendPendingCount, inFlight, recvPosted,
                 sendList, posted, received, connections>>

Unanswered == (Len(posted) - Len(received)) \div ReplyLen

(* A receive completes with a request of the client: Handle_CS_MOVE. *)
RecvCompletion(t) ==
  /\ At(t, "gqcs") /\ recvPosted
  /\ Unanswered < Window
  /\ Len(posted) < MaxReplies * ReplyLen
  /\ recvPosted' = FALSE
  /\ Go(t, "move")
  /\ UNCHANGED <<buf, mConnected, mSendPendingCount, inFlight, sendList,
                 posted, received, connections>>

(* A receive completes with no bytes or with an error: the client is gone. *)
RecvError(t) ==
  /\ At(t, "gqcs") /\ recvPosted
  /\ recvPosted' = FALSE
  /\ DisconnectRequest
  /\ Go(t, "flush")
  /\ UNCHANGED <<buf, mSendPendingCount, inFlight, sendList, posted, received,
                 connections>>

(* The kernel has sent the first n bytes of the region it was given. *)
Transmit(n) ==
  received' = received \o [i \in 1 .. n |-> buf.mem[inFlight.at + i - 1]]

(* Mutant: all that was handed to the kernel is removed, however much was sent. *)
SendCompletionRemovesAll(t, n) ==
  /\ At(t, "gqcs") /\ inFlight # NoSend
  /\ n \in 1 .. inFlight.len
  /\ n = inFlight.len \/ MayFail
  /\ Transmit(n)
  /\ buf' = Buffer!Remove(buf, inFlight.len)
  /\ mSendPendingCount' = mSendPendingCount - 1
  /\ inFlight' = NoSend
  /\ Go(t, IF n = inFlight.len THEN "flush" ELSE "close")
  /\ UNCHANGED <<mConnected, recvPosted, sendList, posted, connections>>

(* A short send ends in DisconnectRequest(DR_IO_REQUEST_ERROR). *)
SendCompletion(t, n) ==
  /\ At(t, "gqcs") /\ inFlight # NoSend
  /\ n \in 1 .. inFlight.len
  /\ n = inFlight.len \/ MayFail
  /\ Transmit(n)
  /\ buf' = Buffer!Remove(buf, n)
  /\ mSendPendingCount' = mSendPendingCount - 1
  /\ inFlight' = NoSend
  /\ Go(t, IF n = inFlight.len THEN "flush" ELSE "close")
  /\ UNCHANGED <<mConnected, recvPosted, sendList, posted, connections>>

(* ret == 0 or no bytes: DisconnectRequest(DR_COMPLETION_ERROR), the context *)
(* is deleted and SendCompletion is never called.  Some bytes may have left. *)
SendError(t, n) ==
  /\ At(t, "gqcs") /\ inFlight # NoSend
  /\ MayFail
  /\ n \in 0 .. inFlight.len
  /\ Transmit(n)
  /\ inFlight' = NoSend
  /\ DisconnectRequest
  /\ Go(t, "flush")
  /\ UNCHANGED <<buf, mSendPendingCount, recvPosted, sendList, posted,
                 connections>>

(* Handle_SC_MOVE: the IsConnected() test before the lock ... *)
Handle_SC_MOVE(t) ==
  /\ At(t, "move")
  /\ Go(t, IF mConnected = 1 THEN "post" ELSE "preRecv")
  /\ UNCHANGED <<buf, mConnected, mSendPendingCount, inFlight, recvPosted,
                 sendList, posted, received, connections>>

(* ... and the critical section: refused, or listed and committed. *)
PostReply(t) ==
  /\ At(t, "post")
  /\ buf' = Buffer!Write(buf, NextReply)
  /\ IF Buffer!FreeSpace(buf) < ReplyLen
     THEN UNCHANGED <<sendList, posted>>
     ELSE /\ sendList' = [sendList EXCEPT ![t] = @ + 1]
          /\ posted' = posted \o NextReply
  /\ Go(t, "preRecv")
  /\ UNCHANGED <<mConnected, mSendPendingCount, inFlight, recvPosted, received,
                 connections>>

(* PreRecv re-arms the receive, unless the session was disconnected. *)
PreRecv(t) ==
  /\ At(t, "preRecv")
  /\ IF mConnected = 1
     THEN recvPosted' = TRUE /\ Go(t, "flush")
     ELSE Go(t, "close") /\ UNCHANGED recvPosted
  /\ UNCHANGED <<buf, mConnected, mSendPendingCount, inFlight, sendList,
                 posted, received, connections>>

(* if (!completionOk) DisconnectRequest(DR_IO_REQUEST_ERROR). *)
CloseOnError(t) ==
  /\ At(t, "close")
  /\ DisconnectRequest
  /\ Go(t, "flush")
  /\ UNCHANGED <<buf, mSendPendingCount, inFlight, recvPosted, sendList,
                 posted, received, connections>>

(***************************************************************************)
(* IOThread::DoSendJob: until the list is empty, FlushSend its front.      *)
(***************************************************************************)
PopFront(t) == sendList' = [sendList EXCEPT ![t] = @ - 1]

(* Mutant: DoSendJob waits for work when its list is empty. *)
DoSendJobWaits(t) ==
  /\ At(t, "flush") /\ sendList[t] = 0
  /\ UNCHANGED vars

(* The list is drained: back to the completion port. *)
DoSendJobDone(t) ==
  /\ At(t, "flush") /\ sendList[t] = 0
  /\ Go(t, "gqcs")
  /\ UNCHANGED <<buf, mConnected, mSendPendingCount, inFlight, recvPosted,
                 sendList, posted, received, connections>>

(* FlushSend's IsConnected() test, before the lock. *)
FlushSend(t) ==
  /\ At(t, "flush") /\ sendList[t] > 0
  /\ IF mConnected = 1
     THEN Go(t, "flushLocked") /\ UNCHANGED sendList
     ELSE PopFront(t) /\ UNCHANGED pc
  /\ UNCHANGED <<buf, mConnected, mSendPendingCount, inFlight, recvPosted,
                 posted, received, connections>>

NothingToSend == Buffer!GetContiguiousBytes(buf) = 0

(* Mutant: FlushSend returns true while a send is pending. *)
FlushAgainPops(t) ==
  /\ At(t, "flushLocked")
  /\ mSendPendingCount > 0
  /\ PopFront(t)
  /\ Go(t, "flush")
  /\ UNCHANGED <<buf, mConnected, mSendPendingCount, inFlight, recvPosted,
                 posted, received, connections>>

(* FlushSend returns false: the entry stays and DoSendJob tries again. *)
FlushAgain(t) ==
  /\ At(t, "flushLocked")
  /\ mSendPendingCount > 0
  /\ Go(t, "flush")
  /\ UNCHANGED <<buf, mConnected, mSendPendingCount, inFlight, recvPosted,
                 sendList, posted, received, connections>>

(* Somebody else's flush has sent the reply already. *)
FlushNothing(t) ==
  /\ At(t, "flushLocked")
  /\ NothingToSend /\ mSendPendingCount = 0
  /\ PopFront(t)
  /\ Go(t, "flush")
  /\ UNCHANGED <<buf, mConnected, mSendPendingCount, inFlight, recvPosted,
                 posted, received, connections>>

(* WSASend accepts the oldest contiguous bytes. *)
FlushIssue(t) ==
  /\ At(t, "flushLocked")
  /\ ~NothingToSend /\ mSendPendingCount = 0
  /\ mConnected = 1
  /\ LET at == Buffer!GetBufferStart(buf)
         len == Buffer!GetContiguiousBytes(buf)
     IN  inFlight' = [at |-> at, len |-> len,
                      data |-> [i \in 1 .. len |-> buf.mem[at + i - 1]]]
  /\ mSendPendingCount' = mSendPendingCount + 1
  /\ PopFront(t)
  /\ Go(t, "flush")
  /\ UNCHANGED <<buf, mConnected, recvPosted, posted, received, connections>>

(* WSASend fails, as it must once the socket is closed. *)
FlushFails(t) ==
  /\ At(t, "flushLocked")
  /\ ~NothingToSend /\ mSendPendingCount = 0
  /\ mConnected = 0 \/ MayFail
  /\ DisconnectRequest
  /\ PopFront(t)
  /\ Go(t, "flush")
  /\ UNCHANGED <<buf, mSendPendingCount, inFlight, recvPosted, posted,
                 received, connections>>

-----------------------------------------------------------------------------
(***************************************************************************)
(* The last reference is gone: no call is pending on the socket and no     *)
(* thread is inside a handler of this session.  ClientSession::SessionReset*)
(* empties the buffers, and a new client is accepted.  mSendPendingCount   *)
(* keeps its value, and threads keep the session on their lists.           *)
(***************************************************************************)
Recycle ==
  /\ mConnected = 0 /\ ~recvPosted /\ inFlight = NoSend
  /\ \A t \in IoThreads : pc[t] \in {"gqcs", "flush", "flushLocked"}
  /\ connections < MaxConnections
  /\ buf' = Buffer!BufferReset(buf)
  /\ mConnected' = 1 /\ recvPosted' = TRUE
  /\ posted' = <<>> /\ received' = <<>>
  /\ connections' = connections + 1
  /\ UNCHANGED <<mSendPendingCount, inFlight, sendList, pc>>

DoIocpJob(t) ==
  \/ Timeout(t)
  \/ RecvCompletion(t)
  \/ RecvError(t)
  \/ \E n \in 0 .. Capacity : SendCompletion(t, n) \/ SendError(t, n)

Handler(t) ==
  \/ Handle_SC_MOVE(t)
  \/ PostReply(t)
  \/ PreRecv(t)
  \/ CloseOnError(t)

DoSendJob(t) ==
  \/ DoSendJobDone(t)
  \/ FlushSend(t)
  \/ FlushAgain(t)
  \/ FlushNothing(t)
  \/ FlushIssue(t)
  \/ FlushFails(t)

Next ==
  \/ \E t \in IoThreads : DoIocpJob(t) \/ Handler(t) \/ DoSendJob(t)
  \/ Recycle

Spec == Init /\ [][Next]_vars

(***************************************************************************)
(* Fairness.  The scheduler runs every thread that is not waiting for the  *)
(* completion port.  The kernel completes every send, and its completion   *)
(* queue is FIFO: a thread that calls GetQueuedCompletionStatus with the   *)
(* completion queued takes it instead of timing out, hence strong fairness *)
(* on taking it.  Clients and failures are under no obligation.            *)
(***************************************************************************)
SendCompletes == \E t \in IoThreads : \E n \in 0 .. Capacity : SendCompletion(t, n)

Fairness ==
  /\ \A t \in IoThreads : WF_vars(Handler(t) \/ DoSendJob(t))
  /\ SF_vars(SendCompletes)

FairSpec == Spec /\ Fairness

-----------------------------------------------------------------------------
TypeOK ==
  /\ Buffer!TypeOK
  /\ mConnected \in {0, 1} /\ mSendPendingCount \in {0, 1}
  /\ inFlight = NoSend \/ /\ inFlight.at \in 0 .. Capacity - 1
                          /\ inFlight.len \in 1 .. Capacity
  /\ recvPosted \in BOOLEAN
  /\ sendList \in [IoThreads -> 0 .. 1]
  /\ pc \in [IoThreads -> PcValues]
  /\ connections \in 1 .. MaxConnections

(***************************************************************************)
(* The kernel may read a pending send's memory at any time: until it       *)
(* completes, neither a concurrent PostReply, nor region B becoming A, nor *)
(* SessionReset may change or move those bytes.                            *)
(***************************************************************************)
InFlightBytesStable ==
  inFlight # NoSend =>
    \A i \in 1 .. inFlight.len : buf.mem[inFlight.at + i - 1] = inFlight.data[i]

(***************************************************************************)
(* What a client receives is a prefix of what the handlers committed for   *)
(* it (nothing of a former client, nothing twice, nothing skipped), as     *)
(* long as it is connected the rest of it is in the buffer, and what the   *)
(* kernel still has to read of the buffer stays as it is.                  *)
(***************************************************************************)
StreamIntact ==
  /\ TypeOK /\ InFlightBytesStable
  /\ IsPrefix(received, posted)
  /\ mConnected = 1 => received \o Buffer!Contents(buf) = posted

(***************************************************************************)
(* "flush later..." (Session.cpp:129): a reply that is committed is never  *)
(* forgotten.  While a connected session has bytes that are not with the   *)
(* kernel, some thread still has it on its list, although FlushSend drops  *)
(* entries both when it issues a send for one region only and when it      *)
(* finds nothing to send.                                                  *)
(***************************************************************************)
NoReplyForgotten ==
  LET withKernel == IF inFlight = NoSend THEN 0 ELSE inFlight.len
  IN  mConnected = 1 /\ Buffer!GetStoredSize(buf) > withKernel
        => \E t \in IoThreads : sendList[t] > 0 \/ pc[t] = "close"

(***************************************************************************)
(* FlushSend refuses to send while mSendPendingCount > 0 because "the      *)
(* previous send has not completed" (the comment at Session.cpp:165): a    *)
(* connected session that refuses has a send with the kernel.              *)
(***************************************************************************)
PendingCountHonest ==
  mConnected = 1 /\ mSendPendingCount > 0 => inFlight # NoSend

(***************************************************************************)
(* Every reply that is committed reaches the client or the client is       *)
(* disconnected.                                                           *)
(***************************************************************************)
EveryReplyFlushed ==
  \A k \in 1 .. MaxReplies * ReplyLen :
    Len(posted) >= k ~> Len(received) >= k \/ mConnected = 0

AllSpinning == \A t \in IoThreads : sendList[t] > 0

(***************************************************************************)
(* The two ways, and the only ones, in which a connected client can fail   *)
(* to get a committed reply: its session is stuck in the state of          *)
(* ~PendingCountHonest, or every I/O thread has it on its list for ever,   *)
(* spinning in DoSendJob for a completion that nobody dequeues.  A failing *)
(* send, a refused reply or an entry left by a former client is no reason. *)
(***************************************************************************)
FlushedUnlessStalled ==
  \A k \in 1 .. MaxReplies * ReplyLen :
    Len(posted) >= k
      ~> (Len(received) >= k \/ mConnected = 0 \/ ~PendingCountHonest \/ []AllSpinning)
=============================================================================
