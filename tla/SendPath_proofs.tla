---------------------------- MODULE SendPath_proofs ----------------------------
(***************************************************************************)
(* Proofs about the reply path, for any number of I/O threads, any size of *)
(* the buffer and of a reply, and whatever sends fail or are cut short.    *)
(* What the buffer does comes from the lemmas of CircularBuffer_proofs.    *)
(*                                                                         *)
(* The inductive invariant IInv follows the bytes: the kernel has the      *)
(* front of region A (KernelHasFront), what the client has received is the *)
(* front of what was posted (Prefix), and while the session is connected,  *)
(* or a send is pending, the buffer holds the rest (RestInBuffer).  A      *)
(* reply is not forgotten because each of the two regions that holds bytes *)
(* the kernel has not got is on the list of a thread of its own            *)
(* (RegionsListed): one flush sends one region, and takes one entry off.   *)
(***************************************************************************)
EXTENDS SendPath, SequenceTheorems, TLAPS

(* The buffer with the lemmas about it. *)
BP == INSTANCE CircularBuffer_proofs WITH Byte <- 0 .. 2, Zero <- 0

Sends == [at : 0 .. Capacity, len : 0 .. Capacity, data : Seq(0 .. 2)]

Typed ==
  /\ BP!BufferOK(buf)
  /\ mConnected \in {0, 1} /\ mSendPendingCount \in {0, 1}
  /\ inFlight \in Sends \cup {NoSend}
  /\ recvPosted \in BOOLEAN
  /\ sendList \in [IoThreads -> 0 .. 1]
  /\ pc \in [IoThreads -> PcValues]
  /\ posted \in Seq(0 .. 2) /\ received \in Seq(0 .. 2)
  /\ connections \in 1 .. MaxConnections

(* A thread comes to a handler with an empty list and to the lock with an entry. *)
ListFollowsPc ==
  \A t \in IoThreads :
    /\ pc[t] \in {"gqcs", "move", "post"} => sendList[t] = 0
    /\ pc[t] = "flushLocked" => sendList[t] = 1

KernelHasFront ==
  inFlight # NoSend =>
    /\ mSendPendingCount = 1
    /\ inFlight.at = buf.aPtr /\ inFlight.len \in 1 .. buf.aSize
    /\ \A i \in 1 .. inFlight.len : buf.mem[inFlight.at + i - 1] = inFlight.data[i]

Prefix ==
  /\ Len(received) <= Len(posted)
  /\ \A k \in 1 .. Len(received) : received[k] = posted[k]

RestInBuffer ==
  mConnected = 1 \/ inFlight # NoSend =>
    /\ Len(received) + (buf.aSize + buf.bSize) = Len(posted)
    /\ \A k \in 1 .. buf.aSize + buf.bSize : posted[Len(received) + k] = BP!ByteAt(buf, k)

WithKernel == IF inFlight = NoSend THEN 0 ELSE inFlight.len

RegionsListed ==
  mConnected = 1 /\ (\A t \in IoThreads : pc[t] # "close") =>
    /\ buf.aSize > WithKernel \/ buf.bSize > 0 => \E t \in IoThreads : sendList[t] > 0
    /\ buf.aSize > WithKernel /\ buf.bSize > 0 =>
         \E t, u \in IoThreads : t # u /\ sendList[t] > 0 /\ sendList[u] > 0

IInv == Typed /\ ListFollowsPc /\ KernelHasFront /\ Prefix /\ RestInBuffer /\ RegionsListed

-----------------------------------------------------------------------------
(* The buffer of SendPath is the one the lemmas about CircularBuffer are of. *)
LEMMA SameBuffer ==
  /\ \A b, data : Buffer!Write(b, data) = BP!Write(b, data)
  /\ \A b : Buffer!FreeSpace(b) = BP!FreeSpace(b)
  /\ \A b, n : Buffer!Remove(b, n) = BP!Remove(b, n)
  /\ \A b : Buffer!BufferReset(b) = BP!BufferReset(b)
  /\ \A b : Buffer!Contents(b) = BP!Contents(b)
<1>1. \A b : Buffer!AfterSizing(b) = BP!AfterSizing(b)
  BY DEF Buffer!AfterSizing, BP!AfterSizing, Buffer!Null, BP!Null, Buffer!AllocateB, BP!AllocateB,
         Buffer!GetAFreeSpace, BP!GetAFreeSpace, Buffer!GetSpaceBeforeA, BP!GetSpaceBeforeA
<1>2. \A b : Buffer!FreeSpace(b) = BP!FreeSpace(b)
  BY <1>1 DEF Buffer!FreeSpace, BP!FreeSpace, Buffer!Null, BP!Null,
         Buffer!GetAFreeSpace, BP!GetAFreeSpace, Buffer!GetBFreeSpace, BP!GetBFreeSpace
<1>3. \A b, data : Buffer!Copy(b, data) = BP!Copy(b, data)
  BY DEF Buffer!Copy, BP!Copy, Buffer!GetBuffer, BP!GetBuffer, Buffer!Null, BP!Null
<1>4. \A b, n : Buffer!Commit(b, n) = BP!Commit(b, n)
  BY DEF Buffer!Commit, BP!Commit, Buffer!Null, BP!Null
<1>5. \A b, data : Buffer!Write(b, data) = BP!Write(b, data)
  BY <1>1, <1>2, <1>3, <1>4 DEF Buffer!Write, BP!Write
<1>6. \A b, n : Buffer!Drop(b, n) = BP!Drop(b, n)
  BY DEF Buffer!Drop, BP!Drop, Buffer!Min2, BP!Min2
<1>7. \A b : Buffer!SwitchToB(b) = BP!SwitchToB(b)
  BY DEF Buffer!SwitchToB, BP!SwitchToB, Buffer!Null, BP!Null
<1>8. \A b : Buffer!Empty(b) = BP!Empty(b)
  BY DEF Buffer!Empty, BP!Empty, Buffer!Null, BP!Null
<1>9. \A b, n : Buffer!Remove(b, n) = BP!Remove(b, n)
  BY <1>6, <1>7, <1>8 DEF Buffer!Remove, BP!Remove
<1>10. \A b : Buffer!BufferReset(b) = BP!BufferReset(b)
  BY <1>8 DEF Buffer!BufferReset, BP!BufferReset
<1>11. \A b : Buffer!Contents(b) = BP!Contents(b)
  BY DEF Buffer!Contents, BP!Contents
<1>. QED
  BY <1>2, <1>5, <1>9, <1>10, <1>11

(* The numbers of a well-formed buffer. *)
LEMMA BufferNumbers ==
  ASSUME NEW b, BP!BufferOK(b)
  PROVE  /\ b.aSize \in 0 .. Capacity /\ b.bSize \in 0 .. Capacity /\ b.aPtr \in 0 .. Capacity
         /\ b.aPtr + b.aSize <= Capacity
         /\ b.aSize = 0 => b.bSize = 0
         /\ b.mem \in [0 .. Capacity - 1 -> 0 .. 2]
         /\ \A k \in 1 .. b.aSize : /\ BP!ByteAt(b, k) = b.mem[b.aPtr + k - 1]
                                    /\ BP!ByteAt(b, k) \in 0 .. 2
<1>1. /\ b.aSize \in 0 .. Capacity /\ b.bSize \in 0 .. Capacity /\ b.aPtr \in 0 .. Capacity
      /\ b.aPtr + b.aSize <= Capacity
      /\ b.aSize = 0 => b.bSize = 0
      /\ b.mem \in [0 .. Capacity - 1 -> 0 .. 2]
  BY DEF BP!BufferOK
<1>2. ASSUME NEW k \in 1 .. b.aSize
      PROVE  BP!ByteAt(b, k) = b.mem[b.aPtr + k - 1] /\ BP!ByteAt(b, k) \in 0 .. 2
  <2>1. k <= b.aSize /\ b.aPtr + k - 1 \in 0 .. Capacity - 1
    BY <1>1, SendPathAssumption
  <2>. QED
    BY <1>1, <2>1 DEF BP!ByteAt
<1>. QED
  BY <1>1, <1>2

(* What PostSend or Handle_SC_MOVE does to the buffer. *)
LEMMA WriteEffect ==
  ASSUME NEW b, BP!BufferOK(b), NEW data \in [1 .. ReplyLen -> 0 .. 2]
  PROVE  LET e == Buffer!Write(b, data)
         IN  /\ BP!BufferOK(e)
             /\ e.aPtr = b.aPtr
             /\ b.aSize > 0 => e.aSize >= b.aSize
             /\ \A i \in 0 .. b.aSize - 1 : e.mem[b.aPtr + i] = b.mem[b.aPtr + i]
             /\ \A k \in 1 .. b.aSize + b.bSize : BP!ByteAt(e, k) = BP!ByteAt(b, k)
<1>1. ReplyLen \in Nat /\ Capacity \in Nat \ {0}
  BY SendPathAssumption
<1>2. BP!BufferOK(BP!Write(b, data))
  BY <1>1, BP!WriteOK
<1>3. /\ BP!Write(b, data).aPtr = b.aPtr
      /\ b.aSize > 0 => BP!Write(b, data).aSize >= b.aSize
      /\ \A i \in 0 .. b.aSize - 1 : BP!Write(b, data).mem[b.aPtr + i] = b.mem[b.aPtr + i]
      /\ \A k \in 1 .. BP!GetStoredSize(b) : BP!ByteAt(BP!Write(b, data), k) = BP!ByteAt(b, k)
  BY <1>1, BP!WriteAppends
<1>. QED
  BY <1>2, <1>3, SameBuffer DEF BP!GetStoredSize

LEMMA WriteOutcome ==
  ASSUME NEW b, BP!BufferOK(b), NEW data \in [1 .. ReplyLen -> 0 .. 2]
  PROVE  LET e == Buffer!Write(b, data)
         IN  /\ Buffer!FreeSpace(b) < ReplyLen => e.aSize = b.aSize /\ e.bSize = b.bSize
             /\ ~(Buffer!FreeSpace(b) < ReplyLen) =>
                  /\ e.aSize + e.bSize = (b.aSize + b.bSize) + ReplyLen
                  /\ e.aSize = b.aSize \/ e.bSize = b.bSize
                  /\ \A k \in 1 .. ReplyLen : BP!ByteAt(e, (b.aSize + b.bSize) + k) = data[k]
<1>1. ReplyLen \in Nat /\ Capacity \in Nat \ {0} /\ Len(data) = ReplyLen
  BY SendPathAssumption
<1>2. ASSUME BP!FreeSpace(b) < Len(data)
      PROVE  BP!Write(b, data).aSize = b.aSize /\ BP!Write(b, data).bSize = b.bSize
  BY <1>1, <1>2, BP!WriteRefused
<1>3. ASSUME ~(BP!FreeSpace(b) < Len(data))
      PROVE  /\ BP!Write(b, data).aSize + BP!Write(b, data).bSize = (b.aSize + b.bSize) + ReplyLen
             /\ BP!Write(b, data).aSize = b.aSize \/ BP!Write(b, data).bSize = b.bSize
             /\ \A k \in 1 .. ReplyLen :
                  BP!ByteAt(BP!Write(b, data), (b.aSize + b.bSize) + k) = data[k]
  BY <1>1, <1>3, BP!WriteCommits
<1>. QED
  BY <1>1, <1>2, <1>3, SameBuffer

(* What SendCompletion does to the buffer. *)
LEMMA RemoveEffect ==
  ASSUME NEW b, BP!BufferOK(b), NEW n \in 1 .. b.aSize
  PROVE  LET e == Buffer!Remove(b, n)
         IN  /\ BP!BufferOK(e)
             /\ n < b.aSize => e.aSize = b.aSize - n /\ e.bSize = b.bSize
             /\ n = b.aSize => e.aSize = b.bSize /\ e.bSize = 0
             /\ e.aSize + e.bSize = (b.aSize + b.bSize) - n
             /\ \A k \in 1 .. e.aSize + e.bSize : BP!ByteAt(e, k) = BP!ByteAt(b, n + k)
<1>1. Capacity \in Nat \ {0} /\ n \in Nat
  BY SendPathAssumption, BufferNumbers
<1>2. /\ BP!Removed(b, n) = n
      /\ n < b.aSize => BP!Remove(b, n).aSize = b.aSize - n /\ BP!Remove(b, n).bSize = b.bSize
      /\ n = b.aSize => BP!Remove(b, n).aSize = b.bSize /\ BP!Remove(b, n).bSize = 0
  BY <1>1, BP!RemoveFromA
<1>3. /\ BP!BufferOK(BP!Remove(b, n))
      /\ BP!GetStoredSize(BP!Remove(b, n)) = BP!GetStoredSize(b) - BP!Removed(b, n)
      /\ \A k \in 1 .. BP!GetStoredSize(BP!Remove(b, n)) :
           BP!ByteAt(BP!Remove(b, n), k) = BP!ByteAt(b, BP!Removed(b, n) + k)
  BY <1>1, BP!RemoveOK
<1>. QED
  BY <1>2, <1>3, SameBuffer DEF BP!GetStoredSize

LEMMA ResetEffect ==
  ASSUME NEW b, BP!BufferOK(b)
  PROVE  LET e == Buffer!BufferReset(b)
         IN  BP!BufferOK(e) /\ e.aSize = 0 /\ e.bSize = 0
BY BP!BufferResetOK, SameBuffer, SendPathAssumption

-----------------------------------------------------------------------------
(* Steps that touch neither the buffer nor the send that is pending. *)
LEMMA StreamFrame ==
  ASSUME IInv, UNCHANGED <<buf, inFlight, mSendPendingCount, posted, received>>,
         mConnected' = 1 => mConnected = 1
  PROVE  KernelHasFront' /\ Prefix' /\ RestInBuffer'
BY DEF IInv, KernelHasFront, Prefix, RestInBuffer

LEMMA ListedFrame ==
  ASSUME IInv, UNCHANGED <<buf, inFlight>>, mConnected' = 1 => mConnected = 1,
         mConnected' = 1 => \A t \in IoThreads : /\ pc[t] = "close" => pc'[t] = "close"
                                                 /\ sendList[t] > 0 => sendList'[t] > 0
  PROVE  RegionsListed'
BY DEF IInv, RegionsListed, WithKernel

(* A step of thread t to another place that leaves its list alone. *)
LEMMA Goes ==
  ASSUME IInv, NEW t \in IoThreads, NEW there \in PcValues, Go(t, there), UNCHANGED sendList,
         there \in {"gqcs", "move", "post"} => sendList[t] = 0,
         there = "flushLocked" => sendList[t] = 1
  PROVE  /\ pc' \in [IoThreads -> PcValues]
         /\ sendList' \in [IoThreads -> 0 .. 1]
         /\ ListFollowsPc'
         /\ \A u \in IoThreads : u # t => pc'[u] = pc[u]
         /\ pc'[t] = there
BY DEF IInv, Typed, ListFollowsPc, Go

(* ... and one that takes an entry off it. *)
LEMMA Pops ==
  ASSUME IInv, NEW t \in IoThreads, pc' = [pc EXCEPT ![t] = "flush"], sendList[t] > 0,
         PopFront(t)
  PROVE  /\ pc' \in [IoThreads -> PcValues]
         /\ sendList' \in [IoThreads -> 0 .. 1]
         /\ ListFollowsPc'
         /\ \A u \in IoThreads : u # t => pc'[u] = pc[u] /\ sendList'[u] = sendList[u]
         /\ pc'[t] = "flush"
<1>1. sendList[t] = 1
  BY DEF IInv, Typed
<1>2. /\ sendList' = [sendList EXCEPT ![t] = 0]
      /\ "flush" \in PcValues
  BY <1>1 DEF PopFront, PcValues
<1>. QED
  BY <1>2 DEF IInv, Typed, ListFollowsPc

LEMMA TimeoutStep == ASSUME IInv, NEW t \in IoThreads, Timeout(t) PROVE IInv'
<1>1. pc[t] = "gqcs" /\ Go(t, "flush") /\ "flush" \in PcValues
  BY DEF Timeout, At, PcValues
<1>2. /\ UNCHANGED <<buf, mConnected, mSendPendingCount, inFlight, recvPosted>>
      /\ UNCHANGED <<sendList, posted, received, connections>>
  BY DEF Timeout
<1>3. /\ pc' \in [IoThreads -> PcValues] /\ sendList' \in [IoThreads -> 0 .. 1]
      /\ ListFollowsPc'
      /\ \A u \in IoThreads : u # t => pc'[u] = pc[u]
  BY <1>1, <1>2, Goes
<1>4. Typed'
  BY <1>2, <1>3 DEF IInv, Typed
<1>5. KernelHasFront' /\ Prefix' /\ RestInBuffer'
  BY <1>2, StreamFrame
<1>6. RegionsListed'
  BY <1>1, <1>2, <1>3, ListedFrame
<1>. QED
  BY <1>3, <1>4, <1>5, <1>6 DEF IInv

LEMMA RecvCompletionStep == ASSUME IInv, NEW t \in IoThreads, RecvCompletion(t) PROVE IInv'
<1>1. pc[t] = "gqcs" /\ Go(t, "move") /\ "move" \in PcValues /\ sendList[t] = 0
  BY DEF RecvCompletion, At, PcValues, IInv, ListFollowsPc
<1>2. /\ UNCHANGED <<buf, mConnected, mSendPendingCount, inFlight>> /\ recvPosted' = FALSE
      /\ UNCHANGED <<sendList, posted, received, connections>>
  BY DEF RecvCompletion
<1>3. /\ pc' \in [IoThreads -> PcValues] /\ sendList' \in [IoThreads -> 0 .. 1]
      /\ ListFollowsPc'
      /\ \A u \in IoThreads : u # t => pc'[u] = pc[u]
  BY <1>1, <1>2, Goes
<1>4. Typed'
  <2>1. recvPosted' \in BOOLEAN
    BY <1>2
  <2>. QED
    BY <1>2, <1>3, <2>1 DEF IInv, Typed
<1>5. KernelHasFront' /\ Prefix' /\ RestInBuffer'
  BY <1>2, StreamFrame
<1>6. RegionsListed'
  BY <1>1, <1>2, <1>3, ListedFrame
<1>. QED
  BY <1>3, <1>4, <1>5, <1>6 DEF IInv

LEMMA RecvErrorStep == ASSUME IInv, NEW t \in IoThreads, RecvError(t) PROVE IInv'
<1>1. pc[t] = "gqcs" /\ Go(t, "flush") /\ "flush" \in PcValues
  BY DEF RecvError, At, PcValues
<1>2. /\ UNCHANGED <<buf, mSendPendingCount, inFlight>> /\ recvPosted' = FALSE
      /\ mConnected' = 0
      /\ UNCHANGED <<sendList, posted, received, connections>>
  BY DEF RecvError, DisconnectRequest
<1>3. /\ pc' \in [IoThreads -> PcValues] /\ sendList' \in [IoThreads -> 0 .. 1]
      /\ ListFollowsPc'
      /\ \A u \in IoThreads : u # t => pc'[u] = pc[u]
  BY <1>1, <1>2, Goes
<1>4. Typed'
  <2>1. recvPosted' \in BOOLEAN
    BY <1>2
  <2>. QED
    BY <1>2, <1>3, <2>1 DEF IInv, Typed
<1>5. KernelHasFront' /\ Prefix' /\ RestInBuffer'
  BY <1>2, StreamFrame
<1>6. RegionsListed'
  BY <1>2, ListedFrame
<1>. QED
  BY <1>3, <1>4, <1>5, <1>6 DEF IInv

LEMMA Handle_SC_MOVEStep == ASSUME IInv, NEW t \in IoThreads, Handle_SC_MOVE(t) PROVE IInv'
<1> DEFINE there == IF mConnected = 1 THEN "post" ELSE "preRecv"
<1>1. pc[t] = "move" /\ Go(t, there) /\ sendList[t] = 0
  BY DEF Handle_SC_MOVE, At, IInv, ListFollowsPc
<1>2. there \in PcValues /\ there # "flushLocked"
  BY DEF PcValues
<1>3. /\ UNCHANGED <<buf, mConnected, mSendPendingCount, inFlight, recvPosted>>
      /\ UNCHANGED <<sendList, posted, received, connections>>
  BY DEF Handle_SC_MOVE
<1>. HIDE DEF there
<1>4. /\ pc' \in [IoThreads -> PcValues] /\ sendList' \in [IoThreads -> 0 .. 1]
      /\ ListFollowsPc'
      /\ \A u \in IoThreads : u # t => pc'[u] = pc[u]
  BY <1>1, <1>2, <1>3, Goes
<1>5. Typed'
  BY <1>3, <1>4 DEF IInv, Typed
<1>6. KernelHasFront' /\ Prefix' /\ RestInBuffer'
  BY <1>3, StreamFrame
<1>7. RegionsListed'
  BY <1>1, <1>3, <1>4, ListedFrame
<1>. QED
  BY <1>4, <1>5, <1>6, <1>7 DEF IInv

LEMMA PreRecvStep == ASSUME IInv, NEW t \in IoThreads, PreRecv(t) PROVE IInv'
<1> DEFINE there == IF mConnected = 1 THEN "flush" ELSE "close"
<1>1. pc[t] = "preRecv" /\ Go(t, there)
  BY DEF PreRecv, At, Go
<1>2. there \in PcValues /\ there \notin {"gqcs", "move", "post", "flushLocked"}
  BY DEF PcValues
<1>3. /\ UNCHANGED <<buf, mConnected, mSendPendingCount, inFlight>>
      /\ UNCHANGED <<sendList, posted, received, connections>>
  BY DEF PreRecv
<1>4. recvPosted' \in BOOLEAN
  BY DEF PreRecv, IInv, Typed
<1>. HIDE DEF there
<1>5. /\ pc' \in [IoThreads -> PcValues] /\ sendList' \in [IoThreads -> 0 .. 1]
      /\ ListFollowsPc'
      /\ \A u \in IoThreads : u # t => pc'[u] = pc[u]
  BY <1>1, <1>2, <1>3, Goes
<1>6. Typed'
  BY <1>3, <1>4, <1>5 DEF IInv, Typed
<1>7. KernelHasFront' /\ Prefix' /\ RestInBuffer'
  BY <1>3, StreamFrame
<1>8. RegionsListed'
  BY <1>1, <1>3, <1>5, ListedFrame
<1>. QED
  BY <1>5, <1>6, <1>7, <1>8 DEF IInv

LEMMA CloseOnErrorStep == ASSUME IInv, NEW t \in IoThreads, CloseOnError(t) PROVE IInv'
<1>1. Go(t, "flush") /\ "flush" \in PcValues
  BY DEF CloseOnError, PcValues
<1>2. /\ UNCHANGED <<buf, mSendPendingCount, inFlight, recvPosted>> /\ mConnected' = 0
      /\ UNCHANGED <<sendList, posted, received, connections>>
  BY DEF CloseOnError, DisconnectRequest
<1>3. /\ pc' \in [IoThreads -> PcValues] /\ sendList' \in [IoThreads -> 0 .. 1]
      /\ ListFollowsPc'
  BY <1>1, <1>2, Goes
<1>4. Typed'
  BY <1>2, <1>3 DEF IInv, Typed
<1>5. KernelHasFront' /\ Prefix' /\ RestInBuffer'
  BY <1>2, StreamFrame
<1>6. RegionsListed'
  BY <1>2, ListedFrame
<1>. QED
  BY <1>3, <1>4, <1>5, <1>6 DEF IInv

LEMMA DoSendJobDoneStep == ASSUME IInv, NEW t \in IoThreads, DoSendJobDone(t) PROVE IInv'
<1>1. pc[t] = "flush" /\ Go(t, "gqcs") /\ "gqcs" \in PcValues /\ sendList[t] = 0
  BY DEF DoSendJobDone, At, PcValues
<1>2. /\ UNCHANGED <<buf, mConnected, mSendPendingCount, inFlight, recvPosted>>
      /\ UNCHANGED <<sendList, posted, received, connections>>
  BY DEF DoSendJobDone
<1>3. /\ pc' \in [IoThreads -> PcValues] /\ sendList' \in [IoThreads -> 0 .. 1]
      /\ ListFollowsPc'
      /\ \A u \in IoThreads : u # t => pc'[u] = pc[u]
  BY <1>1, <1>2, Goes
<1>4. Typed'
  BY <1>2, <1>3 DEF IInv, Typed
<1>5. KernelHasFront' /\ Prefix' /\ RestInBuffer'
  BY <1>2, StreamFrame
<1>6. RegionsListed'
  BY <1>1, <1>2, <1>3, ListedFrame
<1>. QED
  BY <1>3, <1>4, <1>5, <1>6 DEF IInv

LEMMA FlushSendStep == ASSUME IInv, NEW t \in IoThreads, FlushSend(t) PROVE IInv'
<1>1. pc[t] = "flush" /\ sendList[t] > 0
  BY DEF FlushSend, At
<1>2. /\ UNCHANGED <<buf, mConnected, mSendPendingCount, inFlight, recvPosted>>
      /\ UNCHANGED <<posted, received, connections>>
  BY DEF FlushSend
<1>3. KernelHasFront' /\ Prefix' /\ RestInBuffer'
  BY <1>2, StreamFrame
<1>4. CASE mConnected = 1
  <2>1. Go(t, "flushLocked") /\ UNCHANGED sendList /\ "flushLocked" \in PcValues
    BY <1>4 DEF FlushSend, PcValues
  <2>2. sendList[t] = 1
    BY <1>1 DEF IInv, Typed
  <2>3. /\ pc' \in [IoThreads -> PcValues] /\ sendList' \in [IoThreads -> 0 .. 1]
        /\ ListFollowsPc'
        /\ \A u \in IoThreads : u # t => pc'[u] = pc[u]
    BY <2>1, <2>2, Goes
  <2>4. Typed'
    BY <1>2, <2>3 DEF IInv, Typed
  <2>5. RegionsListed'
    BY <1>1, <1>2, <2>1, <2>3, ListedFrame
  <2>. QED
    BY <1>3, <2>3, <2>4, <2>5 DEF IInv
<1>5. CASE mConnected # 1
  <2>1. PopFront(t) /\ UNCHANGED pc
    BY <1>5 DEF FlushSend
  <2>2. pc' = [pc EXCEPT ![t] = "flush"]
    BY <1>1, <2>1 DEF IInv, Typed
  <2>3. /\ pc' \in [IoThreads -> PcValues] /\ sendList' \in [IoThreads -> 0 .. 1]
        /\ ListFollowsPc'
    BY <1>1, <2>1, <2>2, Pops
  <2>4. Typed'
    BY <1>2, <2>3 DEF IInv, Typed
  <2>5. RegionsListed'
    BY <1>2, <1>5, ListedFrame
  <2>. QED
    BY <1>3, <2>3, <2>4, <2>5 DEF IInv
<1>. QED
  BY <1>4, <1>5

LEMMA FlushAgainStep == ASSUME IInv, NEW t \in IoThreads, FlushAgain(t) PROVE IInv'
<1>1. pc[t] = "flushLocked" /\ Go(t, "flush") /\ "flush" \in PcValues
  BY DEF FlushAgain, At, PcValues
<1>2. /\ UNCHANGED <<buf, mConnected, mSendPendingCount, inFlight, recvPosted>>
      /\ UNCHANGED <<sendList, posted, received, connections>>
  BY DEF FlushAgain
<1>3. /\ pc' \in [IoThreads -> PcValues] /\ sendList' \in [IoThreads -> 0 .. 1]
      /\ ListFollowsPc'
      /\ \A u \in IoThreads : u # t => pc'[u] = pc[u]
  BY <1>1, <1>2, Goes
<1>4. Typed'
  BY <1>2, <1>3 DEF IInv, Typed
<1>5. KernelHasFront' /\ Prefix' /\ RestInBuffer'
  BY <1>2, StreamFrame
<1>6. RegionsListed'
  BY <1>1, <1>2, <1>3, ListedFrame
<1>. QED
  BY <1>3, <1>4, <1>5, <1>6 DEF IInv

(* An empty region A means an empty buffer: with nothing to send, no reply is left. *)
LEMMA NothingIsNothing ==
  ASSUME IInv
  PROVE  /\ NothingToSend <=> buf.aSize = 0
         /\ NothingToSend => buf.bSize = 0
         /\ ~NothingToSend => /\ Buffer!GetBufferStart(buf) = buf.aPtr
                              /\ Buffer!GetContiguiousBytes(buf) = buf.aSize
                              /\ buf.aSize \in 1 .. Capacity
<1>1. /\ buf.aSize \in 0 .. Capacity /\ buf.bSize \in 0 .. Capacity
      /\ buf.aSize = 0 => buf.bSize = 0
  BY BufferNumbers DEF IInv, Typed
<1>2. Capacity \in Nat
  BY SendPathAssumption
<1>. QED
  BY <1>1, <1>2 DEF NothingToSend, Buffer!GetBufferStart, Buffer!GetContiguiousBytes

LEMMA FlushNothingStep == ASSUME IInv, NEW t \in IoThreads, FlushNothing(t) PROVE IInv'
<1>1. pc[t] = "flushLocked" /\ pc' = [pc EXCEPT ![t] = "flush"] /\ PopFront(t) /\ NothingToSend
      /\ mSendPendingCount = 0
  BY DEF FlushNothing, At, Go
<1>2. /\ UNCHANGED <<buf, mConnected, mSendPendingCount, inFlight, recvPosted>>
      /\ UNCHANGED <<posted, received, connections>>
  BY DEF FlushNothing
<1>3. sendList[t] > 0
  BY <1>1 DEF IInv, ListFollowsPc
<1>4. /\ pc' \in [IoThreads -> PcValues] /\ sendList' \in [IoThreads -> 0 .. 1]
      /\ ListFollowsPc'
  BY <1>1, <1>3, Pops
<1>5. Typed'
  BY <1>2, <1>4 DEF IInv, Typed
<1>6. KernelHasFront' /\ Prefix' /\ RestInBuffer'
  BY <1>2, StreamFrame
<1>7. RegionsListed'
  <2>1. inFlight = NoSend
    BY <1>1 DEF IInv, KernelHasFront
  <2>2. buf.aSize = 0 /\ buf.bSize = 0
    BY <1>1, NothingIsNothing
  <2>3. WithKernel' = 0 /\ buf'.aSize = 0 /\ buf'.bSize = 0
    BY <1>2, <2>1, <2>2 DEF WithKernel
  <2>. QED
    BY <2>3 DEF RegionsListed
<1>. QED
  BY <1>4, <1>5, <1>6, <1>7 DEF IInv

LEMMA FlushFailsStep == ASSUME IInv, NEW t \in IoThreads, FlushFails(t) PROVE IInv'
<1>1. pc[t] = "flushLocked" /\ pc' = [pc EXCEPT ![t] = "flush"] /\ PopFront(t)
  BY DEF FlushFails, At, Go
<1>2. /\ UNCHANGED <<buf, mSendPendingCount, inFlight, recvPosted>> /\ mConnected' = 0
      /\ UNCHANGED <<posted, received, connections>>
  BY DEF FlushFails, DisconnectRequest
<1>3. sendList[t] > 0
  BY <1>1 DEF IInv, ListFollowsPc
<1>4. /\ pc' \in [IoThreads -> PcValues] /\ sendList' \in [IoThreads -> 0 .. 1]
      /\ ListFollowsPc'
  BY <1>1, <1>3, Pops
<1>5. Typed'
  BY <1>2, <1>4 DEF IInv, Typed
<1>6. KernelHasFront' /\ Prefix' /\ RestInBuffer'
  BY <1>2, StreamFrame
<1>7. RegionsListed'
  BY <1>2, ListedFrame
<1>. QED
  BY <1>4, <1>5, <1>6, <1>7 DEF IInv

LEMMA FlushIssueStep == ASSUME IInv, NEW t \in IoThreads, FlushIssue(t) PROVE IInv'
<1> DEFINE data == [i \in 1 .. buf.aSize |-> buf.mem[buf.aPtr + i - 1]]
           send == [at |-> buf.aPtr, len |-> buf.aSize, data |-> data]
<1>1. /\ pc[t] = "flushLocked" /\ pc' = [pc EXCEPT ![t] = "flush"] /\ PopFront(t)
      /\ ~NothingToSend /\ mSendPendingCount = 0 /\ mConnected = 1
  BY DEF FlushIssue, At, Go
<1>2. /\ UNCHANGED <<buf, mConnected, recvPosted>> /\ mSendPendingCount' = 1
      /\ UNCHANGED <<posted, received, connections>>
  BY <1>1 DEF FlushIssue
<1>3. /\ Buffer!GetBufferStart(buf) = buf.aPtr /\ Buffer!GetContiguiousBytes(buf) = buf.aSize
      /\ buf.aSize \in 1 .. Capacity
  BY <1>1, NothingIsNothing
<1>4. inFlight' = send
  BY <1>3 DEF FlushIssue
<1>5. /\ buf.aPtr \in 0 .. Capacity /\ buf.aPtr + buf.aSize <= Capacity /\ Capacity \in Nat
      /\ buf.mem \in [0 .. Capacity - 1 -> 0 .. 2] /\ buf.bSize \in 0 .. Capacity
  BY BufferNumbers, SendPathAssumption DEF IInv, Typed
<1>6. data \in Seq(0 .. 2) /\ \A i \in 1 .. buf.aSize : data[i] = buf.mem[buf.aPtr + i - 1]
  <2>1. \A i \in 1 .. buf.aSize : buf.mem[buf.aPtr + i - 1] \in 0 .. 2
    BY <1>3, <1>5, SMTT(60)
  <2>2. data \in [1 .. buf.aSize -> 0 .. 2]
    BY <2>1
  <2>3. \A i \in 1 .. buf.aSize : data[i] = buf.mem[buf.aPtr + i - 1]
    OBVIOUS
  <2>4. buf.aSize \in Nat
    BY <1>3, <1>5
  <2>. HIDE DEF data
  <2>5. data \in Seq(0 .. 2)
    BY <2>2, <2>4
  <2>. QED
    BY <2>3, <2>5
<1>. HIDE DEF data
<1>7. send \in Sends /\ send # NoSend
  <2>1. send \in Sends
    BY <1>3, <1>5, <1>6 DEF Sends
  <2>. QED
    BY <2>1, SendPathAssumption DEF Sends
<1>8. sendList[t] > 0
  BY <1>1 DEF IInv, ListFollowsPc
<1>9. /\ pc' \in [IoThreads -> PcValues] /\ sendList' \in [IoThreads -> 0 .. 1]
      /\ ListFollowsPc'
      /\ \A u \in IoThreads : u # t => pc'[u] = pc[u] /\ sendList'[u] = sendList[u]
  BY <1>1, <1>8, Pops
<1>10. Typed'
  BY <1>2, <1>4, <1>7, <1>9 DEF IInv, Typed
<1>11. KernelHasFront'
  <2>1. inFlight'.at = buf.aPtr /\ inFlight'.len = buf.aSize /\ inFlight'.data = data
    BY <1>4
  <2>2. buf.aSize \in 1 .. buf.aSize
    BY <1>3, <1>5
  <2>3. \A i \in 1 .. inFlight'.len : buf'.mem[inFlight'.at + i - 1] = inFlight'.data[i]
    BY <1>2, <1>6, <2>1
  <2>. QED
    BY <1>2, <2>1, <2>2, <2>3 DEF KernelHasFront
<1>12. Prefix' /\ RestInBuffer'
  BY <1>1, <1>2 DEF IInv, Prefix, RestInBuffer
<1>13. RegionsListed'
  <2>1. WithKernel = 0 /\ WithKernel' = buf.aSize
    BY <1>1, <1>4, <1>7 DEF IInv, KernelHasFront, WithKernel
  <2>2. ASSUME \A u \in IoThreads : pc'[u] # "close", buf.bSize > 0
        PROVE  \E u \in IoThreads : sendList'[u] > 0
    <3>1. \A u \in IoThreads : pc[u] # "close"
      BY <1>1, <1>9, <2>2
    <3>2. \E u, v \in IoThreads : u # v /\ sendList[u] > 0 /\ sendList[v] > 0
      BY <1>1, <1>3, <2>1, <2>2, <3>1 DEF IInv, RegionsListed
    <3>. QED
      BY <1>9, <3>2
  <2>3. ~(buf'.aSize > WithKernel')
    BY <1>2, <1>3, <2>1
  <2>. QED
    BY <1>2, <2>2, <2>3 DEF RegionsListed
<1>. QED
  BY <1>9, <1>10, <1>11, <1>12, <1>13 DEF IInv

-----------------------------------------------------------------------------
(* One sequence behind another. *)
LEMMA Appended ==
  ASSUME NEW S, NEW s \in Seq(S), NEW r \in Seq(S)
  PROVE  /\ s \o r \in Seq(S)
         /\ Len(s \o r) = Len(s) + Len(r)
         /\ \A k \in 1 .. Len(s) + Len(r) :
              (s \o r)[k] = IF k <= Len(s) THEN s[k] ELSE r[k - Len(s)]
OBVIOUS

(* The n bytes the kernel reads are the next n of the stream. *)
LEMMA Transmitted ==
  ASSUME IInv, inFlight # NoSend, NEW n \in 0 .. inFlight.len, Transmit(n)
  PROVE  /\ n \in 0 .. buf.aSize
         /\ received' \in Seq(0 .. 2)
         /\ Len(received') = Len(received) + n
         /\ Len(received') <= Len(posted)
         /\ \A k \in 1 .. Len(received') : received'[k] = posted[k]
<1> DEFINE sent == [i \in 1 .. n |-> buf.mem[inFlight.at + i - 1]]
<1>1. /\ inFlight.at = buf.aPtr /\ inFlight.len \in 1 .. buf.aSize
      /\ Len(received) + (buf.aSize + buf.bSize) = Len(posted)
      /\ \A k \in 1 .. buf.aSize + buf.bSize : posted[Len(received) + k] = BP!ByteAt(buf, k)
      /\ \A k \in 1 .. Len(received) : received[k] = posted[k]
      /\ posted \in Seq(0 .. 2) /\ received \in Seq(0 .. 2)
  BY DEF IInv, Typed, KernelHasFront, Prefix, RestInBuffer
<1>2. /\ buf.aSize \in 0 .. Capacity /\ buf.bSize \in 0 .. Capacity /\ Capacity \in Nat
      /\ \A k \in 1 .. buf.aSize : /\ BP!ByteAt(buf, k) = buf.mem[buf.aPtr + k - 1]
                                   /\ BP!ByteAt(buf, k) \in 0 .. 2
  BY BufferNumbers, SendPathAssumption DEF IInv, Typed
<1>3. n \in Nat /\ n <= buf.aSize /\ Len(received) \in Nat
  BY <1>1, <1>2
<1>4. \A i \in 1 .. n : sent[i] = BP!ByteAt(buf, i) /\ sent[i] \in 0 .. 2
  <2>. TAKE i \in 1 .. n
  <2>1. i \in 1 .. buf.aSize
    BY <1>2, <1>3
  <2>2. sent[i] = buf.mem[buf.aPtr + i - 1]
    BY <1>1
  <2>. HIDE DEF sent
  <2>. QED
    BY <1>2, <2>1, <2>2
<1>5. sent \in [1 .. n -> 0 .. 2]
  BY <1>4
<1>6. received' = received \o sent
  BY DEF Transmit
<1>. HIDE DEF sent
<1>7. sent \in Seq(0 .. 2) /\ Len(sent) = n
  BY <1>3, <1>5
<1>8. /\ received' \in Seq(0 .. 2) /\ Len(received') = Len(received) + n
      /\ \A k \in 1 .. Len(received) + n :
           received'[k] = IF k <= Len(received) THEN received[k] ELSE sent[k - Len(received)]
  BY <1>1, <1>3, <1>6, <1>7, Appended
<1>9. ASSUME NEW k \in 1 .. Len(received) + n
      PROVE  received'[k] = posted[k]
  <2>1. CASE k <= Len(received)
    BY <1>1, <1>3, <1>8, <2>1
  <2>2. CASE ~(k <= Len(received))
    <3> DEFINE j == k - Len(received)
    <3>1. j \in 1 .. n /\ j \in 1 .. buf.aSize + buf.bSize /\ Len(received) + j = k
      BY <1>2, <1>3, <2>2
    <3>2. received'[k] = sent[j]
      BY <1>8, <2>2
    <3>. HIDE DEF j
    <3>3. sent[j] = BP!ByteAt(buf, j) /\ posted[Len(received) + j] = BP!ByteAt(buf, j)
      BY <1>1, <1>4, <3>1
    <3>. QED
      BY <3>1, <3>2, <3>3
  <2>. QED
    BY <2>1, <2>2
<1>. QED
  BY <1>1, <1>2, <1>3, <1>8, <1>9

LEMMA SendErrorStep ==
  ASSUME IInv, NEW t \in IoThreads, NEW n \in 0 .. Capacity, SendError(t, n)
  PROVE  IInv'
<1>1. Go(t, "flush") /\ "flush" \in PcValues
  BY DEF SendError, PcValues
<1>2. /\ UNCHANGED <<buf, mSendPendingCount, recvPosted>> /\ mConnected' = 0
      /\ inFlight' = NoSend /\ inFlight # NoSend /\ n \in 0 .. inFlight.len /\ Transmit(n)
      /\ UNCHANGED <<sendList, posted, connections>>
  BY DEF SendError, DisconnectRequest
<1>3. /\ pc' \in [IoThreads -> PcValues] /\ sendList' \in [IoThreads -> 0 .. 1]
      /\ ListFollowsPc'
  BY <1>1, <1>2, Goes
<1>4. received' \in Seq(0 .. 2) /\ Len(received') <= Len(posted)
      /\ \A k \in 1 .. Len(received') : received'[k] = posted[k]
  BY <1>2, Transmitted
<1>5. Typed'
  BY <1>2, <1>3, <1>4 DEF IInv, Typed
<1>6. KernelHasFront' /\ Prefix' /\ RestInBuffer' /\ RegionsListed'
  BY <1>2, <1>4 DEF KernelHasFront, Prefix, RestInBuffer, RegionsListed
<1>. QED
  BY <1>3, <1>5, <1>6 DEF IInv

LEMMA SendCompletionStep ==
  ASSUME IInv, NEW t \in IoThreads, NEW n \in 0 .. Capacity, SendCompletion(t, n)
  PROVE  IInv'
<1> DEFINE there == IF n = inFlight.len THEN "flush" ELSE "close"
<1>1. pc[t] = "gqcs" /\ Go(t, there)
  BY DEF SendCompletion, At
<1>2. there \in PcValues /\ there \notin {"gqcs", "move", "post", "flushLocked"}
      /\ (n # inFlight.len => there = "close")
  BY DEF PcValues
<1>3. /\ UNCHANGED <<mConnected, recvPosted>> /\ mSendPendingCount' = mSendPendingCount - 1
      /\ inFlight' = NoSend /\ inFlight # NoSend /\ n \in 1 .. inFlight.len /\ Transmit(n)
      /\ UNCHANGED <<sendList, posted, connections>>
      /\ buf' = Buffer!Remove(buf, n)
  BY DEF SendCompletion
<1>. HIDE DEF there
<1>4. /\ pc' \in [IoThreads -> PcValues] /\ sendList' \in [IoThreads -> 0 .. 1]
      /\ ListFollowsPc'
      /\ \A u \in IoThreads : u # t => pc'[u] = pc[u]
      /\ pc'[t] = there
  BY <1>1, <1>2, <1>3, Goes
<1>5. /\ BP!BufferOK(buf) /\ posted \in Seq(0 .. 2) /\ received \in Seq(0 .. 2)
      /\ mSendPendingCount = 1 /\ inFlight.len \in 1 .. buf.aSize
      /\ Len(received) + (buf.aSize + buf.bSize) = Len(posted)
      /\ \A k \in 1 .. buf.aSize + buf.bSize : posted[Len(received) + k] = BP!ByteAt(buf, k)
  BY <1>3 DEF IInv, Typed, KernelHasFront, RestInBuffer
<1>6. /\ received' \in Seq(0 .. 2) /\ Len(received') = Len(received) + n
      /\ Len(received') <= Len(posted)
      /\ \A k \in 1 .. Len(received') : received'[k] = posted[k]
  <2>1. n \in 0 .. inFlight.len
    BY <1>3, <1>5
  <2>. QED
    BY <1>3, <2>1, Transmitted
<1>7. /\ buf.aSize \in Nat /\ buf.bSize \in Nat /\ Len(received) \in Nat
      /\ buf.aSize \in 0 .. Capacity
  BY <1>5, BufferNumbers, SendPathAssumption
<1>8. n \in 1 .. buf.aSize /\ n \in Nat
  BY <1>3, <1>5, <1>7
<1>9. /\ BP!BufferOK(buf')
      /\ n < buf.aSize => buf'.aSize = buf.aSize - n /\ buf'.bSize = buf.bSize
      /\ n = buf.aSize => buf'.aSize = buf.bSize /\ buf'.bSize = 0
      /\ buf'.aSize + buf'.bSize = (buf.aSize + buf.bSize) - n
      /\ \A k \in 1 .. buf'.aSize + buf'.bSize : BP!ByteAt(buf', k) = BP!ByteAt(buf, n + k)
  BY <1>3, <1>5, <1>8, RemoveEffect
<1>10. Typed'
  <2>1. mSendPendingCount' = 0
    BY <1>3, <1>5
  <2>2. inFlight' \in Sends \cup {NoSend}
    BY <1>3
  <2>. QED
    BY <1>3, <1>4, <1>6, <1>9, <2>1, <2>2 DEF IInv, Typed
<1>11. KernelHasFront'
  BY <1>3 DEF KernelHasFront
<1>12. Prefix'
  BY <1>3, <1>6 DEF Prefix
<1>13. RestInBuffer'
  <2>1. Len(received') + (buf'.aSize + buf'.bSize) = Len(posted')
    BY <1>3, <1>5, <1>6, <1>7, <1>8, <1>9, SMTT(60)
  <2>2. ASSUME NEW k \in 1 .. buf'.aSize + buf'.bSize
        PROVE  posted'[Len(received') + k] = BP!ByteAt(buf', k)
    <3>1. n + k \in 1 .. buf.aSize + buf.bSize /\ Len(received) + (n + k) = Len(received') + k
      BY <1>6, <1>7, <1>8, <1>9, SMTT(60)
    <3>2. posted[Len(received) + (n + k)] = BP!ByteAt(buf, n + k)
      BY <1>5, <3>1
    <3>. QED
      BY <1>3, <1>9, <3>1, <3>2
  <2>. QED
    BY <2>1, <2>2 DEF RestInBuffer
<1>14. RegionsListed'
  <2>. SUFFICES ASSUME mConnected = 1, \A u \in IoThreads : pc'[u] # "close"
                PROVE  /\ buf'.aSize > 0 \/ buf'.bSize > 0 =>
                            \E u \in IoThreads : sendList[u] > 0
                       /\ buf'.aSize > 0 /\ buf'.bSize > 0 =>
                            \E u, v \in IoThreads : u # v /\ sendList[u] > 0 /\ sendList[v] > 0
    BY <1>3 DEF RegionsListed, WithKernel
  <2>1. n = inFlight.len
    BY <1>2, <1>4
  <2>2. \A u \in IoThreads : pc[u] # "close"
    BY <1>1, <1>4
  <2>3. WithKernel = n
    BY <1>3, <2>1 DEF WithKernel
  <2>4. /\ buf.aSize > n \/ buf.bSize > 0 => \E u \in IoThreads : sendList[u] > 0
        /\ buf.aSize > n /\ buf.bSize > 0 =>
             \E u, v \in IoThreads : u # v /\ sendList[u] > 0 /\ sendList[v] > 0
    BY <2>2, <2>3 DEF IInv, RegionsListed
  <2>5. /\ buf'.aSize > 0 \/ buf'.bSize > 0 => buf.aSize > n \/ buf.bSize > 0
        /\ buf'.aSize > 0 /\ buf'.bSize > 0 => buf.aSize > n /\ buf.bSize > 0
    <3>1. CASE n < buf.aSize
      BY <1>7, <1>8, <1>9, <3>1
    <3>2. CASE n = buf.aSize
      BY <1>7, <1>9, <3>2
    <3>. QED
      BY <1>7, <1>8, <3>1, <3>2
  <2>. QED
    BY <2>4, <2>5
<1>. QED
  BY <1>4, <1>10, <1>11, <1>12, <1>13, <1>14 DEF IInv

-----------------------------------------------------------------------------
LEMMA ReplyIsBytes ==
  ASSUME IInv
  PROVE  NextReply \in [1 .. ReplyLen -> 0 .. 2] /\ NextReply \in Seq(0 .. 2)
         /\ Len(NextReply) = ReplyLen
<1>1. ReplyLen \in Nat /\ Len(posted) \in Nat
  BY SendPathAssumption DEF IInv, Typed
<1>2. NextReply \in [1 .. ReplyLen -> 0 .. 2]
  <2>1. \A i \in 1 .. ReplyLen : StreamByte(Len(posted) + i - 1) \in 0 .. 2
    <3>. TAKE i \in 1 .. ReplyLen
    <3>1. Len(posted) + i - 1 \in Nat
      BY <1>1
    <3>. QED
      BY <3>1 DEF StreamByte
  <2>. QED
    BY <2>1 DEF NextReply
<1>. QED
  BY <1>1, <1>2

LEMMA PostReplyStep == ASSUME IInv, NEW t \in IoThreads, PostReply(t) PROVE IInv'
<1> DEFINE data == NextReply
           fits == ~(Buffer!FreeSpace(buf) < ReplyLen)
           stored == buf.aSize + buf.bSize
<1>1. pc[t] = "post" /\ Go(t, "preRecv") /\ sendList[t] = 0
  BY DEF PostReply, At, IInv, ListFollowsPc
<1>2. /\ UNCHANGED <<mConnected, mSendPendingCount, inFlight, recvPosted, received, connections>>
      /\ buf' = Buffer!Write(buf, data)
      /\ ~fits => UNCHANGED <<sendList, posted>>
      /\ fits => sendList' = [sendList EXCEPT ![t] = sendList[t] + 1] /\ posted' = posted \o data
  BY DEF PostReply
<1>3. /\ BP!BufferOK(buf) /\ posted \in Seq(0 .. 2) /\ received \in Seq(0 .. 2)
      /\ pc \in [IoThreads -> PcValues] /\ sendList \in [IoThreads -> 0 .. 1]
      /\ Len(posted) \in Nat /\ Len(received) \in Nat /\ Len(received) <= Len(posted)
  BY DEF IInv, Typed, Prefix
<1>4. data \in [1 .. ReplyLen -> 0 .. 2] /\ data \in Seq(0 .. 2) /\ Len(data) = ReplyLen
  BY ReplyIsBytes
<1>5. /\ BP!BufferOK(buf')
      /\ buf'.aPtr = buf.aPtr
      /\ buf.aSize > 0 => buf'.aSize >= buf.aSize
      /\ \A i \in 0 .. buf.aSize - 1 : buf'.mem[buf.aPtr + i] = buf.mem[buf.aPtr + i]
      /\ \A k \in 1 .. stored : BP!ByteAt(buf', k) = BP!ByteAt(buf, k)
  BY <1>2, <1>3, <1>4, WriteEffect
<1>6. /\ ~fits => buf'.aSize = buf.aSize /\ buf'.bSize = buf.bSize
      /\ fits => /\ buf'.aSize + buf'.bSize = stored + ReplyLen
                 /\ buf'.aSize = buf.aSize \/ buf'.bSize = buf.bSize
                 /\ \A k \in 1 .. ReplyLen : BP!ByteAt(buf', stored + k) = data[k]
  BY <1>2, <1>3, <1>4, WriteOutcome
<1>7. /\ buf.aSize \in Nat /\ buf.bSize \in Nat /\ buf'.aSize \in Nat /\ buf'.bSize \in Nat
      /\ ReplyLen \in Nat /\ ReplyLen >= 1 /\ buf.aPtr \in Nat
  BY <1>3, <1>5, BufferNumbers, SendPathAssumption
<1>8. fits => /\ posted' \in Seq(0 .. 2) /\ Len(posted') = Len(posted) + ReplyLen
              /\ \A k \in 1 .. Len(posted) + ReplyLen :
                   posted'[k] = IF k <= Len(posted) THEN posted[k] ELSE data[k - Len(posted)]
  <2>1. /\ posted \o data \in Seq(0 .. 2) /\ Len(posted \o data) = Len(posted) + Len(data)
        /\ \A k \in 1 .. Len(posted) + Len(data) :
             (posted \o data)[k] = IF k <= Len(posted) THEN posted[k] ELSE data[k - Len(posted)]
    BY <1>3, <1>4, Appended
  <2>. HIDE DEF data, fits
  <2>. QED
    BY <1>2, <1>4, <2>1
<1>. HIDE DEF data, fits, stored
<1>9. /\ fits => sendList' = [sendList EXCEPT ![t] = 1]
      /\ sendList' \in [IoThreads -> 0 .. 1]
      /\ \A u \in IoThreads : u # t => sendList'[u] = sendList[u]
      /\ fits => sendList'[t] = 1
  <2>1. fits => sendList' = [sendList EXCEPT ![t] = 1]
    BY <1>1, <1>2
  <2>2. CASE fits
    BY <1>3, <2>1, <2>2
  <2>3. CASE ~fits
    BY <1>2, <1>3, <2>3
  <2>. QED
    BY <2>2, <2>3
<1>10. /\ pc' = [pc EXCEPT ![t] = "preRecv"] /\ "preRecv" \in PcValues
       /\ pc' \in [IoThreads -> PcValues]
       /\ \A u \in IoThreads : u # t => pc'[u] = pc[u]
       /\ pc'[t] = "preRecv"
  BY <1>1, <1>3 DEF Go, PcValues
<1>11. ListFollowsPc'
  BY <1>9, <1>10 DEF IInv, ListFollowsPc
<1>12. Typed'
  <2>1. posted' \in Seq(0 .. 2)
    BY <1>2, <1>3, <1>8
  <2>. QED
    BY <1>2, <1>5, <1>9, <1>10, <2>1 DEF IInv, Typed
<1>13. KernelHasFront'
  <2>. SUFFICES ASSUME inFlight # NoSend
                PROVE  /\ mSendPendingCount = 1
                       /\ inFlight.at = buf'.aPtr /\ inFlight.len \in 1 .. buf'.aSize
                       /\ \A i \in 1 .. inFlight.len :
                            buf'.mem[inFlight.at + i - 1] = inFlight.data[i]
    BY <1>2 DEF KernelHasFront
  <2>1. /\ mSendPendingCount = 1
        /\ inFlight.at = buf.aPtr /\ inFlight.len \in 1 .. buf.aSize
        /\ \A i \in 1 .. inFlight.len : buf.mem[inFlight.at + i - 1] = inFlight.data[i]
    BY DEF IInv, KernelHasFront
  <2>2. inFlight.len \in 1 .. buf'.aSize
    BY <1>5, <1>7, <2>1
  <2>3. ASSUME NEW i \in 1 .. inFlight.len
        PROVE  buf'.mem[inFlight.at + i - 1] = inFlight.data[i]
    <3>1. i - 1 \in 0 .. buf.aSize - 1 /\ buf.aPtr + (i - 1) = inFlight.at + i - 1
      BY <1>7, <2>1
    <3>2. buf'.mem[buf.aPtr + (i - 1)] = buf.mem[buf.aPtr + (i - 1)]
      BY <1>5, <3>1
    <3>. QED
      BY <2>1, <3>1, <3>2
  <2>. QED
    BY <1>5, <2>1, <2>2, <2>3
<1>14. Prefix'
  <2>1. Len(received) <= Len(posted') /\ \A k \in 1 .. Len(posted) : posted'[k] = posted[k]
    BY <1>2, <1>3, <1>7, <1>8
  <2>2. \A k \in 1 .. Len(received) : received[k] = posted'[k]
    BY <1>3, <2>1 DEF IInv, Prefix
  <2>. QED
    BY <1>2, <2>1, <2>2 DEF Prefix
<1>15. RestInBuffer'
  <2>. SUFFICES ASSUME mConnected = 1 \/ inFlight # NoSend
                PROVE  /\ Len(received) + (buf'.aSize + buf'.bSize) = Len(posted')
                       /\ \A k \in 1 .. buf'.aSize + buf'.bSize :
                            posted'[Len(received) + k] = BP!ByteAt(buf', k)
    BY <1>2 DEF RestInBuffer
  <2>1. /\ Len(received) + stored = Len(posted)
        /\ \A k \in 1 .. stored : posted[Len(received) + k] = BP!ByteAt(buf, k)
    BY DEF IInv, RestInBuffer, stored
  <2>2. stored \in Nat
    BY <1>7 DEF stored
  <2>3. CASE ~fits
    <3>1. buf'.aSize + buf'.bSize = stored /\ posted' = posted
      BY <1>2, <1>6, <2>3 DEF stored
    <3>. QED
      BY <1>5, <2>1, <3>1
  <2>4. CASE fits
    <3>1. Len(received) + (buf'.aSize + buf'.bSize) = Len(posted')
      BY <1>3, <1>6, <1>7, <1>8, <2>1, <2>2, <2>4
    <3>2. ASSUME NEW k \in 1 .. buf'.aSize + buf'.bSize
          PROVE  posted'[Len(received) + k] = BP!ByteAt(buf', k)
      <4>1. k \in 1 .. stored + ReplyLen
        BY <1>6, <2>4
      <4>2. CASE k <= stored
        <5>1. k \in 1 .. stored /\ Len(received) + k \in 1 .. Len(posted) + ReplyLen
              /\ Len(received) + k <= Len(posted)
          BY <1>3, <1>7, <2>1, <2>2, <4>1, <4>2
        <5>. QED
          BY <1>5, <1>8, <2>1, <2>4, <5>1
      <4>3. CASE ~(k <= stored)
        <5> DEFINE j == k - stored
        <5>0. Len(posted) = Len(received) + stored /\ k \in Nat
          BY <1>7, <2>1, <2>2, <4>1
        <5>1. j \in 1 .. ReplyLen /\ stored + j = k
          BY <1>7, <2>2, <4>1, <4>3
        <5>3. /\ Len(received) + k \in 1 .. Len(posted) + ReplyLen
              /\ ~(Len(received) + k <= Len(posted)) /\ Len(received) + k - Len(posted) = j
          BY <1>3, <1>7, <2>2, <4>1, <4>3, <5>0
        <5>. HIDE DEF j
        <5>2. BP!ByteAt(buf', k) = data[j]
          BY <1>6, <2>4, <5>1
        <5>. QED
          BY <1>8, <2>4, <5>2, <5>3
      <4>. QED
        BY <4>2, <4>3
    <3>. QED
      BY <3>1, <3>2
  <2>. QED
    BY <2>3, <2>4
<1>16. RegionsListed'
  <2>. SUFFICES ASSUME mConnected = 1, \A u \in IoThreads : pc'[u] # "close"
                PROVE  /\ buf'.aSize > WithKernel \/ buf'.bSize > 0 =>
                            \E u \in IoThreads : sendList'[u] > 0
                       /\ buf'.aSize > WithKernel /\ buf'.bSize > 0 =>
                            \E u, v \in IoThreads : u # v /\ sendList'[u] > 0 /\ sendList'[v] > 0
    BY <1>2 DEF RegionsListed, WithKernel
  <2>1. \A u \in IoThreads : pc[u] # "close"
    BY <1>1, <1>10
  <2>2. /\ buf.aSize > WithKernel \/ buf.bSize > 0 => \E u \in IoThreads : sendList[u] > 0
        /\ buf.aSize > WithKernel /\ buf.bSize > 0 =>
             \E u, v \in IoThreads : u # v /\ sendList[u] > 0 /\ sendList[v] > 0
    BY <2>1 DEF IInv, RegionsListed
  <2>3. \A u \in IoThreads : sendList[u] > 0 => u # t /\ sendList'[u] > 0
    BY <1>1, <1>9
  <2>4. CASE ~fits
    BY <1>2, <1>6, <2>2, <2>4
  <2>5. CASE fits
    <3>1. sendList'[t] > 0
      BY <1>9, <2>5
    <3>2. buf'.aSize > WithKernel /\ buf'.bSize > 0 => buf.aSize > WithKernel \/ buf.bSize > 0
      BY <1>6, <2>5
    <3>. QED
      BY <2>2, <2>3, <3>1, <3>2
  <2>. QED
    BY <2>4, <2>5
<1>. QED
  BY <1>11, <1>12, <1>13, <1>14, <1>15, <1>16 DEF IInv

LEMMA RecycleStep == ASSUME IInv, Recycle PROVE IInv'
<1>1. /\ mConnected' = 1 /\ recvPosted' = TRUE /\ inFlight = NoSend
      /\ buf' = Buffer!BufferReset(buf) /\ posted' = <<>> /\ received' = <<>>
      /\ connections' = connections + 1 /\ connections < MaxConnections
      /\ UNCHANGED <<mSendPendingCount, inFlight, sendList, pc>>
  BY DEF Recycle
<1>2. BP!BufferOK(buf') /\ buf'.aSize = 0 /\ buf'.bSize = 0
  BY <1>1, ResetEffect DEF IInv, Typed
<1>3. Typed'
  <2>1. posted' \in Seq(0 .. 2) /\ received' \in Seq(0 .. 2)
    BY <1>1
  <2>2. connections' \in 1 .. MaxConnections
    BY <1>1, SendPathAssumption DEF IInv, Typed
  <2>3. mConnected' \in {0, 1} /\ recvPosted' \in BOOLEAN
    BY <1>1
  <2>. QED
    BY <1>1, <1>2, <2>1, <2>2, <2>3 DEF IInv, Typed
<1>4. ListFollowsPc' /\ KernelHasFront'
  BY <1>1 DEF IInv, ListFollowsPc, KernelHasFront
<1>5. Prefix' /\ RestInBuffer'
  <2>1. Len(posted') = 0 /\ Len(received') = 0
    BY <1>1
  <2>. QED
    BY <1>2, <2>1 DEF Prefix, RestInBuffer
<1>6. RegionsListed'
  <2>1. WithKernel' = 0
    BY <1>1 DEF WithKernel
  <2>. QED
    BY <1>2, <2>1 DEF RegionsListed
<1>. QED
  BY <1>3, <1>4, <1>5, <1>6 DEF IInv

LEMMA Initially == Init => IInv
<1>. SUFFICES ASSUME Init
              PROVE  IInv
  OBVIOUS
<1>1. buf = [mem |-> [i \in 0 .. Capacity - 1 |-> 0], aPtr |-> 0, aSize |-> 0, bPtr |-> -1,
             bSize |-> 0]
  BY DEF Init, Buffer!Fresh, Buffer!Null
<1>2. BP!BufferOK(buf) /\ buf.aSize = 0 /\ buf.bSize = 0
  BY <1>1, SendPathAssumption
  DEF BP!BufferOK, BP!Null, BP!GetAFreeSpace, BP!GetSpaceBeforeA
<1>3. Typed
  <2>1. posted \in Seq(0 .. 2) /\ received \in Seq(0 .. 2)
    BY DEF Init
  <2>2. connections \in 1 .. MaxConnections
    BY SendPathAssumption DEF Init
  <2>3. recvPosted \in BOOLEAN /\ mConnected \in {0, 1} /\ mSendPendingCount \in {0, 1}
    BY DEF Init
  <2>4. pc \in [IoThreads -> PcValues] /\ sendList \in [IoThreads -> 0 .. 1]
    BY DEF Init, PcValues
  <2>. QED
    BY <1>2, <2>1, <2>2, <2>3, <2>4 DEF Init, Typed
<1>4. ListFollowsPc /\ KernelHasFront
  BY DEF Init, ListFollowsPc, KernelHasFront
<1>5. Prefix /\ RestInBuffer
  <2>1. Len(posted) = 0 /\ Len(received) = 0
    BY DEF Init
  <2>. QED
    BY <1>2, <2>1 DEF Prefix, RestInBuffer
<1>6. RegionsListed
  <2>1. WithKernel = 0
    BY DEF Init, WithKernel
  <2>. QED
    BY <1>2, <2>1 DEF RegionsListed
<1>. QED
  BY <1>3, <1>4, <1>5, <1>6 DEF IInv

LEMMA Inductive == IInv /\ [Next]_vars => IInv'
<1>. SUFFICES ASSUME IInv, [Next]_vars
              PROVE  IInv'
  OBVIOUS
<1>1. ASSUME NEW t \in IoThreads, DoIocpJob(t)
      PROVE  IInv'
  BY <1>1, TimeoutStep, RecvCompletionStep, RecvErrorStep, SendCompletionStep, SendErrorStep
  DEF DoIocpJob
<1>2. ASSUME NEW t \in IoThreads, Handler(t)
      PROVE  IInv'
  BY <1>2, Handle_SC_MOVEStep, PostReplyStep, PreRecvStep, CloseOnErrorStep DEF Handler
<1>3. ASSUME NEW t \in IoThreads, DoSendJob(t)
      PROVE  IInv'
  BY <1>3, DoSendJobDoneStep, FlushSendStep, FlushAgainStep, FlushNothingStep, FlushIssueStep,
     FlushFailsStep
  DEF DoSendJob
<1>4. CASE UNCHANGED vars
  BY <1>4 DEF vars, IInv, Typed, ListFollowsPc, KernelHasFront, Prefix, RestInBuffer,
              RegionsListed, WithKernel
<1>. QED
  BY <1>1, <1>2, <1>3, <1>4, RecycleStep DEF Next

LEMMA Invariance == Spec => []IInv
BY Initially, Inductive, PTL DEF Spec

(***************************************************************************)
(* What a client receives is a prefix of what was committed for it and the *)
(* rest is in the buffer, for any number of I/O threads, any size of the   *)
(* buffer and of a reply, and whichever sends fail or are cut short: the   *)
(* bytes the kernel has to read are never moved or overwritten by Handle_  *)
(* SC_MOVE, SendCompletion or SessionReset.                                *)
(***************************************************************************)
THEOREM RepliesArriveIntact == Spec => []StreamIntact
<1>1. IInv => StreamIntact
  <2>. SUFFICES ASSUME IInv
                PROVE  StreamIntact
    OBVIOUS
  <2>1. /\ BP!BufferOK(buf) /\ posted \in Seq(0 .. 2) /\ received \in Seq(0 .. 2)
        /\ Len(posted) \in Nat /\ Len(received) \in Nat
    BY DEF IInv, Typed
  <2>2. /\ buf.aSize \in 0 .. Capacity /\ buf.bSize \in 0 .. Capacity /\ buf.aPtr \in 0 .. Capacity
        /\ buf.aPtr + buf.aSize <= Capacity /\ Capacity \in Nat
    BY <2>1, BufferNumbers, SendPathAssumption
  <2>3. Buffer!TypeOK
    BY <2>1 DEF BP!BufferOK, Buffer!TypeOK, BP!Null, Buffer!Null
  <2>4. inFlight # NoSend => /\ inFlight.at \in 0 .. Capacity - 1
                             /\ inFlight.len \in 1 .. Capacity
    <3>1. inFlight # NoSend => inFlight.at = buf.aPtr /\ inFlight.len \in 1 .. buf.aSize
      BY DEF IInv, KernelHasFront
    <3>. QED
      BY <2>2, <3>1
  <2>5. TypeOK
    BY <2>3, <2>4 DEF IInv, Typed, TypeOK
  <2>6. InFlightBytesStable
    BY DEF IInv, KernelHasFront, InFlightBytesStable
  <2>7. IsPrefix(received, posted)
    <3>1. Len(received) <= Len(posted) /\ \A k \in 1 .. Len(received) : received[k] = posted[k]
      BY DEF IInv, Prefix
    <3>2. SubSeq(received, 1, Len(received)) = SubSeq(posted, 1, Len(received))
      BY <2>1, <3>1
    <3>. QED
      BY <3>1, <3>2 DEF IsPrefix
  <2>8. ASSUME mConnected = 1
        PROVE  received \o Buffer!Contents(buf) = posted
    <3> DEFINE c == BP!Contents(buf)
               stored == buf.aSize + buf.bSize
    <3>1. /\ c \in Seq(0 .. 2) /\ Len(c) = stored
          /\ \A k \in 1 .. stored : c[k] = BP!ByteAt(buf, k)
      BY <2>1, BP!ContentsByByte, SendPathAssumption DEF BP!GetStoredSize
    <3>2. /\ Len(received) + stored = Len(posted)
          /\ \A k \in 1 .. stored : posted[Len(received) + k] = BP!ByteAt(buf, k)
          /\ \A k \in 1 .. Len(received) : received[k] = posted[k]
      BY <2>8 DEF IInv, Prefix, RestInBuffer
    <3>3. stored \in Nat
      BY <2>2
    <3>. HIDE DEF c, stored
    <3>4. /\ received \o c \in Seq(0 .. 2) /\ Len(received \o c) = Len(posted)
          /\ \A k \in 1 .. Len(posted) :
               (received \o c)[k] = IF k <= Len(received) THEN received[k] ELSE c[k - Len(received)]
      BY <2>1, <3>1, <3>2, Appended
    <3>5. ASSUME NEW k \in 1 .. Len(posted)
          PROVE  (received \o c)[k] = posted[k]
      <4>1. CASE k <= Len(received)
        BY <2>1, <3>2, <3>4, <4>1
      <4>2. CASE ~(k <= Len(received))
        <5>1. k - Len(received) \in 1 .. stored /\ Len(received) + (k - Len(received)) = k
          BY <2>1, <3>2, <3>3, <4>2
        <5>. QED
          BY <3>1, <3>2, <3>4, <4>2, <5>1
      <4>. QED
        BY <4>1, <4>2
    <3>6. received \o c = posted
      BY <2>1, <3>4, <3>5, SeqEqual
    <3>. QED
      BY <3>6, SameBuffer DEF c
  <2>. QED
    BY <2>5, <2>6, <2>7, <2>8 DEF StreamIntact
<1>. QED
  BY <1>1, Invariance, PTL

(***************************************************************************)
(* A committed reply is never forgotten, for any number of I/O threads:    *)
(* while a region of the buffer of a connected session is not with the     *)
(* kernel a thread has the session on its list, although DoSendJob takes   *)
(* an entry off for one region only and FlushSend returns early.           *)
(***************************************************************************)
THEOREM RepliesAreRemembered == Spec => []NoReplyForgotten
<1>1. IInv => NoReplyForgotten
  <2>. SUFFICES ASSUME IInv, mConnected = 1, Buffer!GetStoredSize(buf) > WithKernel,
                       \A t \in IoThreads : pc[t] # "close"
                PROVE  \E t \in IoThreads : sendList[t] > 0
    BY DEF NoReplyForgotten, WithKernel
  <2>1. buf.aSize \in Nat /\ buf.bSize \in Nat
    BY BufferNumbers, SendPathAssumption DEF IInv, Typed
  <2>2. buf.aSize > WithKernel \/ buf.bSize > 0
    BY <2>1 DEF Buffer!GetStoredSize
  <2>. QED
    BY <2>2 DEF IInv, RegionsListed
<1>. QED
  BY <1>1, Invariance, PTL
=============================================================================
