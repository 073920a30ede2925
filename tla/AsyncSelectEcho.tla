--------------------------- MODULE AsyncSelectEcho ---------------------------
(***************************************************************************)
(* The echo server on one window procedure (WSAAsyncSelectEcho.cpp): every *)
(* socket event is a message of one queue, and a socket has one buffer,    *)
(* which is received into when it is empty and sent from until it is.      *)
(*                                                                         *)
(* Winsock and the clients are external: FD_READ is posted for arrived     *)
(* bytes and not again before the next WSARecv, FD_WRITE for room after a  *)
(* WSASend that would have blocked, FD_CLOSE when the client has closed    *)
(* and its bytes are read, or at once if the connection was reset.  What   *)
(* is in the queue stays there when the socket is closed, and the handle   *)
(* may be given to the next connection.  A client's bytes are numbered.    *)
(***************************************************************************)
EXTENDS Integers, Sequences, FiniteSets, SequencesExt

CONSTANTS Sockets,          (* socket handles                                 *)
          Connections,
          Nobody,           (* no connection                                  *)
          DATA_BUFSIZE,     (* of a socket's buffer (8192)                    *)
          SocketRoom,       (* bytes Winsock takes before WSASend would block *)
          MaxBytes          (* bound: bytes a client sends                    *)

ASSUME SizesAssumption ==
  /\ {DATA_BUFSIZE, SocketRoom, MaxBytes} \subseteq Nat \ {0} /\ Nobody \notin Connections
  /\ Cardinality(Sockets) >= Cardinality(Connections)

VARIABLES
  messages,         (* the thread's queue of WM_SOCKET messages              *)
  SocketInfoList,   (* the SOCKET_INFORMATIONs, the last created first       *)
  crashed,          (* a member of the NULL GetSocketInformation returned    *)
  peer,             (* the connection behind each handle                     *)
  backlog,          (* connections to be accepted                            *)
  line,             (* Winsock, of each connection                           *)
  client,           (* bytes each client has sent, and got back              *)
  shortSent         (* history: connections of which WSASend took a part     *)

vars == <<messages, SocketInfoList, crashed, peer, backlog, line, client, shortSent>>

Init ==
  /\ messages = <<>> /\ SocketInfoList = <<>> /\ crashed = FALSE
  /\ peer = [s \in Sockets |-> Nobody] /\ backlog = <<>>
  /\ line = [c \in Connections |-> [state |-> "none", arrived |-> <<>>, outbound |-> <<>>,
                                    readArmed |-> FALSE, blocked |-> FALSE]]
  /\ client = [c \in Connections |-> [sent |-> 0, got |-> <<>>]]
  /\ shortSent = {}

-----------------------------------------------------------------------------
(* Clients and Winsock.  A message says, beside what the code sees of it,  *)
(* which connection it is about.                                           *)
Event(s, event) == [wParam |-> s, event |-> event, about |-> peer[s]]

NewClient == [wParam |-> Nobody, event |-> "FD_ACCEPT", about |-> Nobody]

Handle(c) == CHOOSE s \in Sockets : peer[s] = c

Post(posts) == messages' = messages \o posts

(* Of a line with bytes that may have arrived: the message that is due. *)
ReadDue(w, message) == IF w.readArmed /\ w.arrived # <<>> THEN <<message>> ELSE <<>>
Notified(w)         == [w EXCEPT !.readArmed = @ /\ w.arrived = <<>>]

Connect(c) ==
  /\ line[c].state = "none"
  /\ line' = [line EXCEPT ![c].state = "listen"] /\ backlog' = Append(backlog, c)
  /\ Post(IF backlog = <<>> THEN <<NewClient>> ELSE <<>>)
  /\ UNCHANGED <<SocketInfoList, crashed, peer, client, shortSent>>

ClientSends(c) ==
  LET w == [line[c] EXCEPT !.arrived = Append(@, client[c].sent + 1)] IN
  /\ line[c].state \in {"listen", "open"} /\ client[c].sent < MaxBytes
  /\ client' = [client EXCEPT ![c].sent = @ + 1]
  /\ line' = [line EXCEPT ![c] = Notified(w)]
  /\ Post(ReadDue(w, Event(Handle(c), "FD_READ")))
  /\ UNCHANGED <<SocketInfoList, crashed, peer, backlog, shortSent>>

ClientReads(c) ==
  /\ line[c].state = "open" /\ line[c].outbound # <<>>
  /\ client' = [client EXCEPT ![c].got = Append(@, Head(line[c].outbound))]
  /\ line' = [line EXCEPT ![c].outbound = Tail(@), ![c].blocked = FALSE]
  /\ Post(IF line[c].blocked THEN <<Event(Handle(c), "FD_WRITE")>> ELSE <<>>)
  /\ UNCHANGED <<SocketInfoList, crashed, peer, backlog, shortSent>>

(* Gracefully, or with bytes unread: then the connection is reset. *)
ClientCloses(c) ==
  /\ line[c].state = "open"
  /\ IF line[c].outbound = <<>>
     THEN line' = [line EXCEPT ![c].state = "closing"] /\ UNCHANGED messages
     ELSE /\ line' = [line EXCEPT ![c].state = "reset", ![c].arrived = <<>>]
          /\ Post(<<Event(Handle(c), "FD_CLOSE")>>)
  /\ UNCHANGED <<SocketInfoList, crashed, peer, backlog, client, shortSent>>

CloseNotified(c) ==
  /\ line[c].state = "closing" /\ line[c].arrived = <<>> /\ line[c].outbound = <<>>
  /\ line' = [line EXCEPT ![c].state = "closed"]
  /\ Post(<<Event(Handle(c), "FD_CLOSE")>>)
  /\ UNCHANGED <<SocketInfoList, crashed, peer, backlog, client, shortSent>>

(* Bytes were sent to a client that had closed. *)
Reset(c) ==
  /\ line[c].state \in {"closing", "closed"} /\ line[c].outbound # <<>>
  /\ line' = [line EXCEPT ![c].state = "reset", ![c].arrived = <<>>]
  /\ Post(IF line[c].state = "closing" THEN <<Event(Handle(c), "FD_CLOSE")>> ELSE <<>>)
  /\ UNCHANGED <<SocketInfoList, crashed, peer, backlog, client, shortSent>>

-----------------------------------------------------------------------------
(* ServerMessageProc, for the message at the head of the queue. *)
Handles(s, event) ==
  /\ ~crashed /\ messages # <<>>
  /\ Head(messages).wParam = s /\ Head(messages).event = event

Handled(posts) == messages' = Tail(messages) \o posts

(* The first with this handle, in front of those that were left behind. *)
GetSocketInformation(s) == SelectInSeq(SocketInfoList, LAMBDA i : i.Socket = s)

CreateSocketInformation(s) ==
  SocketInfoList' = <<[Socket |-> s, RecvPosted |-> FALSE, Buffer |-> <<>>,
                       BytesSEND |-> 0, BytesRECV |-> 0]>> \o SocketInfoList

NextClient == IF Len(backlog) > 1 THEN <<NewClient>> ELSE <<>>

(* Once the socket is selected, Winsock tells what it already knows. *)
Accept(s) ==
  LET c == Head(backlog)
      w == [line[c] EXCEPT !.state = "open", !.readArmed = TRUE]
      about(event) == [wParam |-> s, event |-> event, about |-> c] IN
  /\ Handles(Nobody, "FD_ACCEPT") /\ peer[s] = Nobody
  /\ peer' = [peer EXCEPT ![s] = c] /\ backlog' = Tail(backlog)
  /\ CreateSocketInformation(s)
  /\ line' = [line EXCEPT ![c] = Notified(w)]
  /\ Handled(NextClient \o ReadDue(w, about("FD_READ")) \o <<about("FD_WRITE")>>)
  /\ UNCHANGED <<crashed, client, shortSent>>

(* WSAAsyncSelect fails: the socket is closed, its information stays. *)
AcceptFails(s) ==
  /\ Handles(Nobody, "FD_ACCEPT") /\ peer[s] = Nobody
  /\ backlog' = Tail(backlog) /\ CreateSocketInformation(s)
  /\ line' = [line EXCEPT ![Head(backlog)].state = "shut"] /\ Handled(NextClient)
  /\ UNCHANGED <<crashed, peer, client, shortSent>>

(* closesocket comes with it; without an information nothing happens. *)
FreeSocketInformation(s) ==
  LET place == GetSocketInformation(s) IN
  /\ IF place = 0
     THEN UNCHANGED <<SocketInfoList, peer, line>>
     ELSE /\ SocketInfoList' = RemoveAt(SocketInfoList, place)
          /\ peer' = [peer EXCEPT ![s] = Nobody]
          /\ line' = [c \in Connections |->
                        IF c = peer[s] THEN [line[c] EXCEPT !.state = "shut"] ELSE line[c]]
  /\ Handled(<<>>)
  /\ UNCHANGED <<crashed, backlog, client, shortSent>>

NoInformation(s) ==
  /\ Handles(s, "FD_READ") \/ Handles(s, "FD_WRITE")
  /\ GetSocketInformation(s) = 0
  /\ crashed' = TRUE
  /\ UNCHANGED <<messages, SocketInfoList, peer, backlog, line, client, shortSent>>

(* Mutant: WSAEWOULDBLOCK of WSASend is taken for a failure. *)
BrokenWhenBlocked(s) ==
  peer[s] = Nobody \/ line[peer[s]].state = "reset" \/ Len(line[peer[s]].outbound) = SocketRoom

(* Winsock calls fail on a reset connection and on a handle without one. *)
Broken(s) == peer[s] = Nobody \/ line[peer[s]].state = "reset"

Drained(i) == i.BytesSEND = i.BytesRECV

(* The end of the FD_WRITE case. *)
Emptied(i) ==
  IF Drained(i) THEN [i EXCEPT !.BytesSEND = 0, !.BytesRECV = 0, !.Buffer = <<>>, !.RecvPosted = FALSE]
                ELSE i

(* Mutant: the postponed FD_READ is forgotten. *)
PostponedForgotten(s, i) == <<>>

Postponed(s, i) == IF Drained(i) /\ i.RecvPosted THEN <<Event(s, "FD_READ")>> ELSE <<>>

Finish(s, i, w, posts) ==
  /\ SocketInfoList' = [SocketInfoList EXCEPT ![GetSocketInformation(s)] = Emptied(i)]
  /\ line' = [c \in Connections |-> IF c = peer[s] THEN w ELSE line[c]]
  /\ Handled(posts \o Postponed(s, i))
  /\ UNCHANGED <<crashed, peer, backlog, client>>

(* Mutant: sending goes on at the start of the buffer. *)
PendingFromStart(i) == SubSeq(i.Buffer, 1, i.BytesRECV - i.BytesSEND)

Pending(i) == SubSeq(i.Buffer, i.BytesSEND + 1, i.BytesRECV)

(* The FD_WRITE case, with the socket's information i and its line w. *)
Echo(s, i, w, posts) ==
  \/ /\ Drained(i)
     /\ Finish(s, i, w, posts) /\ UNCHANGED shortSent
  \/ /\ ~Drained(i) /\ Broken(s)
     /\ FreeSocketInformation(s)
  \/ /\ ~Drained(i) /\ ~Broken(s) /\ Len(w.outbound) = SocketRoom
     /\ Finish(s, i, [w EXCEPT !.blocked = TRUE], posts) /\ UNCHANGED shortSent
  \/ /\ ~Drained(i) /\ ~Broken(s)
     /\ \E n \in 1 .. Len(Pending(i)) :
          /\ Len(w.outbound) + n <= SocketRoom
          /\ Finish(s, [i EXCEPT !.BytesSEND = @ + n],
                    [w EXCEPT !.outbound = @ \o SubSeq(Pending(i), 1, n)], posts)
          /\ shortSent' = IF n < Len(Pending(i)) THEN shortSent \cup {peer[s]} ELSE shortSent

WriteCase(s) ==
  /\ Handles(s, "FD_WRITE") /\ GetSocketInformation(s) # 0
  /\ Echo(s, SocketInfoList[GetSocketInformation(s)], line[peer[s]], <<>>)

ReadPostponed(s) ==
  LET place == GetSocketInformation(s) IN
  /\ Handles(s, "FD_READ") /\ place # 0 /\ SocketInfoList[place].BytesRECV # 0
  /\ SocketInfoList' = [SocketInfoList EXCEPT ![place].RecvPosted = TRUE]
  /\ Handled(<<>>) /\ UNCHANGED <<crashed, peer, backlog, line, client, shortSent>>

(* What WSARecv takes of the line, what it leaves, and the information then. *)
Here(s)    == line[peer[s]].arrived
Taken(s)   == IF Len(Here(s)) < DATA_BUFSIZE THEN Len(Here(s)) ELSE DATA_BUFSIZE
LineLeft(s) == [line[peer[s]] EXCEPT !.arrived = SubSeq(Here(s), Taken(s) + 1, Len(Here(s))),
                                     !.readArmed = TRUE]
Received(s) == [SocketInfoList[GetSocketInformation(s)] EXCEPT
                  !.Buffer = SubSeq(Here(s), 1, Taken(s)), !.BytesRECV = Taken(s)]

ReadsNow(s) ==
  /\ Handles(s, "FD_READ") /\ GetSocketInformation(s) # 0
  /\ SocketInfoList[GetSocketInformation(s)].BytesRECV = 0

(* Mutant: the case ends with a break, and the echo waits for an FD_WRITE. *)
ReadAndBreak(s) ==
  /\ ReadsNow(s)
  /\ IF Broken(s) THEN FreeSocketInformation(s)
     ELSE /\ Finish(s, Received(s), Notified(LineLeft(s)), ReadDue(LineLeft(s), Event(s, "FD_READ")))
          /\ UNCHANGED shortSent

(* WSARecv of whatever has arrived, nothing included, and the fall-through. *)
ReadCase(s) ==
  /\ ReadsNow(s)
  /\ IF Broken(s) THEN FreeSocketInformation(s)
     ELSE Echo(s, Received(s), Notified(LineLeft(s)), ReadDue(LineLeft(s), Event(s, "FD_READ")))

CloseCase(s) == Handles(s, "FD_CLOSE") /\ FreeSocketInformation(s)

-----------------------------------------------------------------------------
ServerMessageProc ==
  \E s \in Sockets : \/ Accept(s) \/ AcceptFails(s) \/ NoInformation(s) \/ WriteCase(s)
                     \/ ReadPostponed(s) \/ ReadCase(s) \/ CloseCase(s)

Environment ==
  \E c \in Connections : \/ Connect(c) \/ ClientSends(c) \/ ClientReads(c)
                         \/ ClientCloses(c) \/ CloseNotified(c) \/ Reset(c)

Next == ServerMessageProc \/ Environment

Spec == Init /\ [][Next]_vars

(* The message loop runs; a client reads what comes while it is there. *)
FairSpec == /\ Spec /\ WF_vars(ServerMessageProc)
            /\ \A c \in Connections : WF_vars(ClientReads(c))

-----------------------------------------------------------------------------
Bytes == 1 .. MaxBytes

TypeOK ==
  /\ messages \in Seq([wParam : Sockets \cup {Nobody}, about : Connections \cup {Nobody},
                       event : {"FD_ACCEPT", "FD_READ", "FD_WRITE", "FD_CLOSE"}])
  /\ \A k \in DOMAIN SocketInfoList :
       LET i == SocketInfoList[k] IN
       /\ i.Socket \in Sockets /\ i.RecvPosted \in BOOLEAN /\ i.Buffer \in Seq(Bytes)
       /\ i.BytesRECV \in 0 .. DATA_BUFSIZE /\ i.BytesSEND \in 0 .. i.BytesRECV
  /\ peer \in [Sockets -> Connections \cup {Nobody}] /\ backlog \in Seq(Connections)
  /\ line \in [Connections -> [state : {"none", "listen", "open", "closing", "closed", "reset", "shut"},
                               arrived : Seq(Bytes), outbound : Seq(Bytes),
                               readArmed : BOOLEAN, blocked : BOOLEAN]]
  /\ crashed \in BOOLEAN /\ shortSent \in SUBSET Connections

Info(c) == SocketInfoList[GetSocketInformation(Handle(c))]

(***************************************************************************)
(* While a connection is open every byte of the client is in exactly one   *)
(* place and in order, whatever WSARecv and WSASend take at a time.        *)
(***************************************************************************)
EchoIntact ==
  /\ TypeOK
  /\ \A c \in Connections :
       line[c].state = "open" =>
         client[c].got \o line[c].outbound \o Pending(Info(c)) \o line[c].arrived
           = [k \in 1 .. client[c].sent |-> k]

(***************************************************************************)
(* Winsock tells of arrived bytes once.  Until they are received somebody  *)
(* remembers: the queue, or RecvPosted while the buffer is full.           *)
(***************************************************************************)
NoLostNotification ==
  \A c \in Connections :
    line[c].state = "open" /\ line[c].arrived # <<>> =>
      \/ Contains(messages, Event(Handle(c), "FD_READ"))
      \/ Info(c).RecvPosted /\ Info(c).BytesRECV > 0

(***************************************************************************)
(* A message that outlives its socket finds no information and crashes the *)
(* server, or finds the next connection of its handle and closes that one, *)
(* whose messages then outlive it.  All of this starts with a connection   *)
(* that was reset: one that its client closes with nothing unread leaves   *)
(* no message behind, and a server that nobody resets stays up.            *)
(***************************************************************************)
WasReset(c) == line[c].state \in {"reset", "shut"} /\ line[c].outbound # <<>>

HarmNeedsReset ==
  [][\/ crashed' # crashed
     \/ \E c \in Connections : line[c].state = "open" /\ line'[c].state = "shut"
     => \E d \in Connections : WasReset(d)]_vars

(***************************************************************************)
(* Every byte comes back to a client that stays, unless a WSASend took a   *)
(* part only: no FD_WRITE follows it, and the buffer is never sent again.  *)
(***************************************************************************)
EveryByteEchoed ==
  \A c \in Connections, k \in Bytes :
    (line[c].state = "open" /\ client[c].sent >= k)
      ~> (Len(client[c].got) >= k \/ line[c].state # "open" \/ c \in shortSent \/ crashed)
=============================================================================
