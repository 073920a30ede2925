------------------------ MODULE AsyncSelectEcho_proofs ------------------------
(***************************************************************************)
(* Proofs about AsyncSelectEcho, for any number of sockets and connections *)
(* and any sizes of the buffers.                                           *)
(***************************************************************************)
EXTENDS AsyncSelectEcho, SequenceTheorems, FiniteSetTheorems, TLAPS

-----------------------------------------------------------------------------
(***************************************************************************)
(* Sequences: what a queue is after a step, and where a stream is cut.     *)
(***************************************************************************)
LEMMA Queued ==
  ASSUME NEW S, NEW q \in Seq(S), NEW p \in Seq(S), NEW r, r = q \o p
  PROVE  /\ r \in Seq(S) /\ DOMAIN r = 1 .. Len(q) + Len(p)
         /\ Len(q) \in Nat /\ Len(p) \in Nat /\ DOMAIN q = 1 .. Len(q) /\ DOMAIN p = 1 .. Len(p)
         /\ \A i \in 1 .. Len(q) : r[i] = q[i]
         /\ \A i \in 1 .. Len(p) : r[Len(q) + i] = p[i]
         /\ \A i \in 1 .. Len(q) + Len(p) :
              i \in 1 .. Len(q) \/ (i - Len(q) \in 1 .. Len(p) /\ r[i] = p[i - Len(q)])
<1>1. /\ r \in Seq(S) /\ Len(r) = Len(q) + Len(p)
      /\ \A i \in 1 .. Len(q) + Len(p) :
           r[i] = IF i <= Len(q) THEN q[i] ELSE p[i - Len(q)]
  BY ConcatProperties
<1>2. /\ Len(q) \in Nat /\ Len(p) \in Nat /\ DOMAIN q = 1 .. Len(q) /\ DOMAIN p = 1 .. Len(p)
      /\ DOMAIN r = 1 .. Len(q) + Len(p)
  BY <1>1
<1>3. ASSUME NEW i \in 1 .. Len(p)
      PROVE  r[Len(q) + i] = p[i]
  <2>1. Len(q) + i \in 1 .. Len(q) + Len(p) /\ ~(Len(q) + i <= Len(q)) /\ Len(q) + i - Len(q) = i
    BY <1>2
  <2>. QED
    BY <1>1, <2>1
<1>4. ASSUME NEW i \in 1 .. Len(q)
      PROVE  r[i] = q[i]
  <2>1. i \in 1 .. Len(q) + Len(p) /\ i <= Len(q)
    BY <1>2
  <2>. QED
    BY <1>1, <2>1
<1>5. ASSUME NEW i \in 1 .. Len(q) + Len(p), i \notin 1 .. Len(q)
      PROVE  i - Len(q) \in 1 .. Len(p) /\ r[i] = p[i - Len(q)]
  <2>1. i - Len(q) \in 1 .. Len(p) /\ ~(i <= Len(q))
    BY <1>2, <1>5
  <2>. QED
    BY <1>1, <2>1
<1>. QED
  BY <1>1, <1>2, <1>3, <1>4, <1>5

LEMMA Dequeued ==
  ASSUME NEW S, NEW q \in Seq(S), q # <<>>
  PROVE  /\ Tail(q) \in Seq(S) /\ Len(Tail(q)) = Len(q) - 1 /\ DOMAIN Tail(q) = 1 .. Len(q) - 1
         /\ Head(q) = q[1] /\ Head(q) \in S /\ 1 \in DOMAIN q /\ Len(q) \in Nat \ {0}
         /\ DOMAIN q = 1 .. Len(q)
         /\ \A i \in DOMAIN Tail(q) : i \in Nat \ {0} /\ i + 1 \in DOMAIN q /\ Tail(q)[i] = q[i + 1]
         /\ \A i \in DOMAIN q : i = 1 \/ (i - 1 \in DOMAIN Tail(q) /\ Tail(q)[i - 1] = q[i])
<1>1. /\ Len(q) \in Nat \ {0} /\ DOMAIN q = 1 .. Len(q) /\ Head(q) = q[1] /\ 1 \in DOMAIN q
  OBVIOUS
<1>2. /\ Head(q) \in S /\ Tail(q) \in Seq(S) /\ Len(Tail(q)) = Len(q) - 1
      /\ \A i \in 1 .. Len(Tail(q)) : Tail(q)[i] = q[i + 1]
  BY HeadTailProperties
<1>3. DOMAIN Tail(q) = 1 .. Len(q) - 1
  BY <1>2
<1>. QED
  BY <1>1, <1>2, <1>3

LEMMA CutInTwo ==
  ASSUME NEW S, NEW seq \in Seq(S), NEW n \in 0 .. Len(seq)
  PROVE  /\ SubSeq(seq, 1, n) \in Seq(S) /\ Len(SubSeq(seq, 1, n)) = n
         /\ SubSeq(seq, n + 1, Len(seq)) \in Seq(S) /\ Len(SubSeq(seq, n + 1, Len(seq))) = Len(seq) - n
         /\ SubSeq(seq, 1, n) \o SubSeq(seq, n + 1, Len(seq)) = seq
         /\ SubSeq(seq, n + 1, Len(seq)) = <<>> <=> n = Len(seq)
<1>0. Len(seq) \in Nat /\ n \in Nat /\ n <= Len(seq) /\ \A i \in 1 .. Len(seq) : seq[i] \in S
  BY ElementOfSeq
<1>1. SubSeq(seq, 1, n) \in Seq(S) /\ Len(SubSeq(seq, 1, n)) = n
  <2>1. \A i \in 1 .. n : seq[i] \in S
    BY <1>0
  <2>2. n - 1 + 1 = n /\ (1 <= n \/ n = 0)
    BY <1>0
  <2>. QED
    BY <1>0, <2>1, <2>2, SubSeqProperties
<1>2. /\ SubSeq(seq, n + 1, Len(seq)) \in Seq(S)
      /\ Len(SubSeq(seq, n + 1, Len(seq))) = Len(seq) - n
  <2>1. \A i \in n + 1 .. Len(seq) : seq[i] \in S
    BY <1>0
  <2>2. n + 1 \in Int /\ Len(seq) \in Int /\ Len(seq) - (n + 1) + 1 = Len(seq) - n
    BY <1>0
  <2>3. /\ SubSeq(seq, n + 1, Len(seq)) \in Seq(S)
        /\ Len(SubSeq(seq, n + 1, Len(seq))) = IF n + 1 <= Len(seq) THEN Len(seq) - (n + 1) + 1 ELSE 0
    BY <2>1, <2>2, SubSeqProperties
  <2>4. (IF n + 1 <= Len(seq) THEN Len(seq) - (n + 1) + 1 ELSE 0) = Len(seq) - n
    BY <1>0
  <2>. QED
    BY <2>3, <2>4
<1>3. SubSeq(seq, 1, n) \o SubSeq(seq, n + 1, Len(seq)) = seq
  <2>1. 1 \in 1 .. Len(seq) + 1 /\ n \in 1 - 1 .. Len(seq) /\ Len(seq) \in n .. Len(seq)
    BY <1>0
  <2>2. SubSeq(seq, 1, n) \o SubSeq(seq, n + 1, Len(seq)) = SubSeq(seq, 1, Len(seq))
    BY <2>1, ConcatAdjacentSubSeq
  <2>. QED
    BY <2>2, SubSeqFull
<1>4. SubSeq(seq, n + 1, Len(seq)) = <<>> <=> n = Len(seq)
  <2> DEFINE r == SubSeq(seq, n + 1, Len(seq))
  <2>1. r \in Seq(S) /\ Len(r) = Len(seq) - n
    BY <1>2
  <2>. HIDE DEF r
  <2>2. r = <<>> <=> Len(r) = 0
    BY <2>1, EmptySeq
  <2>3. r = <<>> <=> n = Len(seq)
    BY <1>0, <2>1, <2>2
  <2>. QED
    BY <2>3 DEF r
<1>. QED
  BY <1>1, <1>2, <1>3, <1>4

-----------------------------------------------------------------------------
(***************************************************************************)
(* The list of informations: the first one of a socket, and how the three  *)
(* changes of the list move it.                                            *)
(***************************************************************************)
Infos == [Socket : Sockets, RecvPosted : BOOLEAN, Buffer : Seq(Bytes),
          BytesSEND : Nat, BytesRECV : Nat]

Place(list, s) == SelectInSeq(list, LAMBDA i : i.Socket = s)

First(list, k, s) ==
  /\ k \in DOMAIN list /\ list[k].Socket = s
  /\ \A j \in DOMAIN list : j < k => list[j].Socket # s

Sees(list, s) == list[Place(list, s)]

LEMMA PlaceOf == \A s : GetSocketInformation(s) = Place(SocketInfoList, s)
BY DEF GetSocketInformation, Place, SelectInSeq

LEMMA LeastOf ==
  ASSUME NEW I, I \subseteq Nat, I # {}
  PROVE  \E m \in I : \A j \in I : m <= j
<1>1. PICK m \in I : \A j \in I : ~ (<<j, m>> \in OpToRel(<, Nat))
  BY NatLessThanWellFounded, WFMin
<1>2. ASSUME NEW j \in I
      PROVE  ~ (j < m)
  <2>1. <<j, m>> \in OpToRel(<, Nat) <=> j < m
    BY DEF OpToRel
  <2>. QED
    BY <1>1, <2>1
<1>3. \A j \in I : m <= j
  BY <1>2
<1>. QED
  BY <1>3

LEMMA PlaceIsFirst ==
  ASSUME NEW list \in Seq(Infos), NEW s
  PROVE  /\ Place(list, s) = 0 => \A k \in DOMAIN list : list[k].Socket # s
         /\ Place(list, s) # 0 => First(list, Place(list, s), s)
         /\ \A k \in DOMAIN list : First(list, k, s) => Place(list, s) = k
<1> DEFINE I == {i \in 1 .. Len(list) : list[i].Socket = s}
<1>1. Place(list, s) = IF I # {} THEN Min(I) ELSE 0
  BY DEF Place, SelectInSeq
<1>2. DOMAIN list = 1 .. Len(list) /\ Len(list) \in Nat
  OBVIOUS
<1>3. I # {} => Min(I) \in I /\ \A j \in I : Min(I) <= j
  <2>1. I \subseteq Nat
    BY <1>2
  <2>. HIDE DEF I
  <2>2. I # {} => \E m \in I : \A j \in I : m <= j
    BY <2>1, LeastOf
  <2>. QED
    BY <2>2 DEF Min
<1>4. Place(list, s) # 0 => I # {} /\ Place(list, s) = Min(I)
  BY <1>1
<1>5. I # {} => Place(list, s) # 0
  BY <1>1, <1>3
<1>6. Place(list, s) # 0 => First(list, Place(list, s), s)
  <2>1. ASSUME Place(list, s) # 0
        PROVE  First(list, Place(list, s), s)
    <3> DEFINE m == Place(list, s)
    <3>1. m \in I /\ \A j \in I : m <= j
      BY <1>3, <1>4, <2>1
    <3>. HIDE DEF m
    <3>2. m \in DOMAIN list /\ list[m].Socket = s /\ \A j \in DOMAIN list : j < m => list[j].Socket # s
      BY <1>2, <3>1
    <3>. QED
      BY <3>2 DEF First, m
  <2>. QED
    BY <2>1
<1>7. ASSUME NEW k \in DOMAIN list, First(list, k, s)
      PROVE  Place(list, s) = k
  <2> DEFINE m == Place(list, s)
  <2>1. k \in I
    BY <1>2, <1>7 DEF First
  <2>2. m \in I /\ \A j \in I : m <= j
    BY <1>3, <1>4, <1>5, <2>1
  <2>. HIDE DEF m
  <2>3. m <= k /\ ~(m < k)
    BY <1>2, <1>7, <2>1, <2>2 DEF First
  <2>4. m = k
    BY <1>2, <2>2, <2>3
  <2>. QED
    BY <2>4 DEF m
<1>. QED
  BY <1>2, <1>5, <1>6, <1>7

LEMMA InFront ==
  ASSUME NEW list \in Seq(Infos), NEW i \in Infos
  PROVE  /\ <<i>> \o list \in Seq(Infos)
         /\ \A k \in DOMAIN (<<i>> \o list) :
              (<<i>> \o list)[k] = i \/ \E j \in DOMAIN list : (<<i>> \o list)[k] = list[j]
         /\ Place(<<i>> \o list, i.Socket) # 0 /\ Sees(<<i>> \o list, i.Socket) = i
         /\ \A s : s # i.Socket /\ Place(list, s) # 0 =>
              Place(<<i>> \o list, s) # 0 /\ Sees(<<i>> \o list, s) = Sees(list, s)
<1> DEFINE new == <<i>> \o list
<1>1. /\ new \in Seq(Infos) /\ DOMAIN new = 1 .. 1 + Len(list) /\ Len(list) \in Nat
      /\ DOMAIN list = 1 .. Len(list) /\ new[1] = i
      /\ \A k \in 1 .. Len(list) : new[1 + k] = list[k]
      /\ \A k \in 1 .. 1 + Len(list) : k = 1 \/ (k - 1 \in 1 .. Len(list) /\ new[k] = list[k - 1])
  <2>1. <<i>> \in Seq(Infos) /\ Len(<<i>>) = 1 /\ <<i>>[1] = i
    OBVIOUS
  <2>2. /\ new \in Seq(Infos) /\ Len(new) = 1 + Len(list)
        /\ \A k \in 1 .. 1 + Len(list) : new[k] = IF k <= 1 THEN <<i>>[k] ELSE list[k - 1]
    BY <2>1, ConcatProperties
  <2>. HIDE DEF new
  <2>3. Len(list) \in Nat /\ DOMAIN list = 1 .. Len(list) /\ DOMAIN new = 1 .. 1 + Len(list)
    BY <2>2
  <2>4. new[1] = i
    BY <2>1, <2>2, <2>3
  <2>5. ASSUME NEW k \in 1 .. Len(list)
        PROVE  new[1 + k] = list[k]
    <3>1. 1 + k \in 1 .. 1 + Len(list) /\ ~(1 + k <= 1) /\ 1 + k - 1 = k
      BY <2>3
    <3>. QED
      BY <2>2, <3>1
  <2>6. ASSUME NEW k \in 1 .. 1 + Len(list), k # 1
        PROVE  k - 1 \in 1 .. Len(list) /\ new[k] = list[k - 1]
    <3>1. k - 1 \in 1 .. Len(list) /\ ~(k <= 1)
      BY <2>3, <2>6
    <3>. QED
      BY <2>2, <3>1
  <2>. QED
    BY <2>2, <2>3, <2>4, <2>5, <2>6
<1>. HIDE DEF new
<1>2. Place(new, i.Socket) # 0 /\ Sees(new, i.Socket) = i
  <2>1. First(new, 1, i.Socket)
    BY <1>1 DEF First
  <2>2. Place(new, i.Socket) = 1
    BY <1>1, <2>1, PlaceIsFirst
  <2>. QED
    BY <1>1, <2>2 DEF Sees
<1>3. ASSUME NEW s, s # i.Socket, Place(list, s) # 0
      PROVE  Place(new, s) # 0 /\ Sees(new, s) = Sees(list, s)
  <2> DEFINE k == Place(list, s)
  <2>1. First(list, k, s)
    BY <1>3, PlaceIsFirst
  <2>. HIDE DEF k
  <2>2. k \in 1 .. Len(list) /\ list[k].Socket = s /\ \A j \in 1 .. Len(list) : j < k => list[j].Socket # s
    BY <1>1, <2>1 DEF First
  <2>3. 1 + k \in DOMAIN new /\ new[1 + k] = list[k]
    BY <1>1, <2>2
  <2>4. ASSUME NEW j \in DOMAIN new, j < 1 + k
        PROVE  new[j].Socket # s
    BY <1>1, <1>3, <2>2, <2>4
  <2>5. First(new, 1 + k, s)
    BY <2>2, <2>3, <2>4 DEF First
  <2>6. Place(new, s) = 1 + k
    BY <1>1, <2>3, <2>5, PlaceIsFirst
  <2>. QED
    BY <1>1, <2>2, <2>3, <2>6 DEF Sees, k
<1>4. \A k \in DOMAIN new : new[k] = i \/ \E j \in DOMAIN list : new[k] = list[j]
  BY <1>1
<1>5. new \in Seq(Infos)
  BY <1>1
<1>. QED
  BY <1>2, <1>3, <1>4, <1>5 DEF new

(* The information of a socket is changed where it stands. *)
Replaced(list, r, i, new) ==
  /\ list \in Seq(Infos) /\ Place(list, r) # 0 /\ i \in Infos /\ i.Socket = r
  /\ new = [list EXCEPT ![Place(list, r)] = i]

LEMMA InPlace ==
  ASSUME NEW list, NEW r, NEW i, NEW new, Replaced(list, r, i, new)
  PROVE  /\ new \in Seq(Infos)
         /\ \A k \in DOMAIN new : new[k] = i \/ (k \in DOMAIN list /\ new[k] = list[k])
         /\ Place(new, r) # 0 /\ Sees(new, r) = i
         /\ \A s : s # r /\ Place(list, s) # 0 => Place(new, s) # 0 /\ Sees(new, s) = Sees(list, s)
<1> DEFINE p == Place(list, r)
<1>0. First(list, p, r) /\ new = [list EXCEPT ![p] = i]
      /\ list \in Seq(Infos) /\ i \in Infos /\ i.Socket = r
  BY PlaceIsFirst DEF Replaced
<1>. HIDE DEF p
<1>1. DOMAIN list = 1 .. Len(list) /\ Len(list) \in Nat /\ p \in 1 .. Len(list)
  BY <1>0 DEF First
<1>2. /\ new \in Seq(Infos) /\ DOMAIN new = 1 .. Len(list)
      /\ \A j \in 1 .. Len(list) : new[j] = IF j = p THEN i ELSE list[j]
  <2>1. /\ [list EXCEPT ![p] = i] \in Seq(Infos) /\ DOMAIN [list EXCEPT ![p] = i] = 1 .. Len(list)
        /\ \A j \in 1 .. Len(list) : [list EXCEPT ![p] = i][j] = IF j = p THEN i ELSE list[j]
    BY <1>0, <1>1, ExceptSeq
  <2>. QED
    BY <1>0, <2>1
<1>3. \A j \in 1 .. Len(list) : new[j].Socket = list[j].Socket
  BY <1>0, <1>2 DEF First
<1>4. ASSUME NEW s, Place(list, s) # 0
      PROVE  Place(new, s) = Place(list, s)
  <2> DEFINE k == Place(list, s)
  <2>1. First(list, k, s)
    BY <1>0, <1>4, PlaceIsFirst
  <2>. HIDE DEF k
  <2>2. k \in DOMAIN new /\ First(new, k, s)
    BY <1>1, <1>2, <1>3, <2>1 DEF First
  <2>3. Place(new, s) = k
    BY <1>2, <2>2, PlaceIsFirst
  <2>. QED
    BY <2>3 DEF k
<1>5. Place(new, r) = p /\ p # 0 /\ Sees(new, r) = i
  BY <1>1, <1>2, <1>4 DEF Sees, p
<1>6. ASSUME NEW s, s # r, Place(list, s) # 0
      PROVE  Place(new, s) # 0 /\ Sees(new, s) = Sees(list, s)
  <2> DEFINE k == Place(list, s)
  <2>1. First(list, k, s) /\ Place(new, s) = k /\ k # 0
    BY <1>0, <1>4, <1>6, PlaceIsFirst
  <2>. HIDE DEF k
  <2>2. k \in 1 .. Len(list) /\ k # p
    BY <1>0, <1>1, <1>6, <2>1 DEF First
  <2>3. new[k] = list[k]
    BY <1>2, <2>2
  <2>. QED
    BY <2>1, <2>3 DEF Sees, k
<1>7. \A k \in DOMAIN new : new[k] = i \/ (k \in DOMAIN list /\ new[k] = list[k])
  BY <1>1, <1>2
<1>. QED
  BY <1>2, <1>5, <1>6, <1>7 DEF p

LEMMA TakenOut ==
  ASSUME NEW list \in Seq(Infos), NEW r, Place(list, r) # 0
  PROVE  LET new == RemoveAt(list, Place(list, r)) IN
         /\ new \in Seq(Infos)
         /\ \A k \in DOMAIN new : \E j \in DOMAIN list : new[k] = list[j]
         /\ \A s : s # r /\ Place(list, s) # 0 => Place(new, s) # 0 /\ Sees(new, s) = Sees(list, s)
<1> DEFINE p == Place(list, r)
           new == RemoveAt(list, p)
           n == Len(list)
<1>0. First(list, p, r)
  BY PlaceIsFirst
<1>. HIDE DEF p
<1>1. DOMAIN list = 1 .. n /\ n \in Nat /\ p \in 1 .. n /\ \A k \in 1 .. n : list[k] \in Infos
  BY <1>0 DEF First
<1>2. /\ new \in Seq(Infos) /\ DOMAIN new = 1 .. n - 1
      /\ \A k \in 1 .. n - 1 : new[k] = IF k < p THEN list[k] ELSE list[k + 1]
  <2> DEFINE a == SubSeq(list, 1, p - 1)
             b == SubSeq(list, p + 1, n)
  <2>. HIDE DEF n
  <2>1. /\ a \in Seq(Infos) /\ Len(a) = p - 1
        /\ \A k \in 1 .. p - 1 : a[k] = list[k]
    <3>1. /\ 1 \in Int /\ p - 1 \in Int /\ p - 1 - 1 + 1 = p - 1 /\ (1 <= p - 1 \/ p - 1 = 0)
          /\ \A k \in 1 .. p - 1 : list[k] \in Infos
      BY <1>1
    <3>2. /\ a \in Seq(Infos) /\ Len(a) = IF 1 <= p - 1 THEN p - 1 - 1 + 1 ELSE 0
          /\ \A k \in 1 .. p - 1 - 1 + 1 : a[k] = list[1 + k - 1]
      BY <3>1, SubSeqProperties
    <3>3. \A k \in 1 .. p - 1 : 1 + k - 1 = k
      BY <1>1
    <3>. QED
      BY <3>1, <3>2, <3>3
  <2>2. /\ b \in Seq(Infos) /\ Len(b) = n - p
        /\ \A k \in 1 .. n - p : b[k] = list[p + k]
    <3>1. /\ p + 1 \in Int /\ n \in Int /\ n - (p + 1) + 1 = n - p
          /\ \A k \in p + 1 .. n : list[k] \in Infos
      BY <1>1
    <3>2. /\ b \in Seq(Infos) /\ Len(b) = IF p + 1 <= n THEN n - (p + 1) + 1 ELSE 0
          /\ \A k \in 1 .. n - (p + 1) + 1 : b[k] = list[p + 1 + k - 1]
      BY <3>1, SubSeqProperties
    <3>3. \A k \in 1 .. n - p : p + 1 + k - 1 = p + k
      BY <1>1
    <3>4. (IF p + 1 <= n THEN n - (p + 1) + 1 ELSE 0) = n - p
      BY <1>1
    <3>. QED
      BY <3>1, <3>2, <3>3, <3>4
  <2>3. new = a \o b
    BY DEF RemoveAt, n
  <2>. HIDE DEF a, b, new
  <2>4. /\ new \in Seq(Infos) /\ Len(new) = Len(a) + Len(b)
        /\ \A k \in 1 .. Len(a) + Len(b) : new[k] = IF k <= Len(a) THEN a[k] ELSE b[k - Len(a)]
    BY <2>1, <2>2, <2>3, ConcatProperties
  <2>5. Len(a) + Len(b) = n - 1 /\ DOMAIN new = 1 .. n - 1
    BY <1>1, <2>1, <2>2, <2>4
  <2>6. ASSUME NEW k \in 1 .. n - 1
        PROVE  new[k] = IF k < p THEN list[k] ELSE list[k + 1]
    <3>1. CASE k < p
      <4>1. k <= p - 1 /\ k \in 1 .. p - 1
        BY <1>1, <3>1
      <4>. QED
        BY <2>1, <2>4, <2>5, <3>1, <4>1
    <3>2. CASE ~(k < p)
      <4>1. ~(k <= p - 1) /\ k - (p - 1) \in 1 .. n - p /\ p + (k - (p - 1)) = k + 1
        BY <1>1, <3>2
      <4>. QED
        BY <2>1, <2>2, <2>4, <2>5, <3>2, <4>1
    <3>. QED
      BY <3>1, <3>2
  <2>. QED
    BY <2>4, <2>5, <2>6
<1>. HIDE DEF new, n
<1>3. ASSUME NEW k \in DOMAIN new
      PROVE  \E j \in DOMAIN list : new[k] = list[j]
  <2>1. k \in DOMAIN list /\ k + 1 \in DOMAIN list
    BY <1>1, <1>2
  <2>. QED
    BY <1>2, <2>1
<1>4. ASSUME NEW s, s # r, Place(list, s) # 0
      PROVE  Place(new, s) # 0 /\ Sees(new, s) = Sees(list, s)
  <2> DEFINE k == Place(list, s)
             m == IF k < p THEN k ELSE k - 1
  <2>1. First(list, k, s)
    BY <1>4, PlaceIsFirst
  <2>. HIDE DEF k
  <2>2. /\ k \in 1 .. n /\ k # p /\ list[k].Socket = s
        /\ \A j \in 1 .. n : j < k => list[j].Socket # s
    BY <1>0, <1>1, <1>4, <2>1 DEF First
  <2>3. m \in 1 .. n - 1 /\ new[m] = list[k]
    BY <1>1, <1>2, <2>2
  <2>4. ASSUME NEW j \in 1 .. n - 1, j < m
        PROVE  new[j].Socket # s
    <3>1. /\ j < p => j < k
          /\ ~(j < p) => j + 1 \in 1 .. n /\ j + 1 < k
      BY <1>1, <2>2, <2>4
    <3>2. j \in 1 .. n
      BY <1>1
    <3>. QED
      BY <1>2, <2>2, <3>1, <3>2
  <2>. HIDE DEF m
  <2>5. First(new, m, s)
    BY <1>2, <2>2, <2>3, <2>4 DEF First
  <2>6. Place(new, s) = m
    BY <1>2, <2>3, <2>5, PlaceIsFirst
  <2>7. m # 0
    BY <1>1, <2>3
  <2>. QED
    BY <2>3, <2>6, <2>7 DEF Sees, k
<1>. QED
  BY <1>2, <1>3, <1>4 DEF new, p

-----------------------------------------------------------------------------
(***************************************************************************)
(* The inductive invariant.  A socket's information is the first of the    *)
(* list; those that were left behind are below it.                         *)
(***************************************************************************)
Messages == [wParam : Sockets \cup {Nobody}, about : Connections \cup {Nobody},
             event : {"FD_ACCEPT", "FD_READ", "FD_WRITE", "FD_CLOSE"}]

Attached == {"open", "closing", "closed", "reset"}

Lines == [state : Attached \cup {"none", "listen", "shut"}, arrived : Seq(Bytes),
          outbound : Seq(Bytes), readArmed : BOOLEAN, blocked : BOOLEAN]

Clients == [sent : 0 .. MaxBytes, got : Seq(Bytes)]

Typed ==
  /\ messages \in Seq(Messages) /\ SocketInfoList \in Seq(Infos)
  /\ peer \in [Sockets -> Connections \cup {Nobody}] /\ backlog \in Seq(Connections)
  /\ line \in [Connections -> Lines] /\ client \in [Connections -> Clients]
  /\ crashed \in BOOLEAN /\ shortSent \in SUBSET Connections

(* A buffer that is not empty has something left to be sent. *)
Fits(i) ==
  /\ Len(i.Buffer) = i.BytesRECV /\ i.BytesRECV <= DATA_BUFSIZE
  /\ i.BytesRECV = 0 => i.BytesSEND = 0 /\ ~i.RecvPosted
  /\ i.BytesRECV # 0 => i.BytesSEND < i.BytesRECV

InfosFit == \A k \in DOMAIN SocketInfoList : Fits(SocketInfoList[k])

Peers ==
  /\ \A s, r \in Sockets : peer[s] = peer[r] /\ peer[s] # Nobody => s = r
  /\ \A s \in Sockets : peer[s] # Nobody =>
       line[peer[s]].state \in Attached /\ Place(SocketInfoList, s) # 0
  /\ \A c \in Connections : line[c].state \in Attached => \E s \in Sockets : peer[s] = c

(* There is one FD_ACCEPT at most, and then a client waits. *)
Accepting ==
  /\ \A k \in DOMAIN backlog : line[backlog[k]].state = "listen"
  /\ \A j, k \in DOMAIN backlog : backlog[j] = backlog[k] => j = k
  /\ \A j \in DOMAIN messages : messages[j].event = "FD_ACCEPT" => backlog # <<>>
  /\ \A j, k \in DOMAIN messages :
       messages[j].event = "FD_ACCEPT" /\ messages[k].event = "FD_ACCEPT" => j = k

UpTo(n) == [k \in 1 .. n |-> k]

EarlyAt(c) ==
  line[c].state \in {"none", "listen"} =>
    /\ ~line[c].readArmed /\ line[c].outbound = <<>> /\ client[c].got = <<>>
    /\ line[c].arrived = UpTo(client[c].sent)

PartedAt(c) ==
  /\ line[c].state = "closed" => line[c].arrived = <<>>
  /\ line[c].state = "reset" => line[c].outbound # <<>>

IntactAt(s, c) ==
  line[c].state = "open" =>
    client[c].got \o line[c].outbound \o Pending(Sees(SocketInfoList, s)) \o line[c].arrived
      = UpTo(client[c].sent)

ReadOf(s, c) == [wParam |-> s, event |-> "FD_READ", about |-> c]

RememberedAt(s, c) ==
  line[c].state = "open" =>
    /\ line[c].readArmed => line[c].arrived = <<>>
    /\ ~line[c].readArmed => \/ Contains(messages, ReadOf(s, c))
                             \/ Sees(SocketInfoList, s).RecvPosted

Each == \A c \in Connections : EarlyAt(c) /\ PartedAt(c)

EchoAt ==
  \A s \in Sockets, c \in Connections : peer[s] = c => IntactAt(s, c) /\ RememberedAt(s, c)

(* Every message is for the connection that has its handle, and what comes *)
(* behind an FD_CLOSE was posted for a byte sent to a client that is gone. *)
CleanAt(k) ==
  messages[k].event # "FD_ACCEPT" =>
    /\ messages[k].wParam \in Sockets /\ messages[k].about \in Connections
    /\ messages[k].about = peer[messages[k].wParam]
    /\ messages[k].event = "FD_CLOSE" =>
         /\ line[messages[k].about].state = "closed"
         /\ \A j \in DOMAIN messages :
              j > k /\ messages[j].about = messages[k].about
                => line[messages[k].about].outbound # <<>>

Clean == \A k \in DOMAIN messages : CleanAt(k)

Tidy == (\E d \in Connections : WasReset(d)) \/ Clean

EchoInv == Typed /\ InfosFit /\ Peers /\ Accepting /\ Each /\ EchoAt /\ Tidy

-----------------------------------------------------------------------------
(***************************************************************************)
(* A step at one socket: a client's, or that of a handler which closes     *)
(* nothing.  M is what it leaves in the queue, posts what it adds.         *)
(***************************************************************************)
InfosKept(s) ==
  /\ SocketInfoList' \in Seq(Infos) /\ \A k \in DOMAIN SocketInfoList' : Fits(SocketInfoList'[k])
  /\ s \in Sockets /\ peer[s] # Nobody /\ Place(SocketInfoList, s) # 0 =>
       Place(SocketInfoList', s) # 0
  /\ \A r : r # s /\ Place(SocketInfoList, r) # 0 =>
       /\ Place(SocketInfoList', r) # 0
       /\ Sees(SocketInfoList', r) = Sees(SocketInfoList, r)

QueueKept(s, M, posts) ==
  /\ messages' = M \o posts /\ posts \in Seq(Messages)
  /\ \/ M = messages
     \/ /\ messages # <<>> /\ M = Tail(messages)
        /\ Head(messages).event # "FD_ACCEPT" /\ Head(messages).wParam = s

NoAccept(posts) == \A k \in DOMAIN posts : posts[k].event # "FD_ACCEPT"

Local(c, s, M, posts) ==
  /\ \A d \in Connections : d # c => line'[d] = line[d] /\ client'[d] = client[d]
  /\ line' \in [Connections -> Lines] /\ client' \in [Connections -> Clients]
  /\ \/ c = Nobody
     \/ /\ c \in Connections /\ line[c].state = "listen" /\ line'[c].state = "listen"
     \/ /\ c \in Connections /\ line[c].state \in Attached /\ line'[c].state \in Attached
        /\ s \in Sockets /\ peer[s] = c
  /\ UNCHANGED <<peer, backlog>> /\ crashed' \in BOOLEAN /\ shortSent' \in SUBSET Connections
  /\ InfosKept(s) /\ QueueKept(s, M, posts) /\ NoAccept(posts)

(* What is in the queue after a step. *)
QueueStep(M, posts) ==
  /\ messages' = M \o posts /\ posts \in Seq(Messages)
  /\ M = messages \/ (messages # <<>> /\ M = Tail(messages))

LEMMA AfterStep ==
  ASSUME Typed, NEW M, NEW posts, QueueStep(M, posts)
  PROVE  /\ messages' \in Seq(Messages) /\ M \in Seq(Messages)
         /\ Len(M) \in Nat /\ Len(posts) \in Nat /\ DOMAIN messages = 1 .. Len(messages)
         /\ DOMAIN M = 1 .. Len(M) /\ DOMAIN posts = 1 .. Len(posts)
         /\ DOMAIN messages' = 1 .. Len(M) + Len(posts)
         /\ \E n \in {0, 1} :
              /\ Len(M) = Len(messages) - n
              /\ n = 1 => messages # <<>> /\ M = Tail(messages)
              /\ \A k \in 1 .. Len(M) :
                   k + n \in DOMAIN messages /\ M[k] = messages[k + n] /\ messages'[k] = M[k]
         /\ \A k \in 1 .. Len(posts) : messages'[Len(M) + k] = posts[k]
         /\ \A k \in DOMAIN messages' :
              k \in 1 .. Len(M) \/ (k - Len(M) \in 1 .. Len(posts) /\ messages'[k] = posts[k - Len(M)])
         /\ \A m : Contains(messages, m) => Contains(messages', m) \/ (m = messages[1] /\ M # messages)
         /\ \A m : Contains(posts, m) => Contains(messages', m)
         /\ M = messages => \A m : Contains(messages, m) => Contains(messages', m)
<1>0. messages \in Seq(Messages) /\ posts \in Seq(Messages) /\ messages' = M \o posts
  BY DEF Typed, QueueStep
<1>1. PICK n \in {0, 1} : /\ n = 0 => M = messages
                          /\ n = 1 => messages # <<>> /\ M = Tail(messages)
  BY DEF QueueStep
<1>2. /\ M \in Seq(Messages) /\ Len(M) = Len(messages) - n
      /\ n = 1 => messages # <<>> /\ M = Tail(messages) /\ M # messages
      /\ \A k \in 1 .. Len(M) : k + n \in DOMAIN messages /\ M[k] = messages[k + n]
  <2>1. CASE n = 0
    <3>1. M = messages /\ Len(messages) \in Nat /\ DOMAIN messages = 1 .. Len(messages)
      BY <1>0, <1>1, <2>1, SMTT(60)
    <3>. QED
      BY <1>0, <2>1, <3>1
  <2>2. CASE n = 1
    <3>1. messages # <<>> /\ M = Tail(messages)
      BY <1>1, <2>2
    <3>2. /\ M \in Seq(Messages) /\ Len(M) = Len(messages) - 1 /\ Head(messages) = messages[1]
          /\ DOMAIN M = 1 .. Len(messages) - 1
          /\ \A k \in DOMAIN M : k + 1 \in DOMAIN messages /\ M[k] = messages[k + 1]
      BY <1>0, <3>1, Dequeued
    <3>3. M # messages
      BY <1>0, <3>2
    <3>. QED
      BY <2>2, <3>1, <3>2, <3>3
  <2>. QED
    BY <2>1, <2>2
<1>3. /\ messages' \in Seq(Messages) /\ DOMAIN messages' = 1 .. Len(M) + Len(posts)
      /\ Len(M) \in Nat /\ Len(posts) \in Nat
      /\ DOMAIN M = 1 .. Len(M) /\ DOMAIN posts = 1 .. Len(posts)
      /\ \A k \in 1 .. Len(M) : messages'[k] = M[k]
      /\ \A k \in 1 .. Len(posts) : messages'[Len(M) + k] = posts[k]
      /\ \A k \in 1 .. Len(M) + Len(posts) :
           k \in 1 .. Len(M) \/ (k - Len(M) \in 1 .. Len(posts) /\ messages'[k] = posts[k - Len(M)])
  <2> DEFINE new == messages'
  <2>1. M \in Seq(Messages) /\ posts \in Seq(Messages) /\ new = M \o posts
    BY <1>0, <1>2
  <2>. HIDE DEF new
  <2>2. /\ new \in Seq(Messages) /\ DOMAIN new = 1 .. Len(M) + Len(posts)
        /\ Len(M) \in Nat /\ Len(posts) \in Nat
        /\ DOMAIN M = 1 .. Len(M) /\ DOMAIN posts = 1 .. Len(posts)
        /\ \A k \in 1 .. Len(M) : new[k] = M[k]
        /\ \A k \in 1 .. Len(posts) : new[Len(M) + k] = posts[k]
        /\ \A k \in 1 .. Len(M) + Len(posts) :
             k \in 1 .. Len(M) \/ (k - Len(M) \in 1 .. Len(posts) /\ new[k] = posts[k - Len(M)])
    BY <2>1, Queued
  <2>. QED
    BY <2>2 DEF new
<1>4. DOMAIN messages = 1 .. Len(messages) /\ Len(messages) \in Nat
  BY <1>0
<1>5. Len(messages') = Len(M) + Len(posts)
  BY <1>3
<1>6. ASSUME NEW m, Contains(messages, m)
      PROVE  Contains(messages', m) \/ (m = messages[1] /\ M # messages)
  <2>1. PICK k \in 1 .. Len(messages) : messages[k] = m
    BY <1>6 DEF Contains
  <2>2. CASE n = 1 /\ k = 1
    BY <1>2, <2>1, <2>2
  <2>3. CASE ~(n = 1 /\ k = 1)
    <3>1. k - n \in 1 .. Len(M) /\ (k - n) + n = k
      BY <1>2, <1>4, <2>3
    <3>2. messages'[k - n] = m /\ k - n \in 1 .. Len(M) + Len(posts)
      BY <1>2, <1>3, <2>1, <3>1
    <3>. QED
      BY <1>5, <3>2 DEF Contains
  <2>. QED
    BY <2>2, <2>3
<1>7. ASSUME NEW m, Contains(posts, m)
      PROVE  Contains(messages', m)
  <2>1. PICK k \in 1 .. Len(posts) : posts[k] = m
    BY <1>7 DEF Contains
  <2>2. Len(M) + k \in 1 .. Len(M) + Len(posts) /\ messages'[Len(M) + k] = m
    BY <1>3, <2>1
  <2>. QED
    BY <1>5, <2>2 DEF Contains
<1>8. ASSUME NEW m, Contains(messages, m), M = messages
      PROVE  Contains(messages', m)
  <2>1. PICK k \in 1 .. Len(messages) : messages[k] = m
    BY <1>8 DEF Contains
  <2>2. k \in 1 .. Len(M) + Len(posts) /\ messages'[k] = m
    BY <1>3, <1>8, <2>1, SMTT(60)
  <2>. QED
    BY <1>5, <2>2 DEF Contains
<1>. QED
  BY <1>2, <1>3, <1>4, <1>6, <1>7, <1>8

LEMMA InQueue ==
  ASSUME Typed, NEW s, NEW M, NEW posts, QueueKept(s, M, posts)
  PROVE  /\ messages' \in Seq(Messages) /\ M \in Seq(Messages)
         /\ Len(M) \in Nat /\ Len(posts) \in Nat /\ DOMAIN messages = 1 .. Len(messages)
         /\ DOMAIN M = 1 .. Len(M) /\ DOMAIN posts = 1 .. Len(posts)
         /\ DOMAIN messages' = 1 .. Len(M) + Len(posts)
         /\ \E n \in {0, 1} :
              /\ Len(M) = Len(messages) - n
              /\ n = 1 => messages # <<>> /\ messages[1].event # "FD_ACCEPT" /\ messages[1].wParam = s
              /\ \A k \in 1 .. Len(M) :
                   k + n \in DOMAIN messages /\ M[k] = messages[k + n] /\ messages'[k] = M[k]
         /\ \A k \in 1 .. Len(posts) : messages'[Len(M) + k] = posts[k]
         /\ \A k \in DOMAIN messages' :
              k \in 1 .. Len(M) \/ (k - Len(M) \in 1 .. Len(posts) /\ messages'[k] = posts[k - Len(M)])
         /\ \A m : Contains(messages, m) => Contains(messages', m) \/ (m = messages[1] /\ m.wParam = s)
         /\ \A m : Contains(posts, m) => Contains(messages', m)
         /\ M = messages => \A m : Contains(messages, m) => Contains(messages', m)
<1>1. QueueStep(M, posts) /\ messages \in Seq(Messages)
  BY DEF QueueStep, QueueKept, Typed
<1>2. M # messages =>
        messages # <<>> /\ messages[1].event # "FD_ACCEPT" /\ messages[1].wParam = s
  <2>1. messages # <<>> => Head(messages) = messages[1]
    BY <1>1, Dequeued
  <2>. QED
    BY <2>1 DEF QueueKept
<1>3. /\ messages' \in Seq(Messages) /\ M \in Seq(Messages)
      /\ Len(M) \in Nat /\ Len(posts) \in Nat /\ DOMAIN messages = 1 .. Len(messages)
      /\ DOMAIN M = 1 .. Len(M) /\ DOMAIN posts = 1 .. Len(posts)
      /\ DOMAIN messages' = 1 .. Len(M) + Len(posts)
      /\ \A k \in 1 .. Len(posts) : messages'[Len(M) + k] = posts[k]
      /\ \A k \in DOMAIN messages' :
           k \in 1 .. Len(M) \/ (k - Len(M) \in 1 .. Len(posts) /\ messages'[k] = posts[k - Len(M)])
      /\ \A m : Contains(messages, m) => Contains(messages', m) \/ (m = messages[1] /\ M # messages)
      /\ \A m : Contains(posts, m) => Contains(messages', m)
      /\ M = messages => \A m : Contains(messages, m) => Contains(messages', m)
  BY <1>1, AfterStep
<1>4. PICK n \in {0, 1} :
        /\ Len(M) = Len(messages) - n
        /\ \A k \in 1 .. Len(M) :
             k + n \in DOMAIN messages /\ M[k] = messages[k + n] /\ messages'[k] = M[k]
  BY <1>1, AfterStep
<1>5. n = 1 => M # messages
  BY <1>1, <1>4
<1>6. \A m : Contains(messages, m) => Contains(messages', m) \/ (m = messages[1] /\ m.wParam = s)
  BY <1>2, <1>3
<1>. QED
  BY <1>2, <1>3, <1>4, <1>5, <1>6

LEMMA LocalStruct ==
  ASSUME SizesAssumption, EchoInv, NEW c, NEW s, NEW M, NEW posts, Local(c, s, M, posts)
  PROVE  /\ Typed' /\ InfosFit' /\ Peers' /\ Accepting'
         /\ \A d \in Connections : d # c => EarlyAt(d)' /\ PartedAt(d)'
         /\ \A r \in Sockets, d \in Connections :
              d # c /\ peer[r] = d /\ (r # s \/ (SocketInfoList' = SocketInfoList /\ M = messages))
                => IntactAt(r, d)' /\ RememberedAt(r, d)'
<1>0. /\ Typed /\ InfosFit /\ Peers /\ Accepting /\ Each /\ EchoAt
      /\ InfosKept(s) /\ QueueKept(s, M, posts) /\ NoAccept(posts)
      /\ peer' = peer /\ backlog' = backlog
      /\ \A d \in Connections : d # c => line'[d] = line[d] /\ client'[d] = client[d]
  BY DEF EchoInv, Local
<1>1. PICK n \in {0, 1} :
        /\ Len(M) = Len(messages) - n
        /\ n = 1 => messages # <<>> /\ messages[1].event # "FD_ACCEPT" /\ messages[1].wParam = s
        /\ \A k \in 1 .. Len(M) :
             k + n \in DOMAIN messages /\ M[k] = messages[k + n] /\ messages'[k] = M[k]
  BY <1>0, InQueue
<1>2. /\ messages' \in Seq(Messages)
      /\ Len(M) \in Nat /\ DOMAIN messages = 1 .. Len(messages) /\ DOMAIN posts = 1 .. Len(posts)
      /\ \A k \in DOMAIN messages' :
           k \in 1 .. Len(M) \/ (k - Len(M) \in 1 .. Len(posts) /\ messages'[k] = posts[k - Len(M)])
      /\ \A m : Contains(messages, m) => Contains(messages', m) \/ (m = messages[1] /\ m.wParam = s)
  BY <1>0, InQueue
<1>3. Typed'
  BY <1>0, <1>2 DEF Typed, Local, InfosKept
<1>4. InfosFit'
  BY <1>0 DEF InfosFit, InfosKept
<1>5. Peers'
  <2>1. \A r \in Sockets : peer[r] # Nobody => Place(SocketInfoList', r) # 0
    BY <1>0 DEF Peers, InfosKept
  <2>2. \A r \in Sockets : peer[r] # Nobody => line'[peer[r]].state \in Attached
    <3>1. ASSUME NEW r \in Sockets, peer[r] # Nobody
          PROVE  line'[peer[r]].state \in Attached
      <4>1. peer[r] \in Connections /\ line[peer[r]].state \in Attached
        BY <1>0, <3>1 DEF Peers, Typed
      <4>. QED
        BY <1>0, <4>1 DEF Local, Attached
    <3>. QED
      BY <3>1
  <2>3. \A d \in Connections : line'[d].state \in Attached => \E r \in Sockets : peer[r] = d
    <3>1. ASSUME NEW d \in Connections, line'[d].state \in Attached
          PROVE  line[d].state \in Attached
      BY <1>0, <3>1 DEF Local, Attached
    <3>. QED
      BY <1>0, <3>1 DEF Peers
  <2>4. \A q, r \in Sockets : peer[q] = peer[r] /\ peer[q] # Nobody => q = r
    BY <1>0 DEF Peers
  <2>. QED
    BY <1>0, <2>1, <2>2, <2>3, <2>4 DEF Peers
<1>6. Accepting'
  <2>1. ASSUME NEW k \in DOMAIN backlog
        PROVE  line'[backlog[k]].state = "listen"
    <3>1. backlog[k] \in Connections /\ line[backlog[k]].state = "listen"
      BY <1>0 DEF Typed, Accepting
    <3>. QED
      BY <1>0, <3>1 DEF Local, Attached
  <2>2. ASSUME NEW k \in DOMAIN messages', messages'[k].event = "FD_ACCEPT"
        PROVE  k + n \in DOMAIN messages /\ messages[k + n].event = "FD_ACCEPT" /\ k \in Nat
    <3>1. k \in 1 .. Len(M)
      BY <1>0, <1>2, <2>2 DEF NoAccept
    <3>. QED
      BY <1>1, <1>2, <2>2, <3>1, SMTT(60)
  <2>3. \A j \in DOMAIN messages' : messages'[j].event = "FD_ACCEPT" => backlog # <<>>
    BY <1>0, <2>2 DEF Accepting
  <2>4. ASSUME NEW j \in DOMAIN messages', NEW k \in DOMAIN messages',
               messages'[j].event = "FD_ACCEPT", messages'[k].event = "FD_ACCEPT"
        PROVE  j = k
    <3>1. j + n = k + n /\ j \in Nat /\ k \in Nat
      BY <1>0, <2>2, <2>4 DEF Accepting
    <3>. QED
      BY <3>1
  <2>5. \A j, k \in DOMAIN backlog : backlog[j] = backlog[k] => j = k
    BY <1>0 DEF Accepting
  <2>. QED
    BY <1>0, <2>1, <2>3, <2>4, <2>5 DEF Accepting
<1>7. ASSUME NEW d \in Connections, d # c
      PROVE  EarlyAt(d)' /\ PartedAt(d)'
  BY <1>0, <1>7 DEF Each, EarlyAt, PartedAt
<1>8. ASSUME NEW r \in Sockets, NEW d \in Connections, d # c, peer[r] = d,
             r # s \/ (SocketInfoList' = SocketInfoList /\ M = messages)
      PROVE  IntactAt(r, d)' /\ RememberedAt(r, d)'
  <2>1. /\ line'[d] = line[d] /\ client'[d] = client[d]
        /\ Sees(SocketInfoList', r) = Sees(SocketInfoList, r)
    <3>1. peer[r] # Nobody
      BY <1>8, SizesAssumption
    <3>. QED
      BY <1>0, <1>8, <3>1 DEF Peers, InfosKept
  <2>2. IntactAt(r, d) /\ RememberedAt(r, d)
    BY <1>0, <1>8 DEF EchoAt
  <2>3. Contains(messages, ReadOf(r, d)) => Contains(messages', ReadOf(r, d))
    <3>1. ReadOf(r, d).wParam = r
      BY DEF ReadOf
    <3>2. CASE r # s
      BY <1>2, <3>1, <3>2
    <3>3. CASE M = messages
      BY <1>0, <3>3, InQueue
    <3>. QED
      BY <1>8, <3>2, <3>3
  <2>4. IntactAt(r, d)'
    BY <2>1, <2>2 DEF IntactAt
  <2>5. RememberedAt(r, d)'
    BY <2>1, <2>2, <2>3 DEF RememberedAt
  <2>. QED
    BY <2>4, <2>5
<1>. QED
  BY <1>3, <1>4, <1>5, <1>6, <1>7, <1>8

(* The messages stay clean unless a connection is reset. *)
(* What a step tells of the connection, and what it may not do to one that *)
(* an FD_CLOSE was posted for.                                             *)
Tells(c, s, posts) ==
  /\ \A k \in DOMAIN posts :
       /\ c \in Connections /\ s \in Sockets /\ peer[s] = c /\ posts[k].wParam = s /\ posts[k].about = c
       /\ posts[k].event = "FD_CLOSE" =>
            Len(posts) = 1 /\ line[c].state # "closed" /\ line'[c].state = "closed"
  /\ c \in Connections =>
       /\ line[c].state \in {"closed", "reset"} =>
            /\ line'[c].state = "reset" \/ line'[c].state = line[c].state
            /\ line[c].outbound # <<>> => line'[c].outbound # <<>>
            /\ posts # <<>> => line'[c].outbound # <<>>
       /\ line'[c].state = "reset" => line'[c].outbound # <<>>

LEMMA LocalTidy ==
  ASSUME SizesAssumption, EchoInv, NEW c, NEW s, NEW M, NEW posts, Local(c, s, M, posts),
         NoAccept(posts), Tells(c, s, posts)
  PROVE  Tidy'
<1>0. /\ Typed /\ Peers /\ Each /\ QueueKept(s, M, posts) /\ peer' = peer
      /\ \A d \in Connections : d # c => line'[d] = line[d] /\ client'[d] = client[d]
  BY DEF EchoInv, Local
<1>1. /\ \A k \in DOMAIN posts :
           /\ c \in Connections /\ s \in Sockets /\ peer[s] = c
           /\ posts[k].wParam = s /\ posts[k].about = c
           /\ posts[k].event = "FD_CLOSE" =>
                Len(posts) = 1 /\ line[c].state # "closed" /\ line'[c].state = "closed"
      /\ c \in Connections =>
           /\ line[c].state \in {"closed", "reset"} =>
                /\ line'[c].state = "reset" \/ line'[c].state = line[c].state
                /\ line[c].outbound # <<>> => line'[c].outbound # <<>>
                /\ posts # <<>> => line'[c].outbound # <<>>
           /\ line'[c].state = "reset" => line'[c].outbound # <<>>
  BY DEF Tells
<1>2. ASSUME NEW d \in Connections, WasReset(d)
      PROVE  WasReset(d)'
  <2>1. CASE d # c
    BY <1>0, <1>2, <2>1 DEF WasReset
  <2>2. CASE d = c
    <3>1. line[c].state \in Attached
      BY <1>2, <2>2, SizesAssumption DEF Local, WasReset
    <3>2. line[c].state = "reset"
      BY <1>2, <2>2, <3>1 DEF WasReset, Attached
    <3>. QED
      BY <1>2, <1>1, <2>2, <3>2 DEF WasReset
  <2>. QED
    BY <2>1, <2>2
<1>3. CASE \E d \in Connections : WasReset(d)
  BY <1>2, <1>3 DEF Tidy
<1>4. CASE c \in Connections /\ line'[c].state = "reset"
  BY <1>4, <1>1 DEF Tidy, WasReset
<1>5. CASE /\ Clean /\ ~(c \in Connections /\ line'[c].state = "reset")
  <2>1. PICK n \in {0, 1} :
          /\ Len(M) = Len(messages) - n
          /\ \A k \in 1 .. Len(M) :
               k + n \in DOMAIN messages /\ M[k] = messages[k + n] /\ messages'[k] = M[k]
    BY <1>0, InQueue
  <2>2. /\ Len(M) \in Nat /\ Len(posts) \in Nat /\ DOMAIN messages = 1 .. Len(messages)
        /\ DOMAIN posts = 1 .. Len(posts)
        /\ DOMAIN messages' = 1 .. Len(M) + Len(posts)
        /\ \A k \in DOMAIN messages' :
             k \in 1 .. Len(M) \/ (k - Len(M) \in 1 .. Len(posts) /\ messages'[k] = posts[k - Len(M)])
    BY <1>0, InQueue
  <2>3. ASSUME NEW d \in Connections, line[d].state = "closed"
        PROVE  line'[d].state = "closed" /\ (line[d].outbound # <<>> => line'[d].outbound # <<>>)
    BY <1>0, <1>1, <1>5, <2>3
  <2>4. ASSUME NEW k \in DOMAIN messages', k \in 1 .. Len(M)
        PROVE  CleanAt(k)'
    <3> DEFINE m == messages'[k]
    <3>1. /\ m = messages[k + n] /\ k + n \in DOMAIN messages /\ CleanAt(k + n) /\ k \in Nat
      BY <1>5, <2>1, <2>4 DEF Clean
    <3>. HIDE DEF m
    <3>2. SUFFICES ASSUME m.event # "FD_ACCEPT"
                   PROVE  /\ m.wParam \in Sockets /\ m.about \in Connections /\ m.about = peer'[m.wParam]
                          /\ m.event = "FD_CLOSE" =>
                               /\ line'[m.about].state = "closed"
                               /\ \A j \in DOMAIN messages' :
                                    j > k /\ messages'[j].about = m.about
                                      => line'[m.about].outbound # <<>>
      BY DEF CleanAt, m
    <3>3. /\ m.wParam \in Sockets /\ m.about \in Connections /\ m.about = peer[m.wParam]
          /\ m.event = "FD_CLOSE" =>
               /\ line[m.about].state = "closed"
               /\ \A j \in DOMAIN messages :
                    j > k + n /\ messages[j].about = m.about => line[m.about].outbound # <<>>
      BY <3>1, <3>2 DEF CleanAt
    <3>4. ASSUME m.event = "FD_CLOSE", NEW j \in DOMAIN messages', j > k, messages'[j].about = m.about
          PROVE  line'[m.about].outbound # <<>>
      <4>1. CASE j \in 1 .. Len(M)
        <5>1. j + n \in DOMAIN messages /\ messages[j + n].about = m.about
          BY <2>1, <3>4, <4>1
        <5>2. j + n > k + n
          BY <2>1, <3>1, <3>4, <4>1
        <5>. QED
          BY <2>3, <3>3, <3>4, <5>1, <5>2
      <4>2. CASE j \notin 1 .. Len(M)
        <5>1. j - Len(M) \in DOMAIN posts /\ messages'[j] = posts[j - Len(M)]
          BY <2>2, <4>2
        <5>2. m.about = c /\ c \in Connections /\ posts # <<>>
          BY <1>1, <3>4, <5>1
        <5>. QED
          BY <1>1, <3>3, <3>4, <5>2
      <4>. QED
        BY <4>1, <4>2
    <3>5. m.event = "FD_CLOSE" => line'[m.about].state = "closed"
      BY <2>3, <3>3
    <3>. QED
      BY <1>0, <3>3, <3>4, <3>5
  <2>5. ASSUME NEW k \in DOMAIN messages', k \notin 1 .. Len(M)
        PROVE  CleanAt(k)'
    <3>1. k - Len(M) \in DOMAIN posts /\ messages'[k] = posts[k - Len(M)]
      BY <2>2, <2>5
    <3>2. /\ c \in Connections /\ s \in Sockets /\ peer'[s] = c
          /\ messages'[k].wParam = s /\ messages'[k].about = c
          /\ messages'[k].event = "FD_CLOSE" => Len(posts) = 1 /\ line'[c].state = "closed"
      BY <1>0, <1>1, <3>1
    <3>3. ASSUME NEW j \in DOMAIN messages', j > k
          PROVE  Len(posts) # 1
      BY <2>2, <2>5, <3>1, <3>3
    <3>. QED
      BY <3>2, <3>3 DEF CleanAt
  <2>. QED
    BY <2>4, <2>5 DEF Tidy, Clean
<1>. QED
  BY <1>3, <1>4, <1>5 DEF EchoInv, Tidy

LEMMA LocalKeeps ==
  ASSUME SizesAssumption, EchoInv, NEW c, NEW s, NEW M, NEW posts, Local(c, s, M, posts),
         \/ s \in Sockets /\ peer[s] = c
         \/ s \in Sockets /\ peer[s] = Nobody
         \/ SocketInfoList' = SocketInfoList /\ M = messages,
         c \in Connections =>
           /\ EarlyAt(c)' /\ PartedAt(c)'
           /\ s \in Sockets /\ peer[s] = c => IntactAt(s, c)' /\ RememberedAt(s, c)',
         Tidy'
  PROVE  EchoInv'
<1>0. /\ Typed /\ Peers /\ peer' = peer
      /\ Typed' /\ InfosFit' /\ Peers' /\ Accepting'
      /\ \A d \in Connections : d # c => EarlyAt(d)' /\ PartedAt(d)'
  BY LocalStruct DEF EchoInv, Local
<1>1. Each'
  BY <1>0 DEF Each
<1>2. ASSUME NEW r \in Sockets, NEW d \in Connections, peer[r] = d
      PROVE  IntactAt(r, d)' /\ RememberedAt(r, d)'
  <2>1. line[d].state \in Attached /\ d # Nobody
    BY <1>0, <1>2, SizesAssumption DEF Peers
  <2>2. CASE d = c
    <3>1. s \in Sockets /\ peer[s] = c
      BY <2>1, <2>2 DEF Local, Attached
    <3>2. r = s
      BY <1>0, <1>2, <2>1, <2>2, <3>1 DEF Peers
    <3>. QED
      BY <2>2, <3>1, <3>2
  <2>3. CASE d # c
    <3>1. r # s \/ (SocketInfoList' = SocketInfoList /\ M = messages)
      BY <1>2, <2>1, <2>3
    <3>. QED
      BY <1>2, <2>3, <3>1, LocalStruct
  <2>. QED
    BY <2>2, <2>3
<1>3. EchoAt'
  BY <1>0, <1>2 DEF EchoAt
<1>. QED
  BY <1>0, <1>1, <1>3 DEF EchoInv

-----------------------------------------------------------------------------
(***************************************************************************)
(* The stream of a connection, from the client back to the client.         *)
(***************************************************************************)
LEMMA UpToSeq == \A n \in Nat : UpTo(n) \in Seq(1 .. n) /\ Len(UpTo(n)) = n
<1>1. ASSUME NEW n \in Nat
      PROVE  UpTo(n) \in Seq(1 .. n) /\ Len(UpTo(n)) = n
  <2>1. UpTo(n) \in [1 .. n -> 1 .. n]
    BY DEF UpTo
  <2>. QED
    BY <1>1, <2>1 DEF UpTo
<1>. QED
  BY <1>1

LEMMA UpToNext == \A n \in Nat : Append(UpTo(n), n + 1) = UpTo(n + 1)
<1>1. ASSUME NEW n \in Nat
      PROVE  Append(UpTo(n), n + 1) = UpTo(n + 1)
  <2> DEFINE a == Append(UpTo(n), n + 1)
             b == UpTo(n + 1)
  <2>1. UpTo(n) \in Seq(Nat) /\ Len(UpTo(n)) = n
    <3>1. 1 .. n \subseteq Nat
      OBVIOUS
    <3>. QED
      BY <3>1, UpToSeq, SeqMonotonic
  <2>2. /\ a \in Seq(Nat) /\ Len(a) = n + 1 /\ a[n + 1] = n + 1
        /\ \A i \in 1 .. n : a[i] = UpTo(n)[i]
    BY <2>1, AppendProperties
  <2>3. b \in Seq(Nat) /\ Len(b) = n + 1 /\ \A i \in 1 .. n + 1 : b[i] = i
    <3>1. n + 1 \in Nat /\ 1 .. n + 1 \subseteq Nat
      OBVIOUS
    <3>2. b \in Seq(1 .. n + 1) /\ Len(b) = n + 1
      BY <3>1, UpToSeq
    <3>3. \A i \in 1 .. n + 1 : b[i] = i
      BY DEF UpTo
    <3>. QED
      BY <3>1, <3>2, <3>3, SeqMonotonic
  <2>4. \A i \in 1 .. n : UpTo(n)[i] = i
    BY DEF UpTo
  <2>. HIDE DEF a, b
  <2>5. \A i \in 1 .. Len(a) : a[i] = b[i]
    BY <2>2, <2>3, <2>4
  <2>6. a = b
    BY <2>2, <2>3, <2>5, SeqEqual
  <2>. QED
    BY <2>6 DEF a, b
<1>. QED
  BY <1>1

(* A byte more at the end; one byte moves from the second part to the first. *)
LEMMA OneMore ==
  ASSUME NEW S, NEW q \in Seq(S), NEW r \in Seq(S), NEW x \in S
  PROVE  q \o Append(r, x) = Append(q \o r, x)
<1>1. <<x>> \in Seq(S) /\ Append(r, x) = r \o <<x>>
  BY AppendIsConcat
<1>2. q \o r \in Seq(S) /\ Append(q \o r, x) = (q \o r) \o <<x>>
  BY ConcatProperties, AppendIsConcat
<1>3. q \o (r \o <<x>>) = (q \o r) \o <<x>>
  BY <1>1, ConcatAssociative
<1>. QED
  BY <1>1, <1>2, <1>3

LEMMA OneOver ==
  ASSUME NEW S, NEW a \in Seq(S), NEW b \in Seq(S), b # <<>>
  PROVE  /\ Append(a, Head(b)) \o Tail(b) = a \o b
         /\ Append(a, Head(b)) \in Seq(S) /\ Tail(b) \in Seq(S)
<1>1. Head(b) \in S /\ Tail(b) \in Seq(S) /\ <<Head(b)>> \in Seq(S)
  BY HeadTailProperties
<1>2. Append(a, Head(b)) = a \o <<Head(b)>> /\ Append(a, Head(b)) \in Seq(S)
  BY <1>1, AppendIsConcat, AppendProperties
<1>3. <<Head(b)>> \o Tail(b) = b
  <2>1. Len(b) \in Nat \ {0} /\ Head(b) = b[1] /\ Tail(b) = SubSeq(b, 2, Len(b))
    BY TailIsSubSeq
  <2>2. 1 \in 1 .. Len(b) /\ Len(b) \in 1 .. Len(b) /\ 1 + 1 = 2
    BY <2>1
  <2>3. SubSeq(b, 1, Len(b)) = <<b[1]>> \o SubSeq(b, 1 + 1, Len(b))
    BY <2>2, SubSeqRecursiveFirst
  <2>. QED
    BY <2>1, <2>2, <2>3, SubSeqFull
<1>4. (a \o <<Head(b)>>) \o Tail(b) = a \o (<<Head(b)>> \o Tail(b))
  BY <1>1, ConcatAssociative
<1>. QED
  BY <1>1, <1>2, <1>3, <1>4

(* The information of a connected socket. *)
LEMMA InfoOf ==
  ASSUME Typed, InfosFit, NEW s, Place(SocketInfoList, s) # 0
  PROVE  LET i == Sees(SocketInfoList, s) IN
         /\ Place(SocketInfoList, s) \in DOMAIN SocketInfoList
         /\ i \in Infos /\ i.Socket = s /\ Fits(i)
         /\ i.Buffer \in Seq(Bytes) /\ i.BytesSEND \in Nat /\ i.BytesRECV \in Nat
         /\ i.BytesSEND <= i.BytesRECV /\ Len(i.Buffer) = i.BytesRECV
<1> DEFINE i == Sees(SocketInfoList, s)
<1>1. /\ Place(SocketInfoList, s) \in DOMAIN SocketInfoList
      /\ i.Socket = s
  BY PlaceIsFirst DEF Typed, First, Sees
<1>2. i \in Infos /\ Fits(i)
  BY <1>1 DEF Typed, InfosFit, Sees
<1>. HIDE DEF i
<1>3. /\ i.Buffer \in Seq(Bytes) /\ i.BytesSEND \in Nat /\ i.BytesRECV \in Nat
      /\ i.BytesSEND <= i.BytesRECV /\ Len(i.Buffer) = i.BytesRECV
  BY <1>2 DEF Infos, Fits
<1>. QED
  BY <1>1, <1>2, <1>3 DEF i

LEMMA PendingTyped ==
  ASSUME Typed, InfosFit, NEW s, Place(SocketInfoList, s) # 0
  PROVE  Pending(Sees(SocketInfoList, s)) \in Seq(Bytes)
<1> DEFINE i == Sees(SocketInfoList, s)
<1>1. /\ i.Buffer \in Seq(Bytes) /\ i.BytesSEND \in Nat /\ i.BytesRECV \in Nat
      /\ i.BytesSEND <= i.BytesRECV /\ Len(i.Buffer) = i.BytesRECV
  BY InfoOf
<1>. HIDE DEF i
<1>2. i.BytesSEND \in 0 .. Len(i.Buffer)
  BY <1>1
<1>3. SubSeq(i.Buffer, i.BytesSEND + 1, Len(i.Buffer)) \in Seq(Bytes)
  BY <1>1, <1>2, CutInTwo
<1>4. Pending(i) \in Seq(Bytes)
  BY <1>1, <1>3 DEF Pending
<1>. QED
  BY <1>4 DEF i

-----------------------------------------------------------------------------
(***************************************************************************)
(* The steps of the clients and of Winsock.                                *)
(***************************************************************************)
LEMMA HandleOf ==
  ASSUME Peers, NEW c \in Connections, line[c].state \in Attached
  PROVE  /\ Handle(c) \in Sockets /\ peer[Handle(c)] = c
         /\ \A s \in Sockets : peer[s] = c => s = Handle(c)
BY DEF Handle, Peers

LEMMA EventOf ==
  ASSUME Typed, NEW s \in Sockets, NEW e \in {"FD_READ", "FD_WRITE", "FD_CLOSE"}
  PROVE  /\ Event(s, e) \in Messages /\ Event(s, e).event = e /\ Event(s, e).wParam = s
         /\ Event(s, e).about = peer[s]
         /\ <<Event(s, e)>> \in Seq(Messages) /\ Len(<<Event(s, e)>>) = 1
         /\ DOMAIN <<Event(s, e)>> = {1} /\ <<Event(s, e)>>[1] = Event(s, e)
<1>1. /\ Event(s, e) \in Messages /\ Event(s, e).event = e /\ Event(s, e).wParam = s
      /\ Event(s, e).about = peer[s]
  BY DEF Event, Messages, Typed
<1>2. \A m \in Messages : <<m>> \in Seq(Messages) /\ Len(<<m>>) = 1 /\ DOMAIN <<m>> = {1} /\ <<m>>[1] = m
  OBVIOUS
<1>. QED
  BY <1>1, <1>2

LEMMA HasOne == \A m : Contains(<<m>>, m)
BY DEF Contains

LEMMA Nothing ==
  /\ <<>> \in Seq(Messages) /\ Len(<<>>) = 0 /\ DOMAIN <<>> = {}
  /\ \A q \in Seq(Messages) : q \o <<>> = q
BY EmptySeq, ConcatEmptySeq

(* The list is not changed by a client. *)
LEMMA ListStays ==
  ASSUME Typed, InfosFit, SocketInfoList' = SocketInfoList, NEW s
  PROVE  InfosKept(s)
BY DEF Typed, InfosFit, InfosKept

LEMMA LineStep ==
  ASSUME Typed, NEW c \in Connections, NEW w \in Lines, line' = [line EXCEPT ![c] = w]
  PROVE  /\ line' \in [Connections -> Lines] /\ line'[c] = w
         /\ \A d \in Connections : d # c => line'[d] = line[d]
BY DEF Typed

LEMMA ClientSendsKeeps ==
  ASSUME SizesAssumption, EchoInv, NEW c \in Connections, ClientSends(c)
  PROVE  EchoInv'
<1> DEFINE w == [line[c] EXCEPT !.arrived = Append(@, client[c].sent + 1)]
           n == client[c].sent
           posts == IF line[c].readArmed THEN <<Event(Handle(c), "FD_READ")>> ELSE <<>>
<1>0. Typed /\ InfosFit /\ Peers /\ Each /\ EchoAt
  BY DEF EchoInv
<1>1. PICK s : s = IF line[c].state = "open" THEN Handle(c) ELSE Nobody
  OBVIOUS
<1>2. /\ line[c] \in Lines /\ client[c] \in Clients /\ n \in Nat /\ n < MaxBytes /\ n + 1 \in Bytes
      /\ line[c].arrived \in Seq(Bytes)
  BY <1>0, SizesAssumption DEF Typed, Lines, Clients, ClientSends, Bytes
<1>3. Append(line[c].arrived, n + 1) \in Seq(Bytes) /\ Append(line[c].arrived, n + 1) # <<>>
  BY <1>2, AppendProperties
<1>4. /\ w \in Lines /\ w.arrived = Append(line[c].arrived, n + 1)
      /\ w.state = line[c].state /\ w.outbound = line[c].outbound /\ w.readArmed = line[c].readArmed
  BY <1>2, <1>3 DEF Lines
<1>5. /\ line[c].state \in {"listen", "open"} /\ n < MaxBytes
      /\ client' = [client EXCEPT ![c].sent = n + 1]
      /\ line' = [line EXCEPT ![c] = Notified(w)]
      /\ messages' = messages \o ReadDue(w, Event(Handle(c), "FD_READ"))
      /\ UNCHANGED <<SocketInfoList, crashed, peer, backlog, shortSent>>
  BY DEF ClientSends, Post
<1>. HIDE DEF w, n
<1>6. ReadDue(w, Event(Handle(c), "FD_READ")) = posts
  BY <1>3, <1>4 DEF ReadDue
<1>7. /\ Notified(w) \in Lines /\ ~Notified(w).readArmed /\ Notified(w).state = line[c].state
      /\ Notified(w).outbound = line[c].outbound
      /\ Notified(w).arrived = Append(line[c].arrived, n + 1)
  BY <1>3, <1>4 DEF Notified, Lines
<1>8. /\ line' \in [Connections -> Lines] /\ line'[c] = Notified(w)
      /\ \A d \in Connections : d # c => line'[d] = line[d]
  BY <1>0, <1>5, <1>7, LineStep
<1>9. /\ client' \in [Connections -> Clients] /\ client'[c].sent = n + 1 /\ client'[c].got = client[c].got
      /\ \A d \in Connections : d # c => client'[d] = client[d]
  <2>1. client \in [Connections -> Clients] /\ n + 1 \in 0 .. MaxBytes
    BY <1>0, <1>2, SizesAssumption DEF Typed, Bytes
  <2>. QED
    BY <1>2, <1>5, <2>1 DEF Clients
<1>10. line[c].readArmed => line[c].state = "open"
  BY <1>0, <1>5 DEF Each, EarlyAt
<1>11. line[c].state = "open" =>
         s = Handle(c) /\ s \in Sockets /\ peer[s] = c /\ \A r \in Sockets : peer[r] = c => r = s
  BY <1>0, <1>1, HandleOf DEF Attached
<1>12. /\ posts \in Seq(Messages) /\ NoAccept(posts)
       /\ \A k \in DOMAIN posts : /\ posts[k].event = "FD_READ" /\ posts[k].wParam = s
                                  /\ posts[k].about = c /\ line[c].state = "open"
       /\ line[c].readArmed => posts = <<ReadOf(s, c)>>
  <2>1. CASE line[c].readArmed
    <3>1. posts = <<Event(s, "FD_READ")>> /\ s \in Sockets /\ peer[s] = c
      BY <1>10, <1>11, <2>1
    <3>2. Event(s, "FD_READ") = ReadOf(s, c)
      BY <3>1 DEF Event, ReadOf
    <3>. QED
      BY <1>0, <1>10, <2>1, <3>1, <3>2, EventOf DEF NoAccept
  <2>2. CASE ~line[c].readArmed
    BY <2>2, Nothing DEF NoAccept
  <2>. QED
    BY <2>1, <2>2
<1>. HIDE DEF posts
<1>13. Local(c, s, messages, posts)
  <2>1. InfosKept(s)
    BY <1>0, <1>5, ListStays
  <2>2. QueueKept(s, messages, posts)
    BY <1>5, <1>6, <1>12 DEF QueueKept
  <2>3. \/ c \in Connections /\ line[c].state = "listen" /\ line'[c].state = "listen"
        \/ /\ c \in Connections /\ line[c].state \in Attached /\ line'[c].state \in Attached
           /\ s \in Sockets /\ peer[s] = c
    BY <1>5, <1>7, <1>8, <1>11 DEF Attached
  <2>4. crashed' \in BOOLEAN /\ shortSent' \in SUBSET Connections
    BY <1>0, <1>5 DEF Typed
  <2>. QED
    BY <1>5, <1>8, <1>9, <1>12, <2>1, <2>2, <2>3, <2>4 DEF Local
<1>14. Tidy'
  <2>1. line[c].state \notin {"closed", "reset"} /\ line'[c].state # "reset"
    BY <1>5, <1>7, <1>8
  <2>2. \A k \in DOMAIN posts :
          /\ c \in Connections /\ s \in Sockets /\ peer[s] = c /\ posts[k].wParam = s /\ posts[k].about = c
          /\ posts[k].event # "FD_CLOSE"
    BY <1>11, <1>12
  <2>3. Tells(c, s, posts)
    BY <2>1, <2>2 DEF Tells
  <2>. QED
    BY <1>12, <1>13, <2>3, LocalTidy
<1>15. EarlyAt(c)' /\ PartedAt(c)'
  <2>1. line[c].state = "listen" =>
          line[c].arrived = UpTo(n) /\ client[c].got = <<>> /\ line[c].outbound = <<>>
    BY <1>0 DEF Each, EarlyAt, n
  <2>. QED
    BY <1>2, <1>5, <1>7, <1>8, <1>9, <2>1, UpToNext DEF EarlyAt, PartedAt
<1>16. ASSUME s \in Sockets, peer[s] = c
       PROVE  IntactAt(s, c)' /\ RememberedAt(s, c)'
  <2>1. line[c].state = "open"
    BY <1>0, <1>5, <1>16, SizesAssumption DEF Peers, Attached
  <2>2. RememberedAt(s, c)'
    <3>1. Contains(messages', ReadOf(s, c)) \/ Sees(SocketInfoList, s).RecvPosted
      <4>1. CASE line[c].readArmed
        <5>1. Contains(posts, ReadOf(s, c))
          BY <1>12, <4>1, HasOne
        <5>. QED
          BY <1>0, <1>13, <5>1, InQueue DEF Local
      <4>2. CASE ~line[c].readArmed
        <5>1. Contains(messages, ReadOf(s, c)) \/ Sees(SocketInfoList, s).RecvPosted
          BY <1>0, <1>16, <2>1, <4>2 DEF EchoAt, RememberedAt
        <5>. QED
          BY <1>0, <1>13, <5>1, InQueue DEF Local
      <4>. QED
        BY <4>1, <4>2
    <3>. QED
      BY <1>5, <1>7, <1>8, <3>1 DEF RememberedAt
  <2>3. IntactAt(s, c)'
    <3> DEFINE g == client[c].got
               o == line[c].outbound
               p == Pending(Sees(SocketInfoList, s))
               a == line[c].arrived
    <3>1. g \in Seq(Bytes) /\ o \in Seq(Bytes) /\ a \in Seq(Bytes)
      BY <1>2 DEF Clients, Lines
    <3>2. p \in Seq(Bytes)
      BY <1>0, <1>16, SizesAssumption, PendingTyped DEF Peers
    <3>3. g \o o \o p \o a = UpTo(n)
      BY <1>0, <1>16, <2>1 DEF EchoAt, IntactAt, n
    <3>. HIDE DEF g, o, p, a
    <3>4. g \o o \o p \o Append(a, n + 1) = UpTo(n + 1)
      <4>1. g \o o \o p \o Append(a, n + 1) = Append(g \o o \o p \o a, n + 1)
        <5>1. PICK x \in Bytes : x = n + 1
          BY <1>2
        <5>2. PICK q \in Seq(Bytes) : q = g \o o \o p
          BY <3>1, <3>2, ConcatProperties
        <5>3. q \o Append(a, x) = Append(q \o a, x)
          BY <3>1, OneMore
        <5>. QED
          BY <5>1, <5>2, <5>3
      <4>. QED
        BY <1>2, <3>3, <4>1, UpToNext
    <3>. QED
      BY <1>5, <1>7, <1>8, <1>9, <3>4 DEF IntactAt, g, o, p, a
  <2>. QED
    BY <2>2, <2>3
<1>. QED
  BY <1>5, <1>13, <1>14, <1>15, <1>16, LocalKeeps

LEMMA ClientReadsKeeps ==
  ASSUME SizesAssumption, EchoInv, NEW c \in Connections, ClientReads(c)
  PROVE  EchoInv'
<1> DEFINE posts == IF line[c].blocked THEN <<Event(Handle(c), "FD_WRITE")>> ELSE <<>>
<1>0. Typed /\ InfosFit /\ Peers /\ Each /\ EchoAt
  BY DEF EchoInv
<1>1. /\ line[c].state = "open" /\ line[c].outbound # <<>>
      /\ messages' = messages \o posts
      /\ UNCHANGED <<SocketInfoList, crashed, peer, backlog, shortSent>>
  BY DEF ClientReads, Post
<1>2. PICK s \in Sockets : s = Handle(c) /\ peer[s] = c /\ \A r \in Sockets : peer[r] = c => r = s
  BY <1>0, <1>1, HandleOf DEF Attached
<1>3. /\ line[c] \in Lines /\ client[c] \in Clients
      /\ line[c].outbound \in Seq(Bytes) /\ client[c].got \in Seq(Bytes)
  BY <1>0 DEF Typed, Lines, Clients
<1>4. /\ Append(client[c].got, Head(line[c].outbound)) \o Tail(line[c].outbound)
           = client[c].got \o line[c].outbound
      /\ Append(client[c].got, Head(line[c].outbound)) \in Seq(Bytes)
      /\ Tail(line[c].outbound) \in Seq(Bytes)
  BY <1>1, <1>3, OneOver
<1>5. /\ client' = [client EXCEPT ![c].got = Append(client[c].got, Head(line[c].outbound))]
      /\ line' = [line EXCEPT ![c].outbound = Tail(line[c].outbound), ![c].blocked = FALSE]
  BY DEF ClientReads
<1>6. /\ line' \in [Connections -> Lines] /\ line'[c].state = "open"
      /\ line'[c].outbound = Tail(line[c].outbound) /\ line'[c].arrived = line[c].arrived
      /\ line'[c].readArmed = line[c].readArmed
      /\ \A d \in Connections : d # c => line'[d] = line[d]
  BY <1>0, <1>1, <1>3, <1>4, <1>5 DEF Typed, Lines
<1>7. /\ client' \in [Connections -> Clients] /\ client'[c].sent = client[c].sent
      /\ client'[c].got = Append(client[c].got, Head(line[c].outbound))
      /\ \A d \in Connections : d # c => client'[d] = client[d]
  BY <1>0, <1>3, <1>4, <1>5 DEF Typed, Clients
<1>8. /\ posts \in Seq(Messages) /\ NoAccept(posts)
      /\ \A k \in DOMAIN posts : posts[k].event = "FD_WRITE" /\ posts[k].wParam = s /\ posts[k].about = c
  <2>1. CASE line[c].blocked
    BY <1>0, <1>2, <2>1, EventOf DEF NoAccept
  <2>2. CASE ~line[c].blocked
    BY <2>2, Nothing DEF NoAccept
  <2>. QED
    BY <2>1, <2>2
<1>. HIDE DEF posts
<1>9. Local(c, s, messages, posts)
  <2>1. InfosKept(s)
    BY <1>0, <1>1, ListStays
  <2>2. QueueKept(s, messages, posts)
    BY <1>1, <1>8 DEF QueueKept
  <2>3. crashed' \in BOOLEAN /\ shortSent' \in SUBSET Connections
    BY <1>0, <1>1 DEF Typed
  <2>. QED
    BY <1>1, <1>2, <1>6, <1>7, <1>8, <2>1, <2>2, <2>3 DEF Local, Attached
<1>10. Tidy'
  <2>1. line[c].state \notin {"closed", "reset"} /\ line'[c].state # "reset"
    BY <1>1, <1>6
  <2>2. \A k \in DOMAIN posts :
          /\ c \in Connections /\ s \in Sockets /\ peer[s] = c /\ posts[k].wParam = s /\ posts[k].about = c
          /\ posts[k].event # "FD_CLOSE"
    BY <1>2, <1>8
  <2>3. Tells(c, s, posts)
    BY <2>1, <2>2 DEF Tells
  <2>. QED
    BY <1>8, <1>9, <2>3, LocalTidy
<1>11. EarlyAt(c)' /\ PartedAt(c)'
  BY <1>6, SMTT(60) DEF EarlyAt, PartedAt
<1>12. IntactAt(s, c)'
  <2>1. client[c].got \o line[c].outbound \o Pending(Sees(SocketInfoList, s)) \o line[c].arrived
          = UpTo(client[c].sent)
    BY <1>0, <1>1, <1>2 DEF EchoAt, IntactAt
  <2>. QED
    BY <1>1, <1>4, <1>6, <1>7, <2>1 DEF IntactAt
<1>13. RememberedAt(s, c)'
  <2>1. Contains(messages, ReadOf(s, c)) => Contains(messages', ReadOf(s, c))
    BY <1>0, <1>9, InQueue DEF Local
  <2>2. RememberedAt(s, c)
    BY <1>0, <1>2 DEF EchoAt
  <2>. QED
    BY <1>1, <1>6, <2>1, <2>2 DEF RememberedAt
<1>. QED
  BY <1>1, <1>2, <1>9, <1>10, <1>11, <1>12, <1>13, LocalKeeps

(* A client goes, or Winsock tells that it has gone. *)
Leaves(c, w, posts) ==
  /\ w \in Lines /\ line[c].state \in {"open", "closing", "closed"}
  /\ line' = [line EXCEPT ![c] = w] /\ messages' = messages \o posts
  /\ posts \in {<<>>, <<Event(Handle(c), "FD_CLOSE")>>}
  /\ UNCHANGED <<SocketInfoList, crashed, peer, backlog, client, shortSent>>
  /\ \/ w.state = "reset" /\ w.outbound # <<>>
     \/ w.state = "closing" /\ line[c].state = "open" /\ posts = <<>>
     \/ w.state = "closed" /\ line[c].state = "closing" /\ w.arrived = <<>>

LEMMA Departs ==
  ASSUME SizesAssumption, EchoInv, NEW c \in Connections, NEW w, NEW posts, Leaves(c, w, posts)
  PROVE  EchoInv'
<1>0. /\ Typed /\ InfosFit /\ Peers
      /\ w \in Lines /\ line[c].state \in {"open", "closing", "closed"}
      /\ line' = [line EXCEPT ![c] = w] /\ messages' = messages \o posts
      /\ posts \in {<<>>, <<Event(Handle(c), "FD_CLOSE")>>}
      /\ UNCHANGED <<SocketInfoList, crashed, peer, backlog, client, shortSent>>
      /\ \/ w.state = "reset" /\ w.outbound # <<>>
         \/ w.state = "closing" /\ line[c].state = "open" /\ posts = <<>>
         \/ w.state = "closed" /\ line[c].state = "closing" /\ w.arrived = <<>>
  BY DEF EchoInv, Leaves
<1>1. PICK s \in Sockets : s = Handle(c) /\ peer[s] = c
  BY <1>0, HandleOf DEF Attached
<1>2. line' \in [Connections -> Lines] /\ line'[c] = w
      /\ \A d \in Connections : d # c => line'[d] = line[d]
  BY <1>0, LineStep
<1>3. /\ posts \in Seq(Messages) /\ NoAccept(posts) /\ (posts = <<>> \/ Len(posts) = 1)
      /\ \A k \in DOMAIN posts : posts[k].event = "FD_CLOSE" /\ posts[k].wParam = s /\ posts[k].about = c
  <2>1. CASE posts = <<>>
    BY <2>1, Nothing DEF NoAccept
  <2>2. CASE posts = <<Event(s, "FD_CLOSE")>>
    BY <1>0, <1>1, <2>2, EventOf DEF NoAccept
  <2>. QED
    BY <1>0, <1>1, <2>1, <2>2
<1>4. Local(c, s, messages, posts)
  <2>1. InfosKept(s)
    BY <1>0, ListStays
  <2>2. QueueKept(s, messages, posts)
    BY <1>0, <1>3 DEF QueueKept
  <2>3. crashed' \in BOOLEAN /\ shortSent' \in SUBSET Connections /\ client' \in [Connections -> Clients]
    BY <1>0 DEF Typed
  <2>4. line[c].state \in Attached /\ line'[c].state \in Attached
    BY <1>0, <1>2 DEF Attached
  <2>. QED
    BY <1>0, <1>1, <1>2, <1>3, <2>1, <2>2, <2>3, <2>4 DEF Local
<1>5. Tidy'
  <2>1. CASE w.state = "reset" /\ w.outbound # <<>>
    BY <1>2, <2>1 DEF Tidy, WasReset
  <2>2. CASE w.state # "reset"
    <3>1. line[c].state \notin {"closed", "reset"} /\ line'[c].state # "reset"
      BY <1>0, <1>2, <2>2
    <3>2. posts = <<>> \/ (Len(posts) = 1 /\ line'[c].state = "closed" /\ line[c].state # "closed")
      BY <1>0, <1>2, <1>3, <2>2
    <3>3. \A k \in DOMAIN posts :
            /\ c \in Connections /\ s \in Sockets /\ peer[s] = c
            /\ posts[k].wParam = s /\ posts[k].about = c
            /\ posts[k].event = "FD_CLOSE" =>
                 Len(posts) = 1 /\ line[c].state # "closed" /\ line'[c].state = "closed"
      BY <1>1, <1>3, <3>2, Nothing
    <3>4. Tells(c, s, posts)
      BY <3>1, <3>3 DEF Tells
    <3>. QED
      BY <1>3, <1>4, <3>4, LocalTidy
  <2>. QED
    BY <1>0, <2>1, <2>2
<1>6. EarlyAt(c)' /\ PartedAt(c)' /\ IntactAt(s, c)' /\ RememberedAt(s, c)'
  BY <1>0, <1>2 DEF EarlyAt, PartedAt, IntactAt, RememberedAt
<1>. QED
  BY <1>0, <1>1, <1>4, <1>5, <1>6, LocalKeeps

LEMMA ClientClosesKeeps ==
  ASSUME SizesAssumption, EchoInv, NEW c \in Connections,
         ClientCloses(c) \/ CloseNotified(c) \/ Reset(c)
  PROVE  EchoInv'
<1> DEFINE left == [line[c] EXCEPT !.state = "closing"]
           gone == [line[c] EXCEPT !.state = "closed"]
           cut  == [line[c] EXCEPT !.state = "reset", !.arrived = <<>>]
<1>0. Typed /\ line \in [Connections -> Lines] /\ line[c] \in Lines /\ messages \in Seq(Messages)
  BY DEF EchoInv, Typed
<1>1. /\ left \in Lines /\ left.state = "closing"
      /\ gone \in Lines /\ gone.state = "closed" /\ gone.arrived = line[c].arrived
      /\ cut \in Lines /\ cut.state = "reset" /\ cut.outbound = line[c].outbound
  BY <1>0, EmptySeq DEF Lines, Attached
<1>2. /\ [line EXCEPT ![c].state = "closing"] = [line EXCEPT ![c] = left]
      /\ [line EXCEPT ![c].state = "closed"] = [line EXCEPT ![c] = gone]
      /\ [line EXCEPT ![c].state = "reset", ![c].arrived = <<>>] = [line EXCEPT ![c] = cut]
  BY <1>0 DEF Lines
<1>. HIDE DEF left, gone, cut
<1>3. messages \o <<>> = messages
  BY <1>0, Nothing
<1>4. CASE ClientCloses(c)
  <2>1. CASE line[c].outbound = <<>>
    <3>1. Leaves(c, left, <<>>)
      BY <1>1, <1>2, <1>3, <1>4, <2>1 DEF ClientCloses, Leaves
    <3>. QED
      BY <3>1, Departs
  <2>2. CASE line[c].outbound # <<>>
    <3>1. Leaves(c, cut, <<Event(Handle(c), "FD_CLOSE")>>)
      BY <1>1, <1>2, <1>4, <2>2 DEF ClientCloses, Leaves, Post
    <3>. QED
      BY <3>1, Departs
  <2>. QED
    BY <2>1, <2>2
<1>5. CASE CloseNotified(c)
  <2>1. Leaves(c, gone, <<Event(Handle(c), "FD_CLOSE")>>)
    BY <1>1, <1>2, <1>5 DEF CloseNotified, Leaves, Post
  <2>. QED
    BY <2>1, Departs
<1>6. CASE Reset(c)
  <2>1. \E posts : Leaves(c, cut, posts)
    BY <1>1, <1>2, <1>6 DEF Reset, Leaves, Post
  <2>. QED
    BY <2>1, Departs
<1>. QED
  BY <1>4, <1>5, <1>6

-----------------------------------------------------------------------------
(***************************************************************************)
(* The steps that bring a connection nearer: it waits, it is accepted, or  *)
(* the accepted socket is closed again.  w is its line then, and s, if it  *)
(* has one, its handle.                                                    *)
(***************************************************************************)
Opens(c, s, w, M, posts) ==
  /\ c \in Connections /\ line[c].state \in {"none", "listen"}
  /\ w \in Lines /\ line' = [line EXCEPT ![c] = w]
  /\ UNCHANGED <<crashed, client, shortSent>> /\ backlog' \in Seq(Connections)
  /\ InfosKept(s) /\ (SocketInfoList' = SocketInfoList \/ (s \in Sockets /\ peer[s] = Nobody))
  /\ \/ peer' = peer /\ w.state \in {"listen", "shut"}
     \/ /\ s \in Sockets /\ peer[s] = Nobody /\ peer' = [peer EXCEPT ![s] = c]
        /\ w.state = "open" /\ Place(SocketInfoList', s) # 0
  /\ QueueStep(M, posts) /\ (M = messages \/ Head(messages).event = "FD_ACCEPT")
  /\ \A k \in DOMAIN posts :
       \/ posts[k] = NewClient
       \/ /\ posts[k].event \in {"FD_READ", "FD_WRITE"}
          /\ s \in Sockets /\ posts[k].wParam = s /\ posts[k].about = c /\ peer'[s] = c

LEMMA OpensStruct ==
  ASSUME SizesAssumption, EchoInv, NEW c, NEW s, NEW w, NEW M, NEW posts, Opens(c, s, w, M, posts)
  PROVE  /\ Typed' /\ InfosFit' /\ Peers'
         /\ line'[c] = w
         /\ \A d \in Connections : d # c => line'[d] = line[d]
         /\ \A r \in Sockets : peer[r] # Nobody => peer'[r] = peer[r] /\ peer[r] # c
<1>0. /\ Typed /\ InfosFit /\ Peers
      /\ c \in Connections /\ line[c].state \in {"none", "listen"}
      /\ w \in Lines /\ line' = [line EXCEPT ![c] = w]
      /\ UNCHANGED <<crashed, client, shortSent>> /\ backlog' \in Seq(Connections)
      /\ InfosKept(s) /\ (SocketInfoList' = SocketInfoList \/ (s \in Sockets /\ peer[s] = Nobody))
      /\ \/ peer' = peer /\ w.state \in {"listen", "shut"}
         \/ /\ s \in Sockets /\ peer[s] = Nobody /\ peer' = [peer EXCEPT ![s] = c]
            /\ w.state = "open" /\ Place(SocketInfoList', s) # 0
      /\ QueueStep(M, posts)
  BY DEF EchoInv, Opens
<1>1. messages' \in Seq(Messages)
  BY <1>0, AfterStep
<1>2. /\ line' \in [Connections -> Lines] /\ line'[c] = w
      /\ \A d \in Connections : d # c => line'[d] = line[d]
  BY <1>0, LineStep
<1>3. peer \in [Sockets -> Connections \cup {Nobody}] /\ peer' \in [Sockets -> Connections \cup {Nobody}]
  BY <1>0 DEF Typed
<1>4. Typed' /\ InfosFit'
  BY <1>0, <1>1, <1>2, <1>3 DEF Typed, InfosFit, InfosKept
<1>5. \A r \in Sockets : peer[r] # c
  BY <1>0, SizesAssumption DEF Peers, Attached
<1>6. \A r \in Sockets : peer[r] # Nobody => peer'[r] = peer[r]
  BY <1>0, <1>3
<1>7. \A r \in Sockets : peer[r] # Nobody =>
        line'[peer[r]].state \in Attached /\ Place(SocketInfoList', r) # 0
  <2>1. ASSUME NEW r \in Sockets, peer[r] # Nobody
        PROVE  line'[peer[r]].state \in Attached /\ Place(SocketInfoList', r) # 0
    <3>1. /\ peer[r] \in Connections /\ line[peer[r]].state \in Attached
          /\ Place(SocketInfoList, r) # 0
      BY <1>0, <1>3, <2>1 DEF Peers
    <3>2. line'[peer[r]] = line[peer[r]]
      BY <1>2, <1>5, <3>1
    <3>3. Place(SocketInfoList', r) # 0
      BY <1>0, <2>1, <3>1 DEF InfosKept
    <3>. QED
      BY <3>1, <3>2, <3>3
  <2>. QED
    BY <2>1
<1>8. Peers'
  <2>1. CASE peer' = peer /\ w.state \in {"listen", "shut"}
    <3>1. \A d \in Connections : line'[d].state \in Attached => line[d].state \in Attached
      BY <1>2, <2>1 DEF Attached
    <3>. QED
      BY <1>0, <1>7, <2>1, <3>1 DEF Peers
  <2>2. CASE /\ s \in Sockets /\ peer[s] = Nobody /\ peer' = [peer EXCEPT ![s] = c]
             /\ w.state = "open" /\ Place(SocketInfoList', s) # 0
    <3>1. peer'[s] = c /\ \A r \in Sockets : r # s => peer'[r] = peer[r]
      BY <1>3, <2>2
    <3>2. \A q, r \in Sockets : peer'[q] = peer'[r] /\ peer'[q] # Nobody => q = r
      BY <1>0, <1>5, <3>1 DEF Peers
    <3>3. \A r \in Sockets : peer'[r] # Nobody =>
            line'[peer'[r]].state \in Attached /\ Place(SocketInfoList', r) # 0
      BY <1>2, <1>7, <2>2, <3>1 DEF Attached
    <3>4. \A d \in Connections : line'[d].state \in Attached => \E r \in Sockets : peer'[r] = d
      <4>1. ASSUME NEW d \in Connections, d # c, line'[d].state \in Attached
            PROVE  \E r \in Sockets : peer'[r] = d
        <5>1. PICK r \in Sockets : peer[r] = d
          BY <1>0, <1>2, <4>1 DEF Peers
        <5>2. r # s
          BY <2>2, <5>1, SizesAssumption
        <5>. QED
          BY <3>1, <5>1, <5>2
      <4>. QED
        BY <2>2, <3>1, <4>1
    <3>. QED
      BY <3>2, <3>3, <3>4 DEF Peers
  <2>. QED
    BY <1>0, <2>1, <2>2
<1>. QED
  BY <1>2, <1>4, <1>5, <1>6, <1>8

LEMMA OpensTidy ==
  ASSUME SizesAssumption, EchoInv, NEW c, NEW s, NEW w, NEW M, NEW posts, Opens(c, s, w, M, posts)
  PROVE  Tidy'
<1>0. /\ Typed /\ c \in Connections /\ line[c].state \in {"none", "listen"} /\ QueueStep(M, posts)
      /\ \A k \in DOMAIN posts :
           \/ posts[k] = NewClient
           \/ /\ posts[k].event \in {"FD_READ", "FD_WRITE"}
              /\ s \in Sockets /\ posts[k].wParam = s /\ posts[k].about = c /\ peer'[s] = c
  BY DEF EchoInv, Opens
<1>1. /\ \A d \in Connections : d # c => line'[d] = line[d]
      /\ \A r \in Sockets : peer[r] # Nobody => peer'[r] = peer[r] /\ peer[r] # c
  BY OpensStruct
<1>2. CASE \E d \in Connections : WasReset(d)
  BY <1>0, <1>1, <1>2 DEF Tidy, WasReset
<1>3. CASE Clean
  <2>1. PICK n \in {0, 1} :
          /\ Len(M) = Len(messages) - n
          /\ \A k \in 1 .. Len(M) :
               k + n \in DOMAIN messages /\ M[k] = messages[k + n] /\ messages'[k] = M[k]
    BY <1>0, AfterStep
  <2>2. /\ Len(M) \in Nat /\ Len(posts) \in Nat /\ DOMAIN messages = 1 .. Len(messages)
        /\ DOMAIN posts = 1 .. Len(posts)
        /\ DOMAIN messages' = 1 .. Len(M) + Len(posts)
        /\ \A k \in DOMAIN messages' :
             k \in 1 .. Len(M) \/ (k - Len(M) \in 1 .. Len(posts) /\ messages'[k] = posts[k - Len(M)])
    BY <1>0, AfterStep
  <2>3. NewClient.event = "FD_ACCEPT" /\ NewClient.about = Nobody /\ Nobody \notin Connections
    BY SizesAssumption DEF NewClient
  <2>4. ASSUME NEW k \in DOMAIN messages', k \in 1 .. Len(M)
        PROVE  CleanAt(k)'
    <3> DEFINE m == messages'[k]
    <3>1. /\ m = messages[k + n] /\ k + n \in DOMAIN messages /\ CleanAt(k + n) /\ k \in Nat
      BY <1>3, <2>1, <2>4 DEF Clean
    <3>. HIDE DEF m
    <3>2. SUFFICES ASSUME m.event # "FD_ACCEPT"
                   PROVE  /\ m.wParam \in Sockets /\ m.about \in Connections /\ m.about = peer'[m.wParam]
                          /\ m.event = "FD_CLOSE" =>
                               /\ line'[m.about].state = "closed"
                               /\ \A j \in DOMAIN messages' :
                                    j > k /\ messages'[j].about = m.about
                                      => line'[m.about].outbound # <<>>
      BY DEF CleanAt, m
    <3>3. /\ m.wParam \in Sockets /\ m.about \in Connections /\ m.about = peer[m.wParam]
          /\ m.event = "FD_CLOSE" =>
               /\ line[m.about].state = "closed"
               /\ \A j \in DOMAIN messages :
                    j > k + n /\ messages[j].about = m.about => line[m.about].outbound # <<>>
      BY <3>1, <3>2 DEF CleanAt
    <3>4. m.about # c /\ m.about = peer'[m.wParam] /\ line'[m.about] = line[m.about]
      BY <1>1, <2>3, <3>3
    <3>5. ASSUME m.event = "FD_CLOSE", NEW j \in DOMAIN messages', j > k, messages'[j].about = m.about
          PROVE  line'[m.about].outbound # <<>>
      <4>1. j \in 1 .. Len(M)
        <5>1. j - Len(M) \in DOMAIN posts => messages'[j] # posts[j - Len(M)]
          BY <1>0, <2>3, <3>3, <3>4, <3>5
        <5>. QED
          BY <2>2, <5>1
      <4>2. j + n \in DOMAIN messages /\ messages[j + n].about = m.about
        BY <2>1, <3>5, <4>1
      <4>3. j + n > k + n
        BY <2>1, <3>1, <3>5, <4>1
      <4>. QED
        BY <3>3, <3>4, <3>5, <4>2, <4>3
    <3>. QED
      BY <3>3, <3>4, <3>5
  <2>5. ASSUME NEW k \in DOMAIN messages', k \notin 1 .. Len(M)
        PROVE  CleanAt(k)'
    <3>1. k - Len(M) \in DOMAIN posts /\ messages'[k] = posts[k - Len(M)]
      BY <2>2, <2>5
    <3>. QED
      BY <1>0, <2>3, <3>1 DEF CleanAt
  <2>. QED
    BY <2>4, <2>5 DEF Tidy, Clean
<1>. QED
  BY <1>2, <1>3 DEF EchoInv, Tidy

LEMMA OpensKeeps ==
  ASSUME SizesAssumption, EchoInv, NEW c, NEW s, NEW w, NEW M, NEW posts, Opens(c, s, w, M, posts),
         Accepting', EarlyAt(c)', PartedAt(c)',
         s \in Sockets /\ peer'[s] = c => IntactAt(s, c)' /\ RememberedAt(s, c)'
  PROVE  EchoInv'
<1>0. /\ Typed /\ Peers /\ Each /\ EchoAt /\ QueueStep(M, posts) /\ InfosKept(s) /\ client' = client
      /\ SocketInfoList' = SocketInfoList \/ (s \in Sockets /\ peer[s] = Nobody)
      /\ M = messages \/ Head(messages).event = "FD_ACCEPT"
      /\ peer' = peer \/ (s \in Sockets /\ peer[s] = Nobody /\ peer' = [peer EXCEPT ![s] = c])
      /\ c \in Connections
  BY DEF EchoInv, Opens
<1>1. /\ Typed' /\ InfosFit' /\ Peers' /\ Tidy'
      /\ \A d \in Connections : d # c => line'[d] = line[d]
      /\ \A r \in Sockets : peer[r] # Nobody => peer'[r] = peer[r] /\ peer[r] # c
  BY OpensStruct, OpensTidy
<1>2. Each'
  <2>1. ASSUME NEW d \in Connections, d # c
        PROVE  EarlyAt(d)' /\ PartedAt(d)'
    BY <1>0, <1>1, <2>1 DEF Each, EarlyAt, PartedAt
  <2>. QED
    BY <2>1 DEF Each
<1>3. ASSUME NEW r \in Sockets, NEW d \in Connections, peer'[r] = d
      PROVE  IntactAt(r, d)' /\ RememberedAt(r, d)'
  <2>1. CASE peer[r] = Nobody
    <3>1. r = s /\ d = c
      BY <1>0, <1>3, <2>1, SizesAssumption DEF Typed
    <3>. QED
      BY <1>3, <3>1
  <2>2. CASE peer[r] # Nobody
    <3>1. peer[r] = d /\ d # c /\ line'[d] = line[d]
      BY <1>1, <1>3, <2>2
    <3>2. Sees(SocketInfoList', r) = Sees(SocketInfoList, r)
      BY <1>0, <2>2 DEF Peers, InfosKept
    <3>3. Contains(messages, ReadOf(r, d)) => Contains(messages', ReadOf(r, d))
      <4>1. M # messages => messages[1].event = "FD_ACCEPT"
        BY <1>0, Dequeued DEF QueueStep, Typed
      <4>2. ReadOf(r, d).event = "FD_READ"
        BY DEF ReadOf
      <4>. QED
        BY <1>0, <4>1, <4>2, AfterStep
    <3>4. IntactAt(r, d) /\ RememberedAt(r, d)
      BY <1>0, <3>1 DEF EchoAt
    <3>. QED
      BY <1>0, <3>1, <3>2, <3>3, <3>4 DEF IntactAt, RememberedAt
  <2>. QED
    BY <2>1, <2>2
<1>4. EchoAt'
  BY <1>3 DEF EchoAt
<1>. QED
  BY <1>1, <1>2, <1>4 DEF EchoInv

LEMMA NewClientIs ==
  /\ NewClient \in Messages /\ NewClient.event = "FD_ACCEPT" /\ NewClient.about = Nobody
  /\ <<NewClient>> \in Seq(Messages) /\ Len(<<NewClient>>) = 1 /\ DOMAIN <<NewClient>> = {1}
  /\ <<NewClient>>[1] = NewClient
<1>1. NewClient \in Messages /\ NewClient.event = "FD_ACCEPT" /\ NewClient.about = Nobody
  BY DEF NewClient, Messages
<1>2. \A m \in Messages : <<m>> \in Seq(Messages) /\ Len(<<m>>) = 1 /\ DOMAIN <<m>> = {1} /\ <<m>>[1] = m
  OBVIOUS
<1>. QED
  BY <1>1, <1>2

LEMMA ConnectKeeps ==
  ASSUME SizesAssumption, EchoInv, NEW c \in Connections, Connect(c)
  PROVE  EchoInv'
<1> DEFINE w == [line[c] EXCEPT !.state = "listen"]
           posts == IF backlog = <<>> THEN <<NewClient>> ELSE <<>>
<1>0. /\ Typed /\ InfosFit /\ Peers /\ Accepting /\ Each /\ EchoAt
      /\ line \in [Connections -> Lines] /\ line[c] \in Lines /\ backlog \in Seq(Connections)
  BY DEF EchoInv, Typed
<1>1. /\ line[c].state = "none" /\ backlog' = Append(backlog, c) /\ messages' = messages \o posts
      /\ line' = [line EXCEPT ![c].state = "listen"]
      /\ UNCHANGED <<SocketInfoList, crashed, peer, client, shortSent>>
  BY DEF Connect, Post
<1>2. /\ w \in Lines /\ w.state = "listen" /\ w.arrived = line[c].arrived
      /\ w.outbound = line[c].outbound /\ w.readArmed = line[c].readArmed
      /\ line' = [line EXCEPT ![c] = w]
  BY <1>0, <1>1 DEF Lines
<1>3. /\ backlog' \in Seq(Connections) /\ Len(backlog') = Len(backlog) + 1 /\ Len(backlog) \in Nat
      /\ backlog'[Len(backlog) + 1] = c
      /\ \A k \in 1 .. Len(backlog) : backlog'[k] = backlog[k]
  BY <1>0, <1>1, AppendProperties
<1>. HIDE DEF w
<1>4. /\ posts \in Seq(Messages) /\ \A k \in DOMAIN posts : posts[k] = NewClient
      /\ DOMAIN posts \subseteq {1} /\ (posts # <<>> => backlog = <<>>)
  <2>1. CASE backlog = <<>>
    BY <2>1, NewClientIs
  <2>2. CASE backlog # <<>>
    BY <2>2, Nothing
  <2>. QED
    BY <2>1, <2>2
<1>. HIDE DEF posts
<1>5. QueueStep(messages, posts)
  BY <1>1, <1>4 DEF QueueStep
<1>6. PICK s : s = Nobody
  OBVIOUS
<1>7. Opens(c, s, w, messages, posts)
  <2>1. InfosKept(s)
    BY <1>0, <1>1, ListStays
  <2>. QED
    BY <1>1, <1>2, <1>3, <1>4, <1>5, <2>1 DEF Opens
<1>8. line'[c] = w /\ \A d \in Connections : d # c => line'[d] = line[d]
  BY <1>7, OpensStruct
<1>9. Accepting'
  <2>1. \A k \in 1 .. Len(backlog) : backlog[k] \in Connections /\ backlog[k] # c
    BY <1>0, <1>1 DEF Accepting
  <2>2. \A k \in DOMAIN backlog' : k \in 1 .. Len(backlog) \/ k = Len(backlog) + 1
    BY <1>3
  <2>3. \A k \in DOMAIN backlog' : line'[backlog'[k]].state = "listen"
    BY <1>0, <1>2, <1>3, <1>8, <2>1, <2>2 DEF Accepting
  <2>4. \A j, k \in DOMAIN backlog' : backlog'[j] = backlog'[k] => j = k
    BY <1>0, <1>3, <2>1, <2>2 DEF Accepting
  <2>5. backlog' # <<>>
    BY <1>3
  <2>6. /\ DOMAIN messages = 1 .. Len(messages) /\ Len(messages) \in Nat
        /\ \A k \in 1 .. Len(messages) : messages'[k] = messages[k]
        /\ \A k \in DOMAIN messages' :
             \/ k \in 1 .. Len(messages)
             \/ k - Len(messages) \in DOMAIN posts /\ k \in Nat
    <3>1. PICK n \in {0, 1} :
            /\ Len(messages) = Len(messages) - n
            /\ \A k \in 1 .. Len(messages) : messages[k] = messages[k + n] /\ messages'[k] = messages[k]
      BY <1>0, <1>5, AfterStep
    <3>2. /\ DOMAIN messages = 1 .. Len(messages) /\ Len(messages) \in Nat /\ Len(posts) \in Nat
          /\ DOMAIN posts = 1 .. Len(posts) /\ DOMAIN messages' = 1 .. Len(messages) + Len(posts)
          /\ \A k \in DOMAIN messages' :
               k \in 1 .. Len(messages) \/ k - Len(messages) \in 1 .. Len(posts)
      BY <1>0, <1>5, AfterStep
    <3>. QED
      BY <3>1, <3>2
  <2>7. ASSUME NEW j \in DOMAIN messages', NEW k \in DOMAIN messages',
               messages'[j].event = "FD_ACCEPT", messages'[k].event = "FD_ACCEPT"
        PROVE  j = k
    <3>1. CASE posts = <<>>
      BY <1>0, <2>6, <2>7, <3>1, Nothing DEF Accepting
    <3>2. CASE posts # <<>>
      <4>1. \A i \in 1 .. Len(messages) : messages'[i].event # "FD_ACCEPT"
        BY <1>0, <1>4, <2>6, <3>2 DEF Accepting
      <4>2. j - Len(messages) = 1 /\ k - Len(messages) = 1 /\ j \in Nat /\ k \in Nat
        BY <1>4, <2>6, <2>7, <4>1
      <4>. QED
        BY <2>6, <4>2
    <3>. QED
      BY <3>1, <3>2
  <2>. QED
    BY <2>3, <2>4, <2>5, <2>7 DEF Accepting
<1>10. EarlyAt(c)' /\ PartedAt(c)'
  BY <1>0, <1>1, <1>2, <1>8 DEF Each, EarlyAt, PartedAt
<1>11. s \in Sockets => peer'[s] # c
  BY <1>0, <1>1 DEF Peers, Attached
<1>12. s \in Sockets /\ peer'[s] = c => IntactAt(s, c)' /\ RememberedAt(s, c)'
  BY <1>11
<1>. QED
  BY <1>7, <1>9, <1>10, <1>12, OpensKeeps

(* The head of the queue is the one FD_ACCEPT, and the first client waits. *)
LEMMA Accepts ==
  ASSUME SizesAssumption, EchoInv, NEW s \in Sockets, Handles(Nobody, "FD_ACCEPT"), NEW posts,
         backlog' = Tail(backlog), Handled(posts), posts \in Seq(Messages),
         \A k \in DOMAIN posts : posts[k].event = "FD_ACCEPT" => k = 1 /\ Len(backlog) > 1,
         \A d \in Connections : d # Head(backlog) => line'[d] = line[d]
  PROVE  /\ Head(backlog) \in Connections /\ line[Head(backlog)].state = "listen"
         /\ QueueStep(Tail(messages), posts) /\ Head(messages).event = "FD_ACCEPT"
         /\ backlog' \in Seq(Connections) /\ Accepting'
<1>0. /\ Typed /\ Accepting /\ messages \in Seq(Messages) /\ backlog \in Seq(Connections)
      /\ messages # <<>> /\ Head(messages).event = "FD_ACCEPT" /\ messages' = Tail(messages) \o posts
  BY DEF EchoInv, Typed, Handles, Handled
<1>1. /\ 1 \in DOMAIN messages /\ messages[1].event = "FD_ACCEPT" /\ Len(messages) \in Nat
      /\ Len(Tail(messages)) = Len(messages) - 1
      /\ \A i \in DOMAIN Tail(messages) :
           i \in Nat \ {0} /\ i + 1 \in DOMAIN messages /\ Tail(messages)[i] = messages[i + 1]
  BY <1>0, Dequeued
<1>2. backlog # <<>>
  BY <1>0, <1>1 DEF Accepting
<1>3. /\ Tail(backlog) \in Seq(Connections) /\ DOMAIN Tail(backlog) = 1 .. Len(backlog) - 1
      /\ Head(backlog) = backlog[1] /\ Head(backlog) \in Connections /\ 1 \in DOMAIN backlog
      /\ Len(backlog) \in Nat
      /\ \A i \in DOMAIN Tail(backlog) :
           i \in Nat \ {0} /\ i + 1 \in DOMAIN backlog /\ Tail(backlog)[i] = backlog[i + 1]
  BY <1>0, <1>2, Dequeued
<1>4. line[Head(backlog)].state = "listen"
  BY <1>0, <1>3 DEF Accepting
<1>5. QueueStep(Tail(messages), posts)
  BY <1>0 DEF QueueStep
<1>6. ASSUME NEW i \in DOMAIN Tail(messages)
      PROVE  Tail(messages)[i].event # "FD_ACCEPT"
  <2>1. i + 1 # 1
    BY <1>1
  <2>. QED
    BY <1>0, <1>1, <2>1, SMTT(60) DEF Accepting
<1>7. \A k \in DOMAIN backlog' :
        line'[backlog'[k]].state = "listen" /\ backlog'[k] = backlog[k + 1]
  <2>1. ASSUME NEW k \in DOMAIN Tail(backlog)
        PROVE  line'[Tail(backlog)[k]].state = "listen" /\ Tail(backlog)[k] = backlog[k + 1]
    <3>1. k + 1 # 1 /\ k + 1 \in DOMAIN backlog /\ Tail(backlog)[k] = backlog[k + 1]
      BY <1>3
    <3>2. backlog[k + 1] # backlog[1] /\ line[backlog[k + 1]].state = "listen"
      BY <1>0, <1>3, <3>1 DEF Accepting
    <3>3. backlog[k + 1] \in Connections
      BY <1>0, <3>1
    <3>. QED
      BY <1>3, <3>1, <3>2, <3>3
  <2>. QED
    BY <2>1
<1>8. \A j, k \in DOMAIN backlog' : backlog'[j] = backlog'[k] => j = k
  <2>1. ASSUME NEW j \in DOMAIN Tail(backlog), NEW k \in DOMAIN Tail(backlog),
               Tail(backlog)[j] = Tail(backlog)[k]
        PROVE  j = k
    <3>1. j + 1 = k + 1
      BY <1>0, <1>3, <2>1 DEF Accepting
    <3>. QED
      BY <1>3, <3>1
  <2>. QED
    BY <2>1
<1>9. /\ Len(Tail(messages)) \in Nat /\ DOMAIN Tail(messages) = 1 .. Len(Tail(messages))
      /\ \A k \in 1 .. Len(Tail(messages)) : messages'[k] = Tail(messages)[k]
      /\ \A k \in DOMAIN messages' :
           \/ k \in 1 .. Len(Tail(messages))
           \/ /\ k \in Nat /\ k - Len(Tail(messages)) \in DOMAIN posts
              /\ messages'[k] = posts[k - Len(Tail(messages))]
  <2>1. PICK n \in {0, 1} :
          /\ \A k \in 1 .. Len(Tail(messages)) :
               k + n \in DOMAIN messages /\ messages'[k] = Tail(messages)[k]
    BY <1>0, <1>5, AfterStep
  <2>2. PICK M : M = Tail(messages)
    OBVIOUS
  <2>3. Typed /\ QueueStep(M, posts)
    BY <1>0, <1>5, <2>2
  <2>4. /\ Len(M) \in Nat /\ Len(posts) \in Nat
        /\ DOMAIN M = 1 .. Len(M) /\ DOMAIN posts = 1 .. Len(posts)
        /\ DOMAIN messages' = 1 .. Len(M) + Len(posts)
        /\ \A k \in DOMAIN messages' :
             k \in 1 .. Len(M) \/ (k - Len(M) \in 1 .. Len(posts) /\ messages'[k] = posts[k - Len(M)])
    BY <2>3, AfterStep
  <2>5. \A k \in DOMAIN messages' : k \in Nat
    BY <2>4
  <2>. QED
    BY <2>1, <2>2, <2>4, <2>5
<1>10. ASSUME NEW k \in DOMAIN messages', messages'[k].event = "FD_ACCEPT"
       PROVE  k \in Nat /\ k - Len(Tail(messages)) = 1 /\ Len(backlog) > 1
  <2>1. k \notin 1 .. Len(Tail(messages))
    BY <1>6, <1>9, <1>10
  <2>. QED
    BY <1>9, <1>10, <2>1
<1>11. Len(backlog) > 1 => backlog' # <<>>
  <2>1. Len(backlog) > 1 => 1 \in DOMAIN Tail(backlog)
    BY <1>3
  <2>. QED
    BY <2>1, Nothing
<1>12. \A j, k \in DOMAIN messages' :
         messages'[j].event = "FD_ACCEPT" /\ messages'[k].event = "FD_ACCEPT" => j = k
  <2>1. \A j, k \in Nat : j - Len(Tail(messages)) = 1 /\ k - Len(Tail(messages)) = 1 => j = k
    BY <1>9
  <2>. QED
    BY <1>10, <2>1
<1>13. Accepting'
  BY <1>7, <1>8, <1>10, <1>11, <1>12 DEF Accepting
<1>. QED
  BY <1>3, <1>4, <1>5, <1>0, <1>13

(* The information that Accept puts in front. *)
LEMMA Created ==
  ASSUME SizesAssumption, Typed, InfosFit, NEW s \in Sockets, CreateSocketInformation(s)
  PROVE  /\ InfosKept(s) /\ Place(SocketInfoList', s) # 0
         /\ Pending(Sees(SocketInfoList', s)) = <<>>
<1> DEFINE i == [Socket |-> s, RecvPosted |-> FALSE, Buffer |-> <<>>, BytesSEND |-> 0, BytesRECV |-> 0]
<1>1. i \in Infos /\ i.Socket = s /\ Fits(i)
  BY SizesAssumption, EmptySeq DEF Infos, Fits
<1>2. Pending(i) = <<>>
  <2>1. SubSeq(<<>>, 0 + 1, 0) = <<>>
    BY SubSeqEmpty
  <2>. QED
    BY <2>1 DEF Pending
<1>3. SocketInfoList' = <<i>> \o SocketInfoList /\ SocketInfoList \in Seq(Infos)
  BY DEF CreateSocketInformation, Typed
<1>. HIDE DEF i
<1> DEFINE new == <<i>> \o SocketInfoList
<1>4. /\ new \in Seq(Infos)
      /\ \A k \in DOMAIN new : new[k] = i \/ \E j \in DOMAIN SocketInfoList : new[k] = SocketInfoList[j]
      /\ Place(new, s) # 0 /\ Sees(new, s) = i
      /\ \A r : r # s /\ Place(SocketInfoList, r) # 0 =>
           Place(new, r) # 0 /\ Sees(new, r) = Sees(SocketInfoList, r)
  BY <1>1, <1>3, InFront
<1>. HIDE DEF new
<1>5. SocketInfoList' = new
  BY <1>3 DEF new
<1>6. \A k \in DOMAIN new : Fits(new[k])
  BY <1>1, <1>4 DEF InfosFit
<1>. QED
  BY <1>2, <1>4, <1>5, <1>6 DEF InfosKept

LEMMA AcceptFailsKeeps ==
  ASSUME SizesAssumption, EchoInv, NEW s \in Sockets, AcceptFails(s)
  PROVE  EchoInv'
<1> DEFINE posts == NextClient
<1>0. /\ Typed /\ InfosFit /\ Peers /\ line \in [Connections -> Lines]
  BY DEF EchoInv, Typed
<1>1. /\ Handles(Nobody, "FD_ACCEPT") /\ peer[s] = Nobody
      /\ backlog' = Tail(backlog) /\ CreateSocketInformation(s)
      /\ line' = [line EXCEPT ![Head(backlog)].state = "shut"] /\ Handled(posts)
      /\ UNCHANGED <<crashed, peer, client, shortSent>>
  BY DEF AcceptFails
<1>2. /\ posts \in Seq(Messages) /\ \A k \in DOMAIN posts : posts[k] = NewClient /\ k = 1 /\ Len(backlog) > 1
  <2>1. CASE Len(backlog) > 1
    BY <2>1, NewClientIs DEF NextClient
  <2>2. CASE ~(Len(backlog) > 1)
    BY <2>2, Nothing DEF NextClient
  <2>. QED
    BY <2>1, <2>2
<1>. HIDE DEF posts
<1>3. \A d \in Connections : d # Head(backlog) => line'[d] = line[d]
  BY <1>0, <1>1
<1>4. PICK c : c = Head(backlog)
  OBVIOUS
<1>5. /\ c \in Connections /\ line[c].state = "listen"
      /\ QueueStep(Tail(messages), posts) /\ Head(messages).event = "FD_ACCEPT"
      /\ backlog' \in Seq(Connections) /\ Accepting'
  BY <1>1, <1>2, <1>3, <1>4, Accepts
<1> DEFINE w == [line[c] EXCEPT !.state = "shut"]
<1>6. w \in Lines /\ w.state = "shut" /\ line' = [line EXCEPT ![c] = w]
  BY <1>0, <1>1, <1>4, <1>5 DEF Lines
<1>. HIDE DEF w
<1>7. Opens(c, s, w, Tail(messages), posts)
  <2>1. InfosKept(s)
    BY <1>0, <1>1, Created
  <2>. QED
    BY <1>1, <1>2, <1>5, <1>6, <2>1 DEF Opens
<1>8. line'[c] = w
  BY <1>7, OpensStruct
<1>9. EarlyAt(c)' /\ PartedAt(c)'
  BY <1>6, <1>8 DEF EarlyAt, PartedAt
<1>10. IntactAt(s, c)' /\ RememberedAt(s, c)'
  BY <1>6, <1>8 DEF IntactAt, RememberedAt
<1>. QED
  BY <1>5, <1>7, <1>9, <1>10, OpensKeeps

(* What Accept posts: of the next client first, of this one then. *)
AcceptTells(s, c, due, last, posts) ==
  /\ due \in {<<>>, <<ReadOf(s, c)>>} /\ last \in Messages
  /\ last.event = "FD_WRITE" /\ last.wParam = s /\ last.about = c
  /\ posts = NextClient \o due \o <<last>>

LEMMA AcceptPosts ==
  ASSUME NEW s \in Sockets, NEW c \in Connections, NEW due, NEW last, NEW posts,
         AcceptTells(s, c, due, last, posts)
  PROVE  /\ posts \in Seq(Messages)
         /\ \A k \in DOMAIN posts :
              \/ posts[k] = NewClient /\ k = 1 /\ Len(backlog) > 1
              \/ /\ posts[k].event \in {"FD_READ", "FD_WRITE"}
                 /\ posts[k].wParam = s /\ posts[k].about = c
         /\ due # <<>> => Contains(posts, ReadOf(s, c))
<1>0. /\ due \in {<<>>, <<ReadOf(s, c)>>} /\ last \in Messages
      /\ last.event = "FD_WRITE" /\ last.wParam = s /\ last.about = c
      /\ posts = NextClient \o due \o <<last>>
  BY DEF AcceptTells
<1>1. /\ ReadOf(s, c) \in Messages /\ ReadOf(s, c).event = "FD_READ"
      /\ ReadOf(s, c).wParam = s /\ ReadOf(s, c).about = c
  BY DEF ReadOf, Messages
<1>2. \A m \in Messages : <<m>> \in Seq(Messages) /\ Len(<<m>>) = 1 /\ DOMAIN <<m>> = {1} /\ <<m>>[1] = m
  OBVIOUS
<1>3. PICK next : /\ next = NextClient /\ next \in Seq(Messages)
                  /\ \A k \in DOMAIN next : next[k] = NewClient /\ k = 1 /\ Len(backlog) > 1
  BY <1>2, NewClientIs, Nothing DEF NextClient
<1>4. due \in Seq(Messages) /\ \A k \in DOMAIN due : due[k] = ReadOf(s, c)
  <2>1. CASE due = <<>>
    BY <2>1, Nothing
  <2>2. CASE due = <<ReadOf(s, c)>>
    BY <1>1, <1>2, <2>2
  <2>. QED
    BY <1>0, <2>1, <2>2
<1>5. PICK end : end = <<last>> /\ end \in Seq(Messages) /\ Len(end) = 1 /\ end[1] = last /\ DOMAIN end = {1}
  BY <1>0, <1>2
<1>6. PICK front : front = next \o due
  OBVIOUS
<1>7. /\ front \in Seq(Messages) /\ DOMAIN front = 1 .. Len(next) + Len(due)
      /\ Len(next) \in Nat /\ Len(due) \in Nat /\ DOMAIN next = 1 .. Len(next) /\ DOMAIN due = 1 .. Len(due)
      /\ \A i \in 1 .. Len(next) : front[i] = next[i]
      /\ \A i \in 1 .. Len(due) : front[Len(next) + i] = due[i]
      /\ \A i \in 1 .. Len(next) + Len(due) :
           i \in 1 .. Len(next) \/ (i - Len(next) \in 1 .. Len(due) /\ front[i] = due[i - Len(next)])
  BY <1>3, <1>4, <1>6, Queued
<1>8. posts = front \o end
  BY <1>0, <1>3, <1>5, <1>6
<1>9. /\ posts \in Seq(Messages) /\ DOMAIN posts = 1 .. Len(front) + Len(end)
      /\ Len(front) \in Nat /\ DOMAIN front = 1 .. Len(front) /\ DOMAIN end = 1 .. Len(end)
      /\ \A i \in 1 .. Len(front) : posts[i] = front[i]
      /\ \A i \in 1 .. Len(front) + Len(end) :
           i \in 1 .. Len(front) \/ (i - Len(front) \in 1 .. Len(end) /\ posts[i] = end[i - Len(front)])
  <2>1. front \in Seq(Messages) /\ end \in Seq(Messages)
    BY <1>5, <1>7
  <2>. QED
    BY ONLY <1>8, <2>1, Queued
<1>10. Len(front) = Len(next) + Len(due)
  BY <1>7, <1>9
<1>11. ASSUME NEW k \in DOMAIN posts
       PROVE  \/ posts[k] = NewClient /\ k = 1 /\ Len(backlog) > 1
              \/ /\ posts[k].event \in {"FD_READ", "FD_WRITE"}
                 /\ posts[k].wParam = s /\ posts[k].about = c
  <2>1. CASE k \in 1 .. Len(next)
    <3>1. k \in 1 .. Len(front)
      BY <1>7, <1>10, <2>1
    <3>. QED
      BY <1>3, <1>7, <1>9, <2>1, <3>1
  <2>2. CASE k \in 1 .. Len(front) /\ k \notin 1 .. Len(next)
    <3>1. k - Len(next) \in 1 .. Len(due) /\ posts[k] = due[k - Len(next)]
      BY <1>7, <1>9, <1>10, <2>2
    <3>. QED
      BY <1>1, <1>4, <1>7, <3>1
  <2>3. CASE k \notin 1 .. Len(front)
    <3>1. k - Len(front) \in DOMAIN end /\ posts[k] = end[k - Len(front)]
      BY <1>9, <2>3
    <3>. QED
      BY <1>0, <1>5, <3>1
  <2>. QED
    BY <2>1, <2>2, <2>3
<1>12. ASSUME due # <<>>
       PROVE  Contains(posts, ReadOf(s, c))
  <2>1. Len(due) = 1 /\ due[1] = ReadOf(s, c)
    BY <1>0, <1>1, <1>2, <1>12
  <2>2. Len(next) + 1 \in 1 .. Len(front) /\ front[Len(next) + 1] = ReadOf(s, c)
    BY <1>7, <1>10, <2>1
  <2>3. Len(next) + 1 \in 1 .. Len(posts) /\ posts[Len(next) + 1] = ReadOf(s, c)
    BY <1>5, <1>9, <2>2
  <2>. QED
    BY <2>3 DEF Contains
<1>. QED
  BY <1>9, <1>11, <1>12

LEMMA AcceptKeeps ==
  ASSUME SizesAssumption, EchoInv, NEW s \in Sockets, Accept(s)
  PROVE  EchoInv'
<1>0. /\ Typed /\ InfosFit /\ Peers /\ Accepting /\ Each /\ line \in [Connections -> Lines]
  BY DEF EchoInv, Typed
<1>1. PICK c : c = Head(backlog)
  OBVIOUS
<1> DEFINE v == [line[c] EXCEPT !.state = "open", !.readArmed = TRUE]
           about(event) == [wParam |-> s, event |-> event, about |-> c]
           due == ReadDue(v, about("FD_READ"))
           last == about("FD_WRITE")
<1>2. PICK posts : posts = NextClient \o due \o <<last>>
  OBVIOUS
<1>3. /\ Handles(Nobody, "FD_ACCEPT") /\ peer[s] = Nobody
      /\ peer' = [peer EXCEPT ![s] = c] /\ backlog' = Tail(backlog)
      /\ CreateSocketInformation(s)
      /\ line' = [line EXCEPT ![c] = Notified(v)] /\ Handled(posts)
      /\ UNCHANGED <<crashed, client, shortSent>>
  BY <1>1, <1>2 DEF Accept
<1>4. backlog # <<>> /\ c \in Connections /\ line[c].state = "listen" /\ line[c] \in Lines
  <2>1. messages # <<>> /\ Head(messages).event = "FD_ACCEPT" /\ messages \in Seq(Messages)
    BY <1>0, <1>3 DEF Handles, Typed
  <2>2. 1 \in DOMAIN messages /\ messages[1].event = "FD_ACCEPT"
    BY <2>1, Dequeued
  <2>3. backlog # <<>> /\ backlog \in Seq(Connections)
    BY <1>0, <2>2 DEF Accepting, Typed
  <2>4. 1 \in DOMAIN backlog /\ c = backlog[1] /\ c \in Connections
    BY <1>1, <2>3, Dequeued
  <2>. QED
    BY <1>0, <2>3, <2>4 DEF Accepting
<1>5. /\ v.arrived = line[c].arrived /\ v.outbound = line[c].outbound
      /\ v.readArmed = TRUE /\ v.state = "open" /\ v \in Lines
  BY <1>4 DEF Lines, Attached
<1>6. /\ Notified(v) \in Lines /\ Notified(v).state = "open"
      /\ Notified(v).arrived = line[c].arrived /\ Notified(v).outbound = line[c].outbound
      /\ Notified(v).readArmed = (line[c].arrived = <<>>)
  BY <1>5 DEF Notified, Lines
<1>7. due = IF line[c].arrived # <<>> THEN <<ReadOf(s, c)>> ELSE <<>>
  BY <1>5 DEF ReadDue, ReadOf
<1>8. last \in Messages /\ last.event = "FD_WRITE" /\ last.wParam = s /\ last.about = c
  BY <1>4 DEF Messages
<1>. HIDE DEF v, due, last
<1>9. /\ posts \in Seq(Messages)
      /\ \A k \in DOMAIN posts :
           \/ posts[k] = NewClient /\ k = 1 /\ Len(backlog) > 1
           \/ /\ posts[k].event \in {"FD_READ", "FD_WRITE"}
              /\ posts[k].wParam = s /\ posts[k].about = c
      /\ due # <<>> => Contains(posts, ReadOf(s, c))
  <2>1. AcceptTells(s, c, due, last, posts)
    BY <1>2, <1>7, <1>8 DEF AcceptTells
  <2>. QED
    BY <1>4, <2>1, AcceptPosts
<1>10. /\ QueueStep(Tail(messages), posts) /\ Head(messages).event = "FD_ACCEPT"
       /\ backlog' \in Seq(Connections) /\ Accepting'
  <2>1. \A d \in Connections : d # Head(backlog) => line'[d] = line[d]
    BY <1>0, <1>1, <1>3
  <2>2. \A k \in DOMAIN posts : posts[k].event = "FD_ACCEPT" => k = 1 /\ Len(backlog) > 1
    BY <1>9
  <2>. QED
    BY <1>3, <1>9, <2>1, <2>2, Accepts
<1>11. /\ InfosKept(s) /\ Place(SocketInfoList', s) # 0
       /\ Pending(Sees(SocketInfoList', s)) = <<>>
  BY <1>0, <1>3, Created
<1>12. peer'[s] = c
  BY <1>0, <1>3 DEF Typed
<1>. DEFINE w == Notified(v)
<1>13. w \in Lines /\ w.state = "open" /\ line' = [line EXCEPT ![c] = w]
  BY <1>3, <1>6
<1>. HIDE DEF w
<1>14. Opens(c, s, w, Tail(messages), posts)
  BY <1>3, <1>4, <1>9, <1>10, <1>11, <1>12, <1>13 DEF Opens
<1>15. line'[c] = Notified(v)
  BY <1>0, <1>3, <1>4
<1>16. EarlyAt(c)' /\ PartedAt(c)'
  BY <1>6, <1>15 DEF EarlyAt, PartedAt
<1>17. IntactAt(s, c)'
  <2>1. /\ line[c].outbound = <<>> /\ client[c].got = <<>>
        /\ line[c].arrived = UpTo(client[c].sent) /\ line[c].arrived \in Seq(Bytes)
    BY <1>0, <1>4 DEF Each, EarlyAt, Lines
  <2>2. /\ client'[c] = client[c] /\ line'[c].outbound = <<>> /\ line'[c].arrived = line[c].arrived
    BY <1>3, <1>6, <1>15, <2>1
  <2>3. <<>> \o <<>> \o <<>> \o line[c].arrived = line[c].arrived
    BY <2>1, ConcatEmptySeq, EmptySeq
  <2>. QED
    BY <1>11, <2>1, <2>2, <2>3 DEF IntactAt
<1>18. RememberedAt(s, c)'
  <2>1. line[c].arrived # <<>> => Contains(posts, ReadOf(s, c))
    BY <1>7, <1>9
  <2>2. Contains(posts, ReadOf(s, c)) => Contains(messages', ReadOf(s, c))
    BY <1>0, <1>10, AfterStep
  <2>. QED
    BY <1>6, <1>15, <2>1, <2>2 DEF RememberedAt
<1>. QED
  BY <1>10, <1>14, <1>16, <1>17, <1>18, OpensKeeps

-----------------------------------------------------------------------------
(***************************************************************************)
(* The handlers of a socket's messages.  Nothing but the queue and the     *)
(* list is changed, or the socket is closed, or it is served.              *)
(***************************************************************************)
Handling(s) ==
  s \in Sockets /\ messages # <<>> /\ Head(messages).wParam = s /\ Head(messages).event # "FD_ACCEPT"

LEMMA QuietKeeps ==
  ASSUME SizesAssumption, EchoInv, NEW s, Handling(s), Handled(<<>>), InfosKept(s),
         UNCHANGED <<crashed, peer, backlog, line, client, shortSent>>,
         \A c \in Connections : peer[s] = c => IntactAt(s, c)' /\ RememberedAt(s, c)'
  PROVE  EchoInv'
<1>0. Typed /\ Peers /\ Each /\ s \in Sockets
  BY DEF EchoInv, Handling
<1>1. PICK c : c = peer[s]
  OBVIOUS
<1>2. PICK posts : posts = <<>> /\ posts \in Seq(Messages) /\ DOMAIN posts = {}
  BY Nothing
<1>3. QueueKept(s, Tail(messages), posts) /\ NoAccept(posts)
  BY <1>2 DEF Handling, Handled, QueueKept, NoAccept
<1>4. c = Nobody \/ (c \in Connections /\ line[c].state \in Attached)
  BY <1>0, <1>1 DEF Typed, Peers
<1>5. Local(c, s, Tail(messages), posts)
  BY <1>0, <1>1, <1>3, <1>4 DEF Local, Typed
<1>6. Tells(c, s, posts)
  <2>1. c \in Connections /\ line[c].state = "reset" => line[c].outbound # <<>>
    BY <1>0 DEF Each, PartedAt
  <2>. QED
    BY <1>2, <2>1 DEF Tells
<1>7. Tidy'
  BY <1>3, <1>5, <1>6, LocalTidy
<1>8. c \in Connections => EarlyAt(c)' /\ PartedAt(c)' /\ IntactAt(s, c)' /\ RememberedAt(s, c)'
  <2>1. c \in Connections => EarlyAt(c) /\ PartedAt(c)
    BY <1>0 DEF Each
  <2>2. c \in Connections => EarlyAt(c)' /\ PartedAt(c)'
    BY <2>1 DEF EarlyAt, PartedAt
  <2>. QED
    BY <1>1, <2>2
<1>. QED
  BY <1>0, <1>1, <1>5, <1>7, <1>8, LocalKeeps

(* A message whose socket has nothing to do leaves what was remembered. *)
LEMMA QuietAt ==
  ASSUME SizesAssumption, EchoInv, NEW s, Handling(s), Handled(<<>>), NEW c \in Connections, peer[s] = c,
         Head(messages).event # "FD_READ" \/ Sees(SocketInfoList', s).RecvPosted,
         Sees(SocketInfoList, s).RecvPosted => Sees(SocketInfoList', s).RecvPosted,
         Pending(Sees(SocketInfoList', s)) = Pending(Sees(SocketInfoList, s)),
         UNCHANGED <<line, client>>
  PROVE  IntactAt(s, c)' /\ RememberedAt(s, c)'
<1>0. Typed /\ s \in Sockets /\ IntactAt(s, c) /\ RememberedAt(s, c)
  BY DEF EchoInv, EchoAt, Handling
<1>1. PICK posts : posts = <<>> /\ posts \in Seq(Messages)
  BY Nothing
<1>2. QueueStep(Tail(messages), posts)
  BY <1>1 DEF QueueStep, Handling, Handled
<1>3. ReadOf(s, c).event = "FD_READ"
  BY DEF ReadOf
<1>4. Head(messages) = messages[1]
  BY <1>0, Dequeued DEF Handling, Typed
<1>5. Contains(messages, ReadOf(s, c)) =>
        Contains(messages', ReadOf(s, c)) \/ Head(messages).event = "FD_READ"
  BY <1>0, <1>2, <1>3, <1>4, AfterStep
<1>. QED
  BY <1>0, <1>5 DEF IntactAt, RememberedAt

LEMMA ReplacedKeeps ==
  ASSUME Typed, InfosFit, NEW s, NEW j, Replaced(SocketInfoList, s, j, SocketInfoList'), Fits(j)
  PROVE  InfosKept(s) /\ Place(SocketInfoList', s) # 0 /\ Sees(SocketInfoList', s) = j
<1>1. /\ SocketInfoList' \in Seq(Infos)
      /\ \A k \in DOMAIN SocketInfoList' :
           SocketInfoList'[k] = j
             \/ (k \in DOMAIN SocketInfoList /\ SocketInfoList'[k] = SocketInfoList[k])
      /\ Place(SocketInfoList', s) # 0 /\ Sees(SocketInfoList', s) = j
      /\ \A r : r # s /\ Place(SocketInfoList, r) # 0 =>
           Place(SocketInfoList', r) # 0 /\ Sees(SocketInfoList', r) = Sees(SocketInfoList, r)
  BY InPlace
<1>2. \A k \in DOMAIN SocketInfoList' : Fits(SocketInfoList'[k])
  BY <1>1 DEF InfosFit
<1>. QED
  BY <1>1, <1>2 DEF InfosKept

LEMMA ReadPostponedKeeps ==
  ASSUME SizesAssumption, EchoInv, NEW s \in Sockets, ReadPostponed(s)
  PROVE  EchoInv'
<1> DEFINE place == Place(SocketInfoList, s)
           i == Sees(SocketInfoList, s)
           j == [i EXCEPT !.RecvPosted = TRUE]
<1>0. Typed /\ InfosFit
  BY DEF EchoInv
<1>1. /\ Handles(s, "FD_READ") /\ place # 0 /\ i.BytesRECV # 0
      /\ SocketInfoList' = [SocketInfoList EXCEPT ![place].RecvPosted = TRUE]
      /\ Handled(<<>>) /\ UNCHANGED <<crashed, peer, backlog, line, client, shortSent>>
  BY PlaceOf DEF ReadPostponed, Sees
<1>2. Handling(s)
  BY <1>1 DEF Handles, Handling
<1>3. /\ SocketInfoList \in Seq(Infos) /\ i \in Infos /\ i.Socket = s /\ Fits(i)
      /\ place \in DOMAIN SocketInfoList
  BY <1>0, <1>1, InfoOf DEF Typed
<1>4. /\ j \in Infos /\ j.Socket = s /\ Fits(j) /\ j.RecvPosted = TRUE /\ Pending(j) = Pending(i)
  BY <1>1, <1>3 DEF Infos, Fits, Pending
<1>5. SocketInfoList' = [SocketInfoList EXCEPT ![place] = j]
  BY <1>1, <1>3 DEF Sees
<1>6. /\ InfosKept(s) /\ Sees(SocketInfoList', s) = j
  <2>1. Replaced(SocketInfoList, s, j, SocketInfoList')
    BY <1>1, <1>3, <1>4, <1>5 DEF Replaced
  <2>. QED
    BY <1>0, <1>4, <2>1, ReplacedKeeps
<1>. HIDE DEF i, j, place
<1>7. \A c \in Connections : peer[s] = c => IntactAt(s, c)' /\ RememberedAt(s, c)'
  BY <1>1, <1>2, <1>4, <1>6, QuietAt DEF i
<1>. QED
  BY <1>1, <1>2, <1>6, <1>7, QuietKeeps

LEMMA NoInformationKeeps ==
  ASSUME SizesAssumption, EchoInv, NEW s \in Sockets, NoInformation(s)
  PROVE  EchoInv'
<1>1. /\ crashed' = TRUE
      /\ UNCHANGED <<messages, SocketInfoList, peer, backlog, line, client, shortSent>>
  BY DEF NoInformation
<1>2. Typed'
  BY <1>1 DEF EchoInv, Typed
<1>3. InfosFit' /\ Peers' /\ Accepting'
  BY <1>1 DEF EchoInv, InfosFit, Peers, Accepting
<1>4. Each'
  BY <1>1 DEF EchoInv, Each, EarlyAt, PartedAt
<1>5. EchoAt'
  BY <1>1 DEF EchoInv, EchoAt, IntactAt, RememberedAt
<1>6. Tidy'
  BY <1>1 DEF EchoInv, Tidy, WasReset, Clean, CleanAt
<1>. QED
  BY <1>2, <1>3, <1>4, <1>5, <1>6 DEF EchoInv

(* Freed with a connection: by an FD_CLOSE, or after a reset. *)
LEMMA FreeTidy ==
  ASSUME SizesAssumption, EchoInv, NEW s, Handling(s), NEW c \in Connections, peer[s] = c,
         Head(messages).event = "FD_CLOSE" \/ line[c].state = "reset",
         NEW posts, posts = <<>>, QueueStep(Tail(messages), posts),
         \A r \in Sockets : r # s => peer'[r] = peer[r],
         line'[c] = [line[c] EXCEPT !.state = "shut"],
         \A d \in Connections : d # c => line'[d] = line[d]
  PROVE  Tidy'
<1>0. /\ Typed /\ Each /\ s \in Sockets /\ line[c] \in Lines
      /\ messages # <<>> /\ Head(messages).wParam = s /\ Head(messages).event # "FD_ACCEPT"
  BY DEF EchoInv, Typed, Handling
<1>1. line'[c].state = "shut" /\ line'[c].outbound = line[c].outbound
  BY <1>0 DEF Lines
<1>2. CASE \E d \in Connections : WasReset(d)
  BY <1>1, <1>2, ZenonT(60) DEF Tidy, WasReset
<1>3. CASE line[c].state = "reset"
  BY <1>0, <1>1, <1>3, ZenonT(60) DEF Tidy, WasReset, Each, PartedAt
<1>4. CASE Clean /\ Head(messages).event = "FD_CLOSE"
  <2>1. /\ 1 \in DOMAIN messages /\ messages[1] = Head(messages)
        /\ DOMAIN messages = 1 .. Len(messages) /\ Len(messages) \in Nat
    BY <1>0, Dequeued DEF Typed
  <2>2. \A j \in DOMAIN messages : j > 1 /\ messages[j].about = c => line[c].outbound # <<>>
    BY <1>0, <1>4, <2>1 DEF Clean, CleanAt
  <2>3. CASE line[c].outbound # <<>>
    BY <1>1, <2>3 DEF Tidy, WasReset
  <2>4. CASE line[c].outbound = <<>>
    <3>1. PICK M : M = Tail(messages)
      OBVIOUS
    <3>2. Typed /\ QueueStep(M, posts)
      BY <1>0, <3>1
    <3>3. PICK n \in {0, 1} :
            /\ Len(M) = Len(messages) - n
            /\ \A k \in 1 .. Len(M) :
                 k + n \in DOMAIN messages /\ M[k] = messages[k + n] /\ messages'[k] = M[k]
      BY <3>2, AfterStep
    <3>4. /\ Len(M) \in Nat /\ Len(posts) \in Nat
          /\ DOMAIN messages' = 1 .. Len(M) + Len(posts)
      BY <3>2, AfterStep
    <3>5. n = 1 /\ Len(posts) = 0
      <4>1. Len(M) = Len(messages) - 1
        BY <1>0, <3>1, Dequeued DEF Typed
      <4>. QED
        BY <2>1, <3>3, <3>4, <4>1, Nothing
    <3>6. \A k \in DOMAIN messages' :
            k \in Nat /\ k + 1 \in DOMAIN messages /\ messages'[k] = messages[k + 1] /\ k + 1 > 1
      BY <3>3, <3>4, <3>5
    <3>7. ASSUME NEW k \in DOMAIN messages'
          PROVE  CleanAt(k)'
      <4> DEFINE m == messages'[k]
      <4>1. m = messages[k + 1] /\ CleanAt(k + 1) /\ m.about # c /\ k \in Nat /\ k + 1 \in DOMAIN messages
        BY <1>4, <2>2, <2>4, <3>6 DEF Clean
      <4>. HIDE DEF m
      <4>2. SUFFICES ASSUME m.event # "FD_ACCEPT"
                     PROVE  /\ m.wParam \in Sockets /\ m.about \in Connections /\ m.about = peer'[m.wParam]
                            /\ m.event = "FD_CLOSE" =>
                                 /\ line'[m.about].state = "closed"
                                 /\ \A j \in DOMAIN messages' :
                                      j > k /\ messages'[j].about = m.about
                                        => line'[m.about].outbound # <<>>
        BY DEF CleanAt, m
      <4>3. /\ m.wParam \in Sockets /\ m.about \in Connections /\ m.about = peer[m.wParam]
            /\ m.event = "FD_CLOSE" =>
                 /\ line[m.about].state = "closed"
                 /\ \A j \in DOMAIN messages :
                      j > k + 1 /\ messages[j].about = m.about => line[m.about].outbound # <<>>
        BY <4>1, <4>2 DEF CleanAt
      <4>4. m.wParam # s /\ line'[m.about] = line[m.about] /\ m.about = peer'[m.wParam]
        BY <4>1, <4>3
      <4>5. ASSUME m.event = "FD_CLOSE", NEW j \in DOMAIN messages', j > k, messages'[j].about = m.about
            PROVE  line'[m.about].outbound # <<>>
        <5>1. j + 1 \in DOMAIN messages /\ messages[j + 1].about = m.about
          BY <3>6, <4>5
        <5>2. j + 1 > k + 1
          BY <3>6, <4>5
        <5>. QED
          BY <4>3, <4>4, <4>5, <5>1, <5>2
      <4>. QED
        BY <4>3, <4>4, <4>5
    <3>. QED
      BY <3>7 DEF Tidy, Clean
  <2>. QED
    BY <2>3, <2>4
<1>. QED
  BY <1>2, <1>3, <1>4 DEF EchoInv, Tidy

LEMMA FreeKeeps ==
  ASSUME SizesAssumption, EchoInv, NEW s, Handling(s), FreeSocketInformation(s),
         Head(messages).event = "FD_CLOSE" \/ Broken(s)
  PROVE  EchoInv'
<1>0. /\ Typed /\ InfosFit /\ Peers /\ Accepting /\ Each /\ EchoAt /\ s \in Sockets
      /\ peer \in [Sockets -> Connections \cup {Nobody}] /\ line \in [Connections -> Lines]
      /\ SocketInfoList \in Seq(Infos)
  BY DEF EchoInv, Typed, Handling
<1>1. Handled(<<>>) /\ UNCHANGED <<crashed, backlog, client, shortSent>>
  BY DEF FreeSocketInformation
<1>2. CASE Place(SocketInfoList, s) = 0
  <2>1. UNCHANGED <<SocketInfoList, peer, line>>
    BY <1>2, PlaceOf DEF FreeSocketInformation
  <2>2. InfosKept(s)
    BY <1>0, <2>1, ListStays
  <2>3. peer[s] \notin Connections
    BY <1>0, <1>2, SizesAssumption DEF Peers
  <2>. QED
    BY <1>1, <2>1, <2>2, <2>3, QuietKeeps
<1>3. CASE Place(SocketInfoList, s) # 0
  <2> DEFINE new == RemoveAt(SocketInfoList, Place(SocketInfoList, s))
  <2>1. /\ SocketInfoList' = new /\ peer' = [peer EXCEPT ![s] = Nobody]
        /\ line' = [c \in Connections |->
                      IF c = peer[s] THEN [line[c] EXCEPT !.state = "shut"] ELSE line[c]]
    BY <1>3, PlaceOf DEF FreeSocketInformation
  <2>2. /\ new \in Seq(Infos)
        /\ \A k \in DOMAIN new : \E j \in DOMAIN SocketInfoList : new[k] = SocketInfoList[j]
        /\ \A r : r # s /\ Place(SocketInfoList, r) # 0 =>
             Place(new, r) # 0 /\ Sees(new, r) = Sees(SocketInfoList, r)
    BY <1>0, <1>3, TakenOut
  <2>. HIDE DEF new
  <2>3. \A k \in DOMAIN new : Fits(new[k])
    BY <1>0, <2>2 DEF InfosFit
  <2>4. CASE peer[s] = Nobody
    <3>1. peer' = peer /\ line' = line
      BY <1>0, <2>1, <2>4, SizesAssumption
    <3>2. InfosKept(s)
      BY <2>1, <2>2, <2>3, <2>4 DEF InfosKept
    <3>3. \A c \in Connections : peer[s] # c
      BY <2>4, SizesAssumption
    <3>. QED
      BY <1>1, <3>1, <3>2, <3>3, QuietKeeps
  <2>5. CASE peer[s] # Nobody
    <3>1. PICK c \in Connections : c = peer[s]
      BY <1>0, <2>5
    <3>2. /\ line[c].state \in Attached /\ line[c] \in Lines
          /\ \A r \in Sockets : r # s => peer[r] # c /\ peer'[r] = peer[r]
          /\ peer'[s] = Nobody
      BY <1>0, <2>1, <2>5, <3>1 DEF Peers
    <3>3. /\ line'[c] = [line[c] EXCEPT !.state = "shut"]
          /\ \A d \in Connections : d # c => line'[d] = line[d]
      BY <2>1, <3>1
    <3>4. line'[c] \in Lines /\ line'[c].state = "shut"
      BY <3>2, <3>3 DEF Lines
    <3>5. PICK posts : posts = <<>> /\ posts \in Seq(Messages) /\ DOMAIN posts = {} /\ Len(posts) = 0
      BY Nothing
    <3>6. QueueStep(Tail(messages), posts)
      BY <1>1, <3>5 DEF QueueStep, Handled, Handling
    <3>7. PICK n \in {0, 1} :
            \A k \in 1 .. Len(Tail(messages)) :
              /\ k + n \in DOMAIN messages /\ Tail(messages)[k] = messages[k + n]
              /\ messages'[k] = Tail(messages)[k]
      BY <1>0, <3>6, AfterStep, ZenonT(60)
    <3>8. /\ messages' \in Seq(Messages) /\ Len(Tail(messages)) \in Nat
          /\ DOMAIN messages' = 1 .. Len(Tail(messages)) + Len(posts)
          /\ \A m : Contains(messages, m) => Contains(messages', m) \/ m = messages[1]
      BY <1>0, <3>6, AfterStep, ZenonT(60)
    <3>9. \A k \in DOMAIN messages' :
            k \in Nat /\ k + n \in DOMAIN messages /\ messages'[k] = messages[k + n]
      BY <3>5, <3>7, <3>8
    <3>10. Typed'
      <4>1. line' \in [Connections -> Lines]
        BY <1>0, <2>1, <3>3, <3>4
      <4>2. peer' \in [Sockets -> Connections \cup {Nobody}]
        BY <1>0, <2>1
      <4>. QED
        BY <1>0, <1>1, <2>1, <2>2, <3>8, <4>1, <4>2 DEF Typed
    <3>11. InfosFit'
      BY <2>1, <2>3 DEF InfosFit
    <3>12. Peers'
      <4>1. \A q, r \in Sockets : peer'[q] = peer'[r] /\ peer'[q] # Nobody => q = r
        BY <1>0, <3>2 DEF Peers
      <4>2. \A r \in Sockets : peer'[r] # Nobody =>
              line'[peer'[r]].state \in Attached /\ Place(SocketInfoList', r) # 0
        <5>1. ASSUME NEW r \in Sockets, peer'[r] # Nobody
              PROVE  line'[peer'[r]].state \in Attached /\ Place(SocketInfoList', r) # 0
          <6>1. r # s /\ peer'[r] = peer[r] /\ peer[r] # c /\ peer[r] \in Connections
            BY <1>0, <3>2, <5>1
          <6>. QED
            BY <1>0, <2>1, <2>2, <3>3, <5>1, <6>1 DEF Peers
        <5>. QED
          BY <5>1
      <4>3. \A d \in Connections : line'[d].state \in Attached => \E r \in Sockets : peer'[r] = d
        <5>1. ASSUME NEW d \in Connections, line'[d].state \in Attached
              PROVE  \E r \in Sockets : peer'[r] = d
          <6>1. d # c /\ line[d].state \in Attached
            BY <3>3, <3>4, <5>1 DEF Attached
          <6>2. PICK r \in Sockets : peer[r] = d
            BY <1>0, <6>1 DEF Peers
          <6>3. r # s
            BY <3>1, <6>1, <6>2
          <6>. QED
            BY <3>2, <6>2, <6>3
        <5>. QED
          BY <5>1
      <4>. QED
        BY <4>1, <4>2, <4>3 DEF Peers
    <3>13. Accepting'
      <4>1. \A k \in DOMAIN backlog : backlog[k] \in Connections /\ line[backlog[k]].state = "listen"
        BY <1>0 DEF Accepting, Typed
      <4>2. \A k \in DOMAIN backlog : line'[backlog[k]].state = "listen"
        BY <3>2, <3>3, <4>1 DEF Attached
      <4>3. \A j \in DOMAIN messages' : messages'[j].event = "FD_ACCEPT" => backlog # <<>>
        BY <1>0, <3>9 DEF Accepting
      <4>4. ASSUME NEW j \in DOMAIN messages', NEW k \in DOMAIN messages',
                   messages'[j].event = "FD_ACCEPT", messages'[k].event = "FD_ACCEPT"
            PROVE  j = k
        <5>1. j + n = k + n /\ j \in Nat /\ k \in Nat
          BY <1>0, <3>9, <4>4 DEF Accepting
        <5>. QED
          BY <5>1
      <4>. QED
        BY <1>0, <1>1, <4>2, <4>3, <4>4 DEF Accepting
    <3>14. Each'
      <4>1. EarlyAt(c)' /\ PartedAt(c)'
        BY <3>4 DEF EarlyAt, PartedAt
      <4>2. \A d \in Connections : d # c => EarlyAt(d)' /\ PartedAt(d)'
        BY <1>0, <1>1, <3>3 DEF Each, EarlyAt, PartedAt
      <4>. QED
        BY <4>1, <4>2 DEF Each
    <3>15. EchoAt'
      <4>1. ASSUME NEW r \in Sockets, NEW d \in Connections, peer'[r] = d
            PROVE  IntactAt(r, d)' /\ RememberedAt(r, d)'
        <5>1. r # s /\ peer[r] = d /\ d # c /\ d # Nobody /\ line'[d] = line[d]
          BY <3>2, <3>3, <4>1, SizesAssumption
        <5>2. Sees(SocketInfoList', r) = Sees(SocketInfoList, r)
          BY <1>0, <2>1, <2>2, <5>1 DEF Peers
        <5>3. Contains(messages, ReadOf(r, d)) => Contains(messages', ReadOf(r, d))
          <6>1. messages[1].wParam = s
            BY <1>0, Dequeued DEF Handling, Typed
          <6>2. ReadOf(r, d).wParam = r
            BY DEF ReadOf
          <6>. QED
            BY <3>8, <5>1, <6>1, <6>2
        <5>4. IntactAt(r, d) /\ RememberedAt(r, d)
          BY <1>0, <5>1 DEF EchoAt
        <5>. QED
          BY <1>1, <5>1, <5>2, <5>3, <5>4 DEF IntactAt, RememberedAt
      <4>. QED
        BY <4>1 DEF EchoAt
    <3>16. Tidy'
      <4>1. Head(messages).event = "FD_CLOSE" \/ line[c].state = "reset"
        BY <2>5, <3>1 DEF Broken
      <4>2. peer[s] = c
        BY <3>1
      <4>3. \A r \in Sockets : r # s => peer'[r] = peer[r]
        BY <3>2
      <4>. QED
        BY <3>3, <3>5, <3>6, <4>1, <4>2, <4>3, FreeTidy
    <3>. QED
      BY <3>10, <3>11, <3>12, <3>13, <3>14, <3>15, <3>16 DEF EchoInv
  <2>. QED
    BY <2>4, <2>5
<1>. QED
  BY <1>2, <1>3

LEMMA CloseCaseKeeps ==
  ASSUME SizesAssumption, EchoInv, NEW s \in Sockets, CloseCase(s)
  PROVE  EchoInv'
<1>1. /\ Handling(s) /\ Head(messages).event = "FD_CLOSE" /\ FreeSocketInformation(s)
  BY DEF CloseCase, Handles, Handling
<1>. QED
  BY <1>1, FreeKeeps

Finished(s, c, i, w, due) ==
  /\ SocketInfoList' = [SocketInfoList EXCEPT ![Place(SocketInfoList, s)] = Emptied(i)]
  /\ line' = [line EXCEPT ![c] = w] /\ messages' = Tail(messages) \o (due \o Postponed(s, i))
  /\ UNCHANGED <<crashed, peer, backlog, client>>

(* What a handler leaves of a connected socket: i is the information before *)
(* it is emptied, w the line, due what WSARecv made Winsock post.           *)
Serves(s, c, i, w, due) ==
  /\ Handling(s) /\ c \in Connections /\ peer[s] = c /\ line[c].state # "reset"
  /\ Place(SocketInfoList, s) # 0 /\ i \in Infos /\ i.Socket = s
  /\ Len(i.Buffer) = i.BytesRECV /\ i.BytesRECV <= DATA_BUFSIZE /\ i.BytesSEND <= i.BytesRECV
  /\ w \in Lines /\ w.state = line[c].state /\ (line[c].outbound # <<>> => w.outbound # <<>>)
  /\ due \in {<<>>, <<ReadOf(s, c)>>}
  /\ line[c].state = "closed" =>
       w.arrived = <<>> /\ due = <<>> /\ (Drained(i) /\ i.RecvPosted => w.outbound # <<>>)
  /\ line[c].state = "open" =>
       /\ client[c].got \o w.outbound \o Pending(i) \o w.arrived = UpTo(client[c].sent)
       /\ w.readArmed => w.arrived = <<>>
       /\ ~w.readArmed => \/ due # <<>> \/ i.RecvPosted
                          \/ /\ Contains(messages, ReadOf(s, c))
                             /\ Head(messages).event # "FD_READ"
  /\ Finished(s, c, i, w, due) /\ shortSent' \in SUBSET Connections

LEMMA ServesKeeps ==
  ASSUME SizesAssumption, EchoInv, NEW s, NEW c, NEW i, NEW w, NEW due, Serves(s, c, i, w, due)
  PROVE  EchoInv'
<1>0. /\ Typed /\ InfosFit /\ Peers /\ Handling(s) /\ s \in Sockets
      /\ c \in Connections /\ peer[s] = c /\ line[c].state # "reset"
  BY DEF EchoInv, Serves, Handling
<1>1. /\ Place(SocketInfoList, s) # 0 /\ i \in Infos /\ i.Socket = s
      /\ Len(i.Buffer) = i.BytesRECV /\ i.BytesRECV <= DATA_BUFSIZE /\ i.BytesSEND <= i.BytesRECV
      /\ i.Buffer \in Seq(Bytes) /\ i.BytesSEND \in Nat /\ i.BytesRECV \in Nat
      /\ SocketInfoList' = [SocketInfoList EXCEPT ![Place(SocketInfoList, s)] = Emptied(i)]
  BY DEF Serves, Finished, Infos
<1>2. /\ w \in Lines /\ w.state = line[c].state /\ (line[c].outbound # <<>> => w.outbound # <<>>)
      /\ line' = [line EXCEPT ![c] = w] /\ messages' = Tail(messages) \o (due \o Postponed(s, i))
      /\ due \in {<<>>, <<ReadOf(s, c)>>}
      /\ UNCHANGED <<crashed, peer, backlog, client>> /\ shortSent' \in SUBSET Connections
  BY DEF Serves, Finished
<1>3. line[c].state = "closed" =>
        w.arrived = <<>> /\ due = <<>> /\ (Drained(i) /\ i.RecvPosted => w.outbound # <<>>)
  BY DEF Serves
<1>4. line[c].state = "open" =>
        /\ client[c].got \o w.outbound \o Pending(i) \o w.arrived = UpTo(client[c].sent)
        /\ w.readArmed => w.arrived = <<>>
        /\ ~w.readArmed => \/ due # <<>> \/ i.RecvPosted
                           \/ /\ Contains(messages, ReadOf(s, c))
                              /\ Head(messages).event # "FD_READ"
  BY DEF Serves
<1>5. /\ line' \in [Connections -> Lines] /\ line'[c] = w
      /\ \A d \in Connections : d # c => line'[d] = line[d]
  BY <1>0, <1>2, LineStep
<1>6. line[c].state \in Attached /\ c # Nobody
  BY <1>0, SizesAssumption DEF Peers
(* The information that is left. *)
<1>7. PICK j : j = Emptied(i)
  OBVIOUS
<1>8. /\ j \in Infos /\ j.Socket = s /\ Fits(j)
      /\ i.RecvPosted /\ ~Drained(i) => j.RecvPosted
  <2>1. CASE Drained(i)
    <3>1. j = [i EXCEPT !.BytesSEND = 0, !.BytesRECV = 0, !.Buffer = <<>>, !.RecvPosted = FALSE]
      BY <1>7, <2>1 DEF Emptied
    <3>2. j \in Infos /\ j.Socket = s
      BY <1>1, <3>1, EmptySeq DEF Infos
    <3>3. j.BytesSEND = 0 /\ j.BytesRECV = 0 /\ j.Buffer = <<>> /\ j.RecvPosted = FALSE
      BY <1>1, <3>1 DEF Infos
    <3>. QED
      BY <2>1, <3>2, <3>3, EmptySeq, SizesAssumption DEF Fits
  <2>2. CASE ~Drained(i)
    <3>1. j = i /\ i.BytesSEND # i.BytesRECV
      BY <1>7, <2>2 DEF Emptied, Drained
    <3>2. i.RecvPosted \in BOOLEAN
      BY <1>1 DEF Infos
    <3>. QED
      BY <1>1, <2>2, <3>1, <3>2 DEF Fits
  <2>. QED
    BY <2>1, <2>2
<1>9. Pending(j) = Pending(i)
  <2>1. CASE Drained(i)
    <3>1. j.BytesSEND = 0 /\ j.BytesRECV = 0
      BY <1>1, <1>7, <2>1 DEF Emptied, Infos
    <3>2. SubSeq(j.Buffer, 0 + 1, 0) = <<>>
      BY SubSeqEmpty
    <3>3. SubSeq(i.Buffer, i.BytesSEND + 1, i.BytesRECV) = <<>>
      <4>1. i.BytesSEND + 1 \in Int /\ i.BytesRECV \in Int /\ i.BytesRECV < i.BytesSEND + 1
        BY <1>1, <2>1 DEF Drained
      <4>. QED
        BY <4>1, SubSeqEmpty
    <3>. QED
      BY <3>1, <3>2, <3>3 DEF Pending
  <2>2. CASE ~Drained(i)
    BY <1>7, <2>2 DEF Emptied
  <2>. QED
    BY <2>1, <2>2
<1>10. InfosKept(s) /\ Sees(SocketInfoList', s) = j
  <2>1. Replaced(SocketInfoList, s, j, SocketInfoList')
    BY <1>0, <1>1, <1>7, <1>8 DEF Replaced, Typed
  <2>. QED
    BY <1>0, <1>8, <2>1, ReplacedKeeps
(* What is posted. *)
<1>11. /\ ReadOf(s, c) \in Messages /\ ReadOf(s, c).event = "FD_READ"
       /\ ReadOf(s, c).wParam = s /\ ReadOf(s, c).about = c /\ Event(s, "FD_READ") = ReadOf(s, c)
  BY <1>0 DEF ReadOf, Messages, Event
<1>12. \A m \in Messages : <<m>> \in Seq(Messages) /\ Len(<<m>>) = 1 /\ DOMAIN <<m>> = {1} /\ <<m>>[1] = m
  OBVIOUS
<1>13. PICK late : /\ late = Postponed(s, i) /\ late \in {<<>>, <<ReadOf(s, c)>>}
                   /\ late # <<>> <=> Drained(i) /\ i.RecvPosted
  <2>1. CASE Drained(i) /\ i.RecvPosted
    <3>1. Postponed(s, i) = <<ReadOf(s, c)>> /\ <<ReadOf(s, c)>> # <<>>
      BY <1>11, <1>12, <2>1, Nothing DEF Postponed
    <3>. QED
      BY <2>1, <3>1
  <2>2. CASE ~(Drained(i) /\ i.RecvPosted)
    <3>1. Postponed(s, i) = <<>>
      BY <2>2 DEF Postponed
    <3>. QED
      BY <2>2, <3>1
  <2>. QED
    BY <2>1, <2>2
<1>14. PICK posts : posts = due \o late
  OBVIOUS
<1>15. /\ posts \in Seq(Messages)
       /\ \A k \in DOMAIN posts : posts[k] = ReadOf(s, c)
       /\ posts # <<>> <=> due # <<>> \/ late # <<>>
       /\ posts # <<>> => Contains(posts, ReadOf(s, c))
  <2>1. /\ due \in Seq(Messages) /\ \A k \in DOMAIN due : due[k] = ReadOf(s, c)
    <3>1. CASE due = <<>>
      BY <3>1, Nothing
    <3>2. CASE due = <<ReadOf(s, c)>>
      BY <1>11, <1>12, <3>2
    <3>. QED
      BY <1>2, <3>1, <3>2
  <2>2. /\ late \in Seq(Messages) /\ \A k \in DOMAIN late : late[k] = ReadOf(s, c)
    <3>1. CASE late = <<>>
      BY <3>1, Nothing
    <3>2. CASE late = <<ReadOf(s, c)>>
      BY <1>11, <1>12, <3>2
    <3>. QED
      BY <1>13, <3>1, <3>2
  <2>3. /\ posts \in Seq(Messages) /\ DOMAIN posts = 1 .. Len(due) + Len(late)
        /\ Len(due) \in Nat /\ Len(late) \in Nat /\ DOMAIN due = 1 .. Len(due) /\ DOMAIN late = 1 .. Len(late)
        /\ \A k \in 1 .. Len(due) : posts[k] = due[k]
        /\ \A k \in 1 .. Len(due) + Len(late) :
             k \in 1 .. Len(due) \/ (k - Len(due) \in 1 .. Len(late) /\ posts[k] = late[k - Len(due)])
    BY ONLY <1>14, <2>1, <2>2, Queued
  <2>4. \A k \in DOMAIN posts : posts[k] = ReadOf(s, c)
    BY <2>1, <2>2, <2>3
  <2>5. /\ Len(due) = 0 <=> due = <<>>
        /\ Len(late) = 0 <=> late = <<>>
        /\ Len(posts) = 0 <=> posts = <<>>
    BY <2>1, <2>2, <2>3, EmptySeq
  <2>6. Len(posts) = Len(due) + Len(late) /\ Len(posts) \in Nat
    BY <2>3
  <2>7. posts # <<>> <=> due # <<>> \/ late # <<>>
    BY <2>3, <2>5, <2>6
  <2>8. posts # <<>> => 1 \in 1 .. Len(posts) /\ posts[1] = ReadOf(s, c)
    BY <2>3, <2>4, <2>5, <2>6
  <2>. QED
    BY <2>3, <2>4, <2>7, <2>8 DEF Contains
<1>16. messages' = Tail(messages) \o posts
  BY <1>2, <1>13, <1>14
<1>17. QueueKept(s, Tail(messages), posts) /\ NoAccept(posts) /\ QueueStep(Tail(messages), posts)
  BY <1>0, <1>11, <1>15, <1>16 DEF QueueKept, QueueStep, NoAccept, Handling
<1>18. Local(c, s, Tail(messages), posts)
  <2>1. line'[c].state \in Attached
    BY <1>2, <1>5, <1>6
  <2>2. client' \in [Connections -> Clients] /\ crashed' \in BOOLEAN
    BY <1>0, <1>2 DEF Typed
  <2>. QED
    BY <1>0, <1>2, <1>5, <1>6, <1>10, <1>17, <2>1, <2>2 DEF Local
<1>19. Tells(c, s, posts)
  <2>1. \A k \in DOMAIN posts :
          /\ c \in Connections /\ s \in Sockets /\ peer[s] = c /\ posts[k].wParam = s /\ posts[k].about = c
          /\ posts[k].event # "FD_CLOSE"
    BY <1>0, <1>11, <1>15
  <2>2. line[c].state = "closed" /\ posts # <<>> => w.outbound # <<>>
    BY <1>3, <1>13, <1>15
  <2>. QED
    BY <1>0, <1>2, <1>5, <2>1, <2>2 DEF Tells
<1>20. Tidy'
  BY <1>17, <1>18, <1>19, LocalTidy
<1>21. EarlyAt(c)' /\ PartedAt(c)'
  BY <1>0, <1>2, <1>3, <1>5, <1>6 DEF EarlyAt, PartedAt, Attached
<1>22. IntactAt(s, c)'
  BY <1>2, <1>4, <1>5, <1>9, <1>10 DEF IntactAt
<1>23. RememberedAt(s, c)'
  <2>1. Contains(posts, ReadOf(s, c)) => Contains(messages', ReadOf(s, c))
    BY <1>0, <1>17, AfterStep
  <2>2. Contains(messages, ReadOf(s, c)) /\ Head(messages).event # "FD_READ" =>
          Contains(messages', ReadOf(s, c))
    <3>1. Head(messages) = messages[1]
      BY <1>0, Dequeued DEF Handling, Typed
    <3>2. Contains(messages, ReadOf(s, c)) =>
            Contains(messages', ReadOf(s, c)) \/ ReadOf(s, c) = messages[1]
      BY <1>0, <1>17, AfterStep
    <3>. QED
      BY <1>11, <3>1, <3>2
  <2>. QED
    BY <1>2, <1>4, <1>5, <1>8, <1>10, <1>13, <1>15, <2>1, <2>2 DEF RememberedAt
<1>. QED
  BY <1>0, <1>18, <1>20, <1>21, <1>22, <1>23, LocalKeeps

(* What WSASend takes, and what is left of the buffer. *)
Sendable(b, k, n) == b \in Seq(Bytes) /\ k \in Nat /\ n \in Nat \ {0} /\ k + n <= Len(b)

LEMMA Sent ==
  ASSUME NEW b, NEW k, NEW n, Sendable(b, k, n)
  PROVE  /\ SubSeq(b, k + 1, Len(b)) \in Seq(Bytes) /\ Len(SubSeq(b, k + 1, Len(b))) = Len(b) - k
         /\ SubSeq(SubSeq(b, k + 1, Len(b)), 1, n) \in Seq(Bytes)
         /\ Len(SubSeq(SubSeq(b, k + 1, Len(b)), 1, n)) = n
         /\ SubSeq(b, k + n + 1, Len(b)) \in Seq(Bytes)
         /\ SubSeq(SubSeq(b, k + 1, Len(b)), 1, n) \o SubSeq(b, k + n + 1, Len(b))
              = SubSeq(b, k + 1, Len(b))
<1>0. b \in Seq(Bytes) /\ k \in Nat /\ n \in Nat \ {0} /\ k + n <= Len(b)
  BY DEF Sendable
<1>1. PICK m \in Nat : m = Len(b)
  BY <1>0
<1>2. DOMAIN b = 1 .. m /\ \A x \in 1 .. m : b[x] \in Bytes
  BY <1>0, <1>1
<1>3. k + n <= m /\ k + n \in Nat /\ k + 1 \in Nat /\ k + n + 1 \in Nat
  BY <1>0, <1>1
<1>4. PICK p : p = SubSeq(b, k + 1, m)
  OBVIOUS
<1>5. p \in Seq(Bytes) /\ Len(p) = m - k
  <2>1. \A x \in k + 1 .. m : b[x] \in Bytes
    BY <1>0, <1>2
  <2>2. m - (k + 1) + 1 = m - k /\ k + 1 <= m
    BY <1>0, <1>3
  <2>. QED
    BY <1>0, <1>3, <1>4, <2>1, <2>2, SubSeqProperties
<1>6. SubSeq(b, k + n + 1, m) \in Seq(Bytes)
  <2>1. \A x \in k + n + 1 .. m : b[x] \in Bytes
    BY <1>0, <1>2
  <2>. QED
    BY <1>0, <1>3, <2>1, SubSeqProperties
<1>7. SubSeq(p, 1, n) \in Seq(Bytes) /\ Len(SubSeq(p, 1, n)) = n
  <2>1. n \in 0 .. Len(p)
    BY <1>0, <1>3, <1>5
  <2>. QED
    BY <1>5, <2>1, CutInTwo
<1>8. SubSeq(p, 1, n) = SubSeq(b, k + 1, k + n)
  <2>1. /\ k + 1 \in 1 .. m + 1 /\ 1 <= n
        /\ 1 \in 1 .. m - (k + 1) + 1 /\ n \in 1 .. m - (k + 1) + 1
        /\ k + 1 + 1 - 1 = k + 1 /\ k + 1 + n - 1 = k + n
    BY <1>0, <1>3
  <2>. QED
    BY <1>0, <1>1, <1>4, <1>5, <2>1, SubSeqOfSubSeq
<1>9. SubSeq(b, k + 1, k + n) \o SubSeq(b, k + n + 1, m) = p
  <2>1. PICK u, v \in Nat : u = k + 1 /\ v = k + n
    BY <1>0, <1>3
  <2>2. u \in 1 .. m + 1 /\ v \in u - 1 .. m /\ m \in v .. m
    BY <1>0, <1>3, <2>1
  <2>3. SubSeq(b, u, v) \o SubSeq(b, v + 1, m) = SubSeq(b, u, m)
    BY <1>0, <1>1, <2>2, ConcatAdjacentSubSeq
  <2>. QED
    BY <1>4, <2>1, <2>3
<1>. QED
  BY <1>1, <1>4, <1>5, <1>6, <1>7, <1>8, <1>9

Grouped(a, b, x) == (a \o b) \o x = a \o (b \o x)

LEMMA Grouping == \A a, b, x \in Seq(Bytes) : Grouped(a, b, x)
<1>1. ASSUME NEW a \in Seq(Bytes), NEW b \in Seq(Bytes), NEW x \in Seq(Bytes)
      PROVE  (a \o b) \o x = a \o (b \o x)
  BY ConcatAssociative
<1>. QED
  BY <1>1 DEF Grouped

Parts(a, b, x, y) == a \in Seq(Bytes) /\ b \in Seq(Bytes) /\ x \in Seq(Bytes) /\ y \in Seq(Bytes)

Regrouped(a, b, x, y) == a \o (b \o x) \o y = a \o b \o (x \o y)

LEMMA Moved ==
  ASSUME NEW a, NEW b, NEW x, NEW y, Parts(a, b, x, y)
  PROVE  Regrouped(a, b, x, y)
<1>0. a \in Seq(Bytes) /\ b \in Seq(Bytes) /\ x \in Seq(Bytes) /\ y \in Seq(Bytes)
  BY DEF Parts
<1>1. PICK p \in Seq(Bytes) : p = a \o b
  BY <1>0, ConcatProperties
<1>2. Grouped(a, b, x) /\ Grouped(p, x, y)
  BY <1>0, Grouping
<1>. QED
  BY <1>1, <1>2, Zenon DEF Grouped, Regrouped

(* What the FD_WRITE case finds: i and w are after WSARecv, if it was called. *)
Ready(s, c, i, w, due) ==
  /\ Handling(s) /\ c \in Connections /\ peer[s] = c /\ ~Broken(s)
  /\ Place(SocketInfoList, s) # 0 /\ i \in Infos /\ i.Socket = s
  /\ Len(i.Buffer) = i.BytesRECV /\ i.BytesRECV <= DATA_BUFSIZE /\ i.BytesSEND <= i.BytesRECV
  /\ (Drained(i) => ~i.RecvPosted)
  /\ w \in Lines /\ w.state = line[c].state /\ w.outbound = line[c].outbound
  /\ due \in {<<>>, <<ReadOf(s, c)>>} /\ (line[c].state = "closed" => w.arrived = <<>> /\ due = <<>>)
  /\ line[c].state = "open" =>
       /\ client[c].got \o w.outbound \o Pending(i) \o w.arrived = UpTo(client[c].sent)
       /\ w.readArmed => w.arrived = <<>>
       /\ ~w.readArmed => \/ due # <<>> \/ i.RecvPosted
                          \/ /\ Contains(messages, ReadOf(s, c))
                             /\ Head(messages).event # "FD_READ"

LEMMA FinishServes ==
  ASSUME SizesAssumption, EchoInv, NEW s, NEW c, NEW i, NEW w, NEW due,
         Handling(s), c \in Connections, peer[s] = c, Finish(s, i, w, due)
  PROVE  Finished(s, c, i, w, due)
<1>1. line \in [Connections -> Lines]
  BY DEF EchoInv, Typed
<1>2. line' = [d \in Connections |-> IF d = peer[s] THEN w ELSE line[d]]
  BY DEF Finish
<1>3. line' = [line EXCEPT ![c] = w]
  BY <1>1, <1>2
<1>. QED
  BY <1>3, PlaceOf DEF Finish, Handled, Finished

LEMMA EchoKeeps ==
  ASSUME SizesAssumption, EchoInv, NEW s, NEW c, NEW i, NEW w, NEW due,
         Ready(s, c, i, w, due), Echo(s, i, w, due)
  PROVE  EchoInv'
<1>0. /\ Typed /\ Handling(s) /\ c \in Connections /\ peer[s] = c /\ ~Broken(s)
      /\ line[c].state # "reset" /\ shortSent \in SUBSET Connections
  BY DEF EchoInv, Typed, Ready, Broken
<1>1. /\ Place(SocketInfoList, s) # 0 /\ i \in Infos /\ i.Socket = s
      /\ Len(i.Buffer) = i.BytesRECV /\ i.BytesRECV <= DATA_BUFSIZE /\ i.BytesSEND <= i.BytesRECV
      /\ i.Buffer \in Seq(Bytes) /\ i.BytesSEND \in Nat /\ i.BytesRECV \in Nat
      /\ Drained(i) => ~i.RecvPosted
  BY DEF Ready, Infos
<1>2. /\ w \in Lines /\ w.state = line[c].state /\ w.outbound = line[c].outbound
      /\ due \in {<<>>, <<ReadOf(s, c)>>} /\ (line[c].state = "closed" => w.arrived = <<>> /\ due = <<>>)
  BY DEF Ready
<1>3. line[c].state = "open" =>
        /\ client[c].got \o w.outbound \o Pending(i) \o w.arrived = UpTo(client[c].sent)
        /\ w.readArmed => w.arrived = <<>>
        /\ ~w.readArmed => \/ due # <<>> \/ i.RecvPosted
                           \/ /\ Contains(messages, ReadOf(s, c))
                              /\ Head(messages).event # "FD_READ"
  BY DEF Ready
<1>4. CASE Drained(i) /\ Finish(s, i, w, due) /\ UNCHANGED shortSent
  <2>1. Finished(s, c, i, w, due)
    BY <1>0, <1>4, FinishServes
  <2>2. Serves(s, c, i, w, due)
    BY <1>0, <1>1, <1>2, <1>3, <1>4, <2>1 DEF Serves
  <2>. QED
    BY <2>2, ServesKeeps
<1>5. CASE /\ ~Drained(i) /\ Len(w.outbound) = SocketRoom
           /\ Finish(s, i, [w EXCEPT !.blocked = TRUE], due) /\ UNCHANGED shortSent
  <2>1. PICK v : v = [w EXCEPT !.blocked = TRUE]
    OBVIOUS
  <2>2. /\ v \in Lines /\ v.state = w.state /\ v.outbound = w.outbound /\ v.arrived = w.arrived
        /\ v.readArmed = w.readArmed
    BY <1>2, <2>1 DEF Lines
  <2>3. Finish(s, i, v, due)
    BY <1>5, <2>1
  <2>4. Finished(s, c, i, v, due)
    BY <1>0, <2>3, FinishServes
  <2>5. Serves(s, c, i, v, due)
    BY <1>0, <1>1, <1>2, <1>3, <1>5, <2>2, <2>4 DEF Serves
  <2>. QED
    BY <2>5, ServesKeeps
<1>6. ASSUME NEW n \in 1 .. Len(Pending(i)),
             Finish(s, [i EXCEPT !.BytesSEND = @ + n],
                    [w EXCEPT !.outbound = @ \o SubSeq(Pending(i), 1, n)], due),
             shortSent' = IF n < Len(Pending(i)) THEN shortSent \cup {peer[s]} ELSE shortSent
      PROVE  EchoInv'
  <2>1. PICK b \in Seq(Bytes) : b = i.Buffer
    BY <1>1
  <2>2. PICK k \in Nat : k = i.BytesSEND
    BY <1>1
  <2>3. k + 1 \in Nat /\ k <= Len(b) /\ Len(b) \in Nat /\ Len(b) = i.BytesRECV
    BY <1>1, <2>1, <2>2
  <2>4. PICK p : p = Pending(i)
    OBVIOUS
  <2>5. p = SubSeq(b, k + 1, Len(b))
    BY <2>1, <2>2, <2>3, <2>4 DEF Pending
  <2>6. Len(p) = Len(b) - k
    <3>1. k \in 0 .. Len(b)
      BY <2>3
    <3>2. b \in Seq(Bytes)
      OBVIOUS
    <3>3. Len(SubSeq(b, k + 1, Len(b))) = Len(b) - k
      BY ONLY <3>1, <3>2, CutInTwo
    <3>. QED
      BY <2>5, <3>3
  <2>7. n \in Nat \ {0} /\ k + n <= Len(b)
    BY <1>6, <2>3, <2>4, <2>6
  <2>8. PICK x : x = SubSeq(p, 1, n)
    OBVIOUS
  <2>9. PICK y : y = SubSeq(b, k + n + 1, Len(b))
    OBVIOUS
  <2>10. /\ x \in Seq(Bytes) /\ Len(x) = n /\ y \in Seq(Bytes) /\ x \o y = p
    <3>1. Sendable(b, k, n)
      BY <2>7 DEF Sendable
    <3>. QED
      BY <2>5, <2>8, <2>9, <3>1, Sent
  <2>11. PICK j : j = [i EXCEPT !.BytesSEND = @ + n]
    OBVIOUS
  <2>12. /\ j \in Infos /\ j.Socket = s /\ j.Buffer = i.Buffer /\ j.BytesRECV = i.BytesRECV
         /\ j.BytesSEND = k + n /\ j.RecvPosted = i.RecvPosted
    <3>1. i.BytesSEND + n \in Nat
      BY <1>1, <2>7
    <3>. QED
      BY <1>1, <2>2, <2>11, <3>1 DEF Infos
  <2>13. Pending(j) = y
    BY <2>1, <2>3, <2>9, <2>12 DEF Pending
  <2>14. PICK o \in Seq(Bytes) : o = w.outbound
    BY <1>2 DEF Lines
  <2>15. PICK v : v = [w EXCEPT !.outbound = o \o x]
    OBVIOUS
  <2>16. o \o x \in Seq(Bytes) /\ o \o x # <<>>
    <3>1. o \o x \in Seq(Bytes) /\ Len(o \o x) = Len(o) + Len(x) /\ Len(o) \in Nat
      <4>1. o \in Seq(Bytes) /\ x \in Seq(Bytes)
        BY <2>10
      <4>. QED
        BY ONLY <4>1, ConcatProperties
    <3>2. Len(o \o x) # 0
      BY <2>7, <2>10, <3>1
    <3>. QED
      BY <3>1, <3>2, EmptySeq
  <2>17. /\ v \in Lines /\ v.state = w.state /\ v.outbound = o \o x /\ v.arrived = w.arrived
         /\ v.readArmed = w.readArmed
    BY <1>2, <2>15, <2>16 DEF Lines
  <2>18. Finish(s, j, v, due)
    <3>1. v = [w EXCEPT !.outbound = @ \o SubSeq(Pending(i), 1, n)]
      BY <2>4, <2>8, <2>14, <2>15
    <3>. QED
      BY <1>6, <2>11, <3>1
  <2>19. Finished(s, c, j, v, due)
    BY <1>0, <2>18, FinishServes
  <2>20. client[c].got \in Seq(Bytes)
    BY <1>0 DEF Typed, Clients
  <2>21. client[c].got \o v.outbound \o Pending(j) \o v.arrived
           = client[c].got \o w.outbound \o Pending(i) \o w.arrived
    <3>1. client[c].got \o (o \o x) \o y \o w.arrived = client[c].got \o o \o (x \o y) \o w.arrived
      <4>1. PICK g \in Seq(Bytes) : g = client[c].got
        BY <2>20
      <4>2. o \in Seq(Bytes) /\ x \in Seq(Bytes) /\ y \in Seq(Bytes) /\ g \in Seq(Bytes)
        BY <2>10
      <4>3. g \o (o \o x) \o y = g \o o \o (x \o y)
        <5>1. Parts(g, o, x, y)
          BY <4>2 DEF Parts
        <5>2. Regrouped(g, o, x, y)
          BY <5>1, Moved
        <5>. QED
          BY <5>2 DEF Regrouped
      <4>. QED
        BY <4>1, <4>3
    <3>. QED
      BY <2>4, <2>10, <2>13, <2>14, <2>17, <3>1
  <2>22. j.BytesSEND <= j.BytesRECV
    BY <2>3, <2>7, <2>12
  <2>23. shortSent' \in SUBSET Connections
    BY <1>0, <1>6
  <2>24. v.outbound # <<>>
    BY <2>16, <2>17
  <2>25. line[c].state = "open" =>
           /\ client[c].got \o v.outbound \o Pending(j) \o v.arrived = UpTo(client[c].sent)
           /\ v.readArmed => v.arrived = <<>>
           /\ ~v.readArmed => \/ due # <<>> \/ j.RecvPosted
                              \/ /\ Contains(messages, ReadOf(s, c))
                                 /\ Head(messages).event # "FD_READ"
    BY <1>3, <2>12, <2>17, <2>21
  <2>26. Serves(s, c, j, v, due)
    BY <1>0, <1>1, <1>2, <2>12, <2>17, <2>19, <2>22, <2>23, <2>24, <2>25 DEF Serves
  <2>. QED
    BY <2>26, ServesKeeps
<1>. QED
  BY <1>0, <1>4, <1>5, <1>6 DEF Echo

LEMMA WriteCaseKeeps ==
  ASSUME SizesAssumption, EchoInv, NEW s \in Sockets, WriteCase(s)
  PROVE  EchoInv'
<1>0. /\ Typed /\ InfosFit /\ EchoAt /\ SocketInfoList \in Seq(Infos)
      /\ line \in [Connections -> Lines] /\ peer[s] \in Connections \cup {Nobody}
  BY DEF EchoInv, Typed
<1>1. PICK i : i = Sees(SocketInfoList, s)
  OBVIOUS
<1>2. /\ Handling(s) /\ Head(messages).event = "FD_WRITE" /\ Place(SocketInfoList, s) # 0
      /\ Echo(s, i, line[peer[s]], <<>>)
  BY <1>1, PlaceOf DEF WriteCase, Handles, Handling, Sees
<1>3. /\ i \in Infos /\ i.Socket = s /\ Fits(i) /\ i.Buffer \in Seq(Bytes)
      /\ i.BytesSEND \in Nat /\ i.BytesRECV \in Nat /\ i.BytesSEND <= i.BytesRECV
      /\ Len(i.Buffer) = i.BytesRECV
  BY <1>0, <1>1, <1>2, InfoOf
<1>4. CASE Drained(i)
  <2>1. i.BytesSEND = 0 /\ i.BytesRECV = 0 /\ ~i.RecvPosted /\ i.RecvPosted = FALSE
    BY <1>3, <1>4 DEF Fits, Drained, Infos
  <2>2. i.Buffer = <<>>
    BY <1>3, <2>1, EmptySeq
  <2>3. Emptied(i) = i /\ Postponed(s, i) = <<>>
    BY <1>3, <1>4, <2>1, <2>2 DEF Emptied, Postponed, Infos
  <2>4. Finish(s, i, line[peer[s]], <<>>) /\ UNCHANGED shortSent
    BY <1>2, <1>4 DEF Echo
  <2>5. /\ SocketInfoList' = [SocketInfoList EXCEPT ![Place(SocketInfoList, s)] = i]
        /\ line' = [c \in Connections |-> IF c = peer[s] THEN line[peer[s]] ELSE line[c]]
        /\ Handled(<<>> \o <<>>) /\ UNCHANGED <<crashed, peer, backlog, client>>
    BY <2>3, <2>4, PlaceOf DEF Finish
  <2>6. line' = line
    BY <1>0, <2>5
  <2>7. Handled(<<>>)
    BY <2>5, Nothing
  <2>8. Replaced(SocketInfoList, s, i, SocketInfoList')
    BY <1>0, <1>2, <1>3, <2>5 DEF Replaced
  <2>9. InfosKept(s) /\ Sees(SocketInfoList', s) = i
    BY <1>0, <1>3, <2>8, ReplacedKeeps
  <2>10. \A c \in Connections : peer[s] = c => IntactAt(s, c)' /\ RememberedAt(s, c)'
    BY <1>1, <1>2, <2>5, <2>6, <2>7, <2>9, QuietAt
  <2>. QED
    BY <1>2, <2>4, <2>5, <2>6, <2>7, <2>9, <2>10, QuietKeeps
<1>5. CASE ~Drained(i) /\ Broken(s)
  <2>1. FreeSocketInformation(s)
    BY <1>2, <1>5 DEF Echo
  <2>. QED
    BY <1>2, <1>5, <2>1, FreeKeeps
<1>6. CASE ~Drained(i) /\ ~Broken(s)
  <2>1. PICK c \in Connections : c = peer[s]
    BY <1>0, <1>6 DEF Broken
  <2>2. line[c] \in Lines
    BY <1>0
  <2>3. IntactAt(s, c) /\ RememberedAt(s, c) /\ PartedAt(c)
    BY <1>0, <2>1 DEF EchoInv, EchoAt, Each
  <2>4. line[c].state = "closed" => line[c].arrived = <<>>
    BY <2>3 DEF PartedAt
  <2>5. line[c].state = "open" =>
          /\ client[c].got \o line[c].outbound \o Pending(i) \o line[c].arrived = UpTo(client[c].sent)
          /\ line[c].readArmed => line[c].arrived = <<>>
          /\ ~line[c].readArmed => Contains(messages, ReadOf(s, c)) \/ i.RecvPosted
    BY <1>1, <2>3 DEF IntactAt, RememberedAt
  <2>6. i.BytesRECV <= DATA_BUFSIZE
    BY <1>3 DEF Fits
  <2>7. Ready(s, c, i, line[c], <<>>)
    BY <1>2, <1>3, <1>6, <2>1, <2>2, <2>4, <2>5, <2>6 DEF Ready
  <2>. QED
    BY <1>2, <2>1, <2>7, EchoKeeps
<1>. QED
  BY <1>4, <1>5, <1>6

LEMMA PendingEmpty ==
  ASSUME Typed, InfosFit, NEW s, Place(SocketInfoList, s) # 0, Sees(SocketInfoList, s).BytesRECV = 0
  PROVE  Pending(Sees(SocketInfoList, s)) = <<>>
<1>1. PICK i : i = Sees(SocketInfoList, s)
  OBVIOUS
<1>2. i.Buffer \in Seq(Bytes) /\ Fits(i) /\ i.BytesRECV = 0 /\ Len(i.Buffer) = 0
  BY <1>1, InfoOf
<1>3. i.BytesSEND = 0 /\ i.Buffer = <<>>
  BY <1>2, EmptySeq DEF Fits
<1>4. Pending(i) = SubSeq(<<>>, 0 + 1, 0)
  BY <1>2, <1>3 DEF Pending
<1>5. SubSeq(<<>>, 1, 0) = <<>>
  OBVIOUS
<1>. QED
  BY <1>1, <1>4, <1>5

(* The bytes that WSARecv takes are still between those in front and those behind. *)
Cuts(g, o, a, x, y) == g \o o \o x \o y = g \o o \o <<>> \o a

LEMMA Cut ==
  ASSUME NEW g, NEW o, NEW a, NEW x, NEW y, Parts(g, o, x, y), x \o y = a
  PROVE  Cuts(g, o, a, x, y)
<1>1. g \in Seq(Bytes) /\ o \in Seq(Bytes) /\ x \in Seq(Bytes) /\ y \in Seq(Bytes)
  BY DEF Parts
<1>2. PICK p \in Seq(Bytes) : p = g \o o
  BY <1>1, ConcatProperties
<1>3. Grouped(p, x, y)
  BY <1>1, Grouping
<1>4. p \o <<>> = p
  BY ConcatEmptySeq
<1>5. p \o x \o y = p \o <<>> \o a
  BY <1>3, <1>4 DEF Grouped
<1>. QED
  BY <1>2, <1>5 DEF Cuts

LEMMA ReadCaseKeeps ==
  ASSUME SizesAssumption, EchoInv, NEW s \in Sockets, ReadCase(s)
  PROVE  EchoInv'
<1>0. /\ Typed /\ InfosFit /\ EchoAt /\ line \in [Connections -> Lines]
      /\ client \in [Connections -> Clients] /\ peer[s] \in Connections \cup {Nobody}
  BY DEF EchoInv, Typed
<1>1. PICK i : i = Sees(SocketInfoList, s)
  OBVIOUS
<1>2. Handling(s) /\ Place(SocketInfoList, s) # 0 /\ i.BytesRECV = 0
  BY <1>1, PlaceOf DEF ReadCase, ReadsNow, Handles, Handling, Sees
<1>3. CASE Broken(s)
  BY <1>2, <1>3, FreeKeeps DEF ReadCase
<1>4. CASE ~Broken(s)
  <2>1. PICK c \in Connections : c = peer[s]
    BY <1>0, <1>4 DEF Broken
  <2>2. PICK a \in Seq(Bytes) : a = line[c].arrived
    BY <1>0 DEF Lines
  <2>3. PICK t \in 0 .. Len(a) : t = Taken(s) /\ t <= DATA_BUFSIZE
    <3>1. Taken(s) = IF Len(a) < DATA_BUFSIZE THEN Len(a) ELSE DATA_BUFSIZE
      BY <2>1, <2>2 DEF Taken, Here
    <3>2. Len(a) \in Nat /\ DATA_BUFSIZE \in Nat
      BY SizesAssumption
    <3>. QED
      BY <3>1, <3>2
  <2>4. PICK x \in Seq(Bytes), y \in Seq(Bytes) : x = SubSeq(a, 1, t) /\ y = SubSeq(a, t + 1, Len(a))
    BY CutInTwo
  <2>5. Len(x) = t /\ t \in Nat /\ (y = <<>> <=> t = Len(a))
    <3>1. Len(SubSeq(a, 1, t)) = t /\ Len(SubSeq(a, t + 1, Len(a))) = Len(a) - t
      BY CutInTwo
    <3>2. Len(x) = t /\ Len(y) = Len(a) - t /\ Len(a) \in Nat /\ t \in Nat
      BY <2>4, <3>1
    <3>3. y = <<>> <=> Len(y) = 0
      BY <2>4, EmptySeq
    <3>. QED
      BY <3>2, <3>3
  <2>6. PICK j : j = Received(s)
    OBVIOUS
  <2>7. /\ j \in Infos /\ j.Socket = s /\ j.Buffer = x /\ j.BytesRECV = t /\ j.BytesSEND = 0
        /\ ~j.RecvPosted
    <3>1. i \in Infos /\ i.Socket = s /\ Fits(i)
      BY <1>0, <1>1, <1>2, InfoOf
    <3>2. i.BytesSEND = 0 /\ ~i.RecvPosted
      BY <1>2, <3>1 DEF Fits
    <3>3. j = [i EXCEPT !.Buffer = x, !.BytesRECV = t]
      BY <1>1, <2>1, <2>2, <2>3, <2>4, <2>6, PlaceOf DEF Received, Here, Sees
    <3>. QED
      BY <2>5, <3>1, <3>2, <3>3 DEF Infos
  <2>8. Pending(j) = x
    <3>1. Pending(j) = SubSeq(x, 0 + 1, t)
      BY <2>7 DEF Pending
    <3>2. SubSeq(x, 1, Len(x)) = x
      BY SubSeqFull
    <3>. QED
      BY <2>5, <3>1, <3>2
  <2>9. PICK l : l = LineLeft(s)
    OBVIOUS
  <2>10. /\ l \in Lines /\ l.state = line[c].state /\ l.outbound = line[c].outbound
         /\ l.arrived = y /\ l.readArmed = TRUE
    <3>1. l = [line[c] EXCEPT !.arrived = y, !.readArmed = TRUE]
      BY <2>1, <2>2, <2>3, <2>4, <2>9 DEF LineLeft, Here
    <3>. QED
      BY <1>0, <3>1 DEF Lines
  <2>11. PICK w : w = Notified(l)
    OBVIOUS
  <2>12. /\ w \in Lines /\ w.state = line[c].state /\ w.outbound = line[c].outbound
         /\ w.arrived = y /\ (w.readArmed <=> y = <<>>)
    BY <2>10, <2>11 DEF Notified, Lines
  <2>13. PICK due : due = ReadDue(l, Event(s, "FD_READ"))
    OBVIOUS
  <2>14. (y = <<>> => due = <<>>) /\ (y # <<>> => due = <<ReadOf(s, c)>>)
    BY <2>1, <2>10, <2>13 DEF ReadDue, Event, ReadOf
  <2>15. <<ReadOf(s, c)>> # <<>> /\ due \in {<<>>, <<ReadOf(s, c)>>}
    BY <2>14
  <2>16. IntactAt(s, c) /\ PartedAt(c)
    BY <1>0, <2>1 DEF EchoInv, EchoAt, Each
  <2>17. line[c].state = "closed" => w.arrived = <<>> /\ due = <<>>
    <3>1. ASSUME line[c].state = "closed"
          PROVE  y = <<>>
      <4>1. a = <<>> /\ Len(a) = 0
        BY <2>2, <2>16, <3>1 DEF PartedAt
      <4>2. t = Len(a)
        BY <4>1, SMTT(60)
      <4>. QED
        BY <2>5, <4>2
    <3>. QED
      BY <2>12, <2>14, <3>1
  <2>18. client[c].got \o line[c].outbound \o x \o y = client[c].got \o line[c].outbound \o <<>> \o a
    <3>1. client[c].got \in Seq(Bytes) /\ line[c].outbound \in Seq(Bytes)
      BY <1>0 DEF Clients, Lines
    <3>2. PICK g \in Seq(Bytes), o \in Seq(Bytes) : g = client[c].got /\ o = line[c].outbound
      BY <3>1
    <3>3. x \o y = a
      BY <2>4, CutInTwo
    <3>4. Parts(g, o, x, y)
      BY DEF Parts
    <3>5. Cuts(g, o, a, x, y)
      BY <3>3, <3>4, Cut
    <3>. QED
      BY <3>2, <3>5 DEF Cuts
  <2>19. Pending(i) = <<>>
    BY <1>1, <1>2, PendingEmpty, <1>0
  <2>20. line[c].state = "open" =>
           client[c].got \o w.outbound \o Pending(j) \o w.arrived = UpTo(client[c].sent)
    BY <1>1, <2>2, <2>8, <2>12, <2>16, <2>18, <2>19 DEF IntactAt
  <2>21. Ready(s, c, j, w, due)
    <3>1. Len(j.Buffer) = j.BytesRECV /\ j.BytesRECV <= DATA_BUFSIZE /\ j.BytesSEND <= j.BytesRECV
      BY <2>3, <2>5, <2>7
    <3>2. w.readArmed => w.arrived = <<>>
      BY <2>12
    <3>3. ~w.readArmed => due # <<>>
      BY <2>12, <2>14, <2>15
    <3>. QED
      BY <1>2, <1>4, <2>1, <2>7, <2>12, <2>15, <2>17, <2>20, <3>1, <3>2, <3>3 DEF Ready
  <2>22. Echo(s, j, w, due)
    BY <1>4, <2>6, <2>9, <2>11, <2>13 DEF ReadCase
  <2>. QED
    BY <2>21, <2>22, EchoKeeps
<1>. QED
  BY <1>3, <1>4

-----------------------------------------------------------------------------
(***************************************************************************)
(* The invariant holds.                                                    *)
(***************************************************************************)
LEMMA InitEcho ==
  ASSUME SizesAssumption, Init
  PROVE  EchoInv
<1>1. /\ messages = <<>> /\ SocketInfoList = <<>> /\ crashed = FALSE /\ backlog = <<>> /\ shortSent = {}
      /\ \A s \in Sockets : peer[s] = Nobody
      /\ \A c \in Connections :
           /\ line[c].state = "none" /\ line[c].arrived = <<>> /\ line[c].outbound = <<>>
           /\ line[c].readArmed = FALSE
           /\ client[c].sent = 0 /\ client[c].got = <<>>
  BY DEF Init
<1>2. Typed
  <2>1. /\ <<>> \in Seq(Bytes) /\ <<>> \in Seq(Messages) /\ <<>> \in Seq(Infos)
        /\ <<>> \in Seq(Connections)
    OBVIOUS
  <2>2. line \in [Connections -> Lines]
    BY <2>1 DEF Init, Lines
  <2>3. client \in [Connections -> Clients]
    <3>1. 0 \in 0 .. MaxBytes
      BY SizesAssumption
    <3>. QED
      BY <2>1, <3>1 DEF Init, Clients
  <2>4. peer \in [Sockets -> Connections \cup {Nobody}]
    BY DEF Init
  <2>. QED
    BY <1>1, <2>1, <2>2, <2>3, <2>4 DEF Typed
<1>3. DOMAIN messages = {} /\ DOMAIN SocketInfoList = {} /\ DOMAIN backlog = {}
  BY <1>1
<1>4. InfosFit /\ Accepting /\ Clean
  BY <1>3 DEF InfosFit, Accepting, Clean
<1>5. Peers
  BY <1>1, SizesAssumption DEF Peers, Attached
<1>6. Each
  <2>1. UpTo(0) = <<>>
    <3>1. UpTo(0) \in Seq(1 .. 0) /\ Len(UpTo(0)) = 0
      BY UpToSeq
    <3>. QED
      BY <3>1, EmptySeq
  <2>. QED
    BY <1>1, <2>1 DEF Each, EarlyAt, PartedAt
<1>7. EchoAt
  BY <1>1, SizesAssumption DEF EchoAt
<1>. QED
  BY <1>2, <1>4, <1>5, <1>6, <1>7 DEF EchoInv, Tidy

LEMMA EchoStep ==
  ASSUME SizesAssumption, EchoInv, [Next]_vars
  PROVE  EchoInv'
<1>1. CASE UNCHANGED vars
  <2>1. UNCHANGED <<messages, SocketInfoList, crashed, peer, backlog, line, client, shortSent>>
    BY <1>1 DEF vars
  <2>2. Typed' /\ InfosFit' /\ Peers' /\ Accepting'
    BY <2>1 DEF EchoInv, Typed, InfosFit, Peers, Accepting
  <2>3. Each'
    BY <2>1 DEF EchoInv, Each, EarlyAt, PartedAt
  <2>4. EchoAt'
    BY <2>1 DEF EchoInv, EchoAt, IntactAt, RememberedAt
  <2>5. Tidy'
    BY <2>1 DEF EchoInv, Tidy, WasReset, Clean, CleanAt
  <2>. QED
    BY <2>2, <2>3, <2>4, <2>5 DEF EchoInv
<1>2. ASSUME NEW s \in Sockets,
             \/ Accept(s) \/ AcceptFails(s) \/ NoInformation(s) \/ WriteCase(s)
             \/ ReadPostponed(s) \/ ReadCase(s) \/ CloseCase(s)
      PROVE  EchoInv'
  BY <1>2, AcceptKeeps, AcceptFailsKeeps, NoInformationKeeps, WriteCaseKeeps,
     ReadPostponedKeeps, ReadCaseKeeps, CloseCaseKeeps
<1>3. ASSUME NEW c \in Connections,
             \/ Connect(c) \/ ClientSends(c) \/ ClientReads(c)
             \/ ClientCloses(c) \/ CloseNotified(c) \/ Reset(c)
      PROVE  EchoInv'
  BY <1>3, ConnectKeeps, ClientSendsKeeps, ClientReadsKeeps, ClientClosesKeeps
<1>. QED
  BY <1>1, <1>2, <1>3 DEF Next, ServerMessageProc, Environment

(* EchoInv holds in every state: one information per socket in front, one   *)
(* line of bytes through line, buffer and line again, a notification that   *)
(* somebody remembers, and no stray message before a connection was reset.  *)
THEOREM EchoInvariant == Spec => []EchoInv
<1>1. Init => EchoInv
  BY SizesAssumption, InitEcho
<1>2. EchoInv /\ [Next]_vars => EchoInv'
  BY SizesAssumption, EchoStep
<1>. QED
  BY <1>1, <1>2, PTL DEF Spec

LEMMA TypeHolds ==
  ASSUME EchoInv
  PROVE  TypeOK
<1>0. Typed /\ InfosFit
  BY DEF EchoInv
<1>1. messages \in Seq([wParam : Sockets \cup {Nobody}, about : Connections \cup {Nobody},
                       event : {"FD_ACCEPT", "FD_READ", "FD_WRITE", "FD_CLOSE"}])
  BY <1>0 DEF Typed, Messages
<1>2. ASSUME NEW k \in DOMAIN SocketInfoList
      PROVE  LET i == SocketInfoList[k] IN
             /\ i.Socket \in Sockets /\ i.RecvPosted \in BOOLEAN /\ i.Buffer \in Seq(Bytes)
             /\ i.BytesRECV \in 0 .. DATA_BUFSIZE /\ i.BytesSEND \in 0 .. i.BytesRECV
  <2>1. PICK i : i = SocketInfoList[k]
    OBVIOUS
  <2>2. i \in Infos /\ Fits(i)
    BY <1>0, <2>1 DEF Typed, InfosFit
  <2>3. /\ i.Socket \in Sockets /\ i.RecvPosted \in BOOLEAN /\ i.Buffer \in Seq(Bytes)
        /\ i.BytesSEND \in Nat /\ i.BytesRECV \in Nat
    BY <2>2 DEF Infos
  <2>4. i.BytesRECV <= DATA_BUFSIZE /\ i.BytesSEND <= i.BytesRECV
    BY <2>2, <2>3 DEF Fits
  <2>5. i.BytesRECV \in 0 .. DATA_BUFSIZE /\ i.BytesSEND \in 0 .. i.BytesRECV
    BY <2>3, <2>4, SizesAssumption
  <2>. QED
    BY <2>1, <2>3, <2>5
<1>3. line \in [Connections -> [state : {"none", "listen", "open", "closing", "closed", "reset", "shut"},
                               arrived : Seq(Bytes), outbound : Seq(Bytes),
                               readArmed : BOOLEAN, blocked : BOOLEAN]]
  <2>1. Attached \cup {"none", "listen", "shut"}
          = {"none", "listen", "open", "closing", "closed", "reset", "shut"}
    BY DEF Attached
  <2>. QED
    BY <1>0, <2>1 DEF Typed, Lines
<1>. QED
  BY <1>0, <1>1, <1>2, <1>3 DEF Typed, TypeOK

(* The information Info(c) names is the first of the handle that c has. *)
LEMMA InfoIs ==
  ASSUME SizesAssumption, EchoInv, NEW c \in Connections, line[c].state = "open"
  PROVE  \E s \in Sockets : /\ s = Handle(c) /\ peer[s] = c /\ Info(c) = Sees(SocketInfoList, s)
                            /\ IntactAt(s, c) /\ RememberedAt(s, c)
                            /\ Typed /\ InfosFit /\ Place(SocketInfoList, s) # 0
<1>0. Typed /\ InfosFit /\ Peers /\ EchoAt
  BY DEF EchoInv
<1>1. PICK s : s = Handle(c)
  OBVIOUS
<1>2. s \in Sockets /\ peer[s] = c
  BY <1>0, <1>1, HandleOf DEF Attached
<1>3. Place(SocketInfoList, s) # 0
  BY <1>0, <1>2, SizesAssumption DEF Peers
<1>4. Info(c) = Sees(SocketInfoList, s)
  BY <1>1, PlaceOf DEF Info, Sees
<1>. QED
  BY <1>0, <1>1, <1>2, <1>3, <1>4 DEF EchoAt

(* While a connection is open, what its client got back, what is on its way *)
(* back, what is left in the buffer and what has arrived are together the   *)
(* bytes the client sent, in order, whatever WSARecv and WSASend take.      *)
THEOREM BytesComeBackInOrder == Spec => []EchoIntact
<1>1. EchoInv => EchoIntact
  <2>1. ASSUME EchoInv, NEW c \in Connections, line[c].state = "open"
        PROVE  client[c].got \o line[c].outbound \o Pending(Info(c)) \o line[c].arrived
                 = [k \in 1 .. client[c].sent |-> k]
    BY <2>1, SizesAssumption, InfoIs DEF IntactAt, UpTo
  <2>. QED
    BY <2>1, TypeHolds DEF EchoIntact
<1>. QED
  BY <1>1, EchoInvariant, PTL

(* An arrived byte of an open connection is never forgotten: an FD_READ for *)
(* it is in the queue, or RecvPosted says so while the buffer is not empty. *)
THEOREM NotificationsAreKept == Spec => []NoLostNotification
<1>1. EchoInv => NoLostNotification
  <2>1. ASSUME EchoInv, NEW c \in Connections, line[c].state = "open", line[c].arrived # <<>>
        PROVE  \/ Contains(messages, Event(Handle(c), "FD_READ"))
               \/ Info(c).RecvPosted /\ Info(c).BytesRECV > 0
    <3>1. PICK s \in Sockets : /\ s = Handle(c) /\ peer[s] = c /\ Info(c) = Sees(SocketInfoList, s)
                               /\ RememberedAt(s, c)
                               /\ Typed /\ InfosFit /\ Place(SocketInfoList, s) # 0
      BY <2>1, SizesAssumption, InfoIs
    <3>2. PICK i : i = Info(c)
      OBVIOUS
    <3>3. Fits(i) /\ i.BytesRECV \in Nat
      BY <3>1, <3>2, InfoOf
    <3>4. i.RecvPosted => i.BytesRECV > 0
      BY <3>3 DEF Fits
    <3>5. Event(s, "FD_READ") = ReadOf(s, c)
      BY <3>1 DEF Event, ReadOf
    <3>6. Contains(messages, ReadOf(s, c)) \/ i.RecvPosted
      BY <2>1, <3>1, <3>2 DEF RememberedAt
    <3>. QED
      BY <3>1, <3>2, <3>4, <3>5, <3>6
  <2>. QED
    BY <2>1 DEF NoLostNotification
<1>. QED
  BY <1>1, EchoInvariant, PTL

-----------------------------------------------------------------------------
(***************************************************************************)
(* What a queue without stray messages rules out.                          *)
(***************************************************************************)
LEMMA HeadIsClean ==
  ASSUME EchoInv, Clean, NEW s, Handling(s)
  PROVE  /\ peer[s] \in Connections
         /\ Head(messages).event = "FD_CLOSE" => line[peer[s]].state = "closed"
<1>1. /\ 1 \in DOMAIN messages /\ Head(messages) = messages[1]
      /\ messages[1].event # "FD_ACCEPT" /\ messages[1].wParam = s
  BY Dequeued DEF EchoInv, Typed, Handling
<1>2. CleanAt(1)
  BY <1>1 DEF Clean
<1>. QED
  BY <1>1, <1>2 DEF CleanAt

LEMMA StaysUp ==
  ASSUME SizesAssumption, EchoInv, Clean, Next
  PROVE  crashed' = crashed
<1>1. ASSUME NEW s \in Sockets, NoInformation(s)
      PROVE  FALSE
  <2>1. Handling(s) /\ Place(SocketInfoList, s) = 0
    BY <1>1, PlaceOf DEF NoInformation, Handles, Handling
  <2>2. peer[s] \in Connections
    BY <2>1, HeadIsClean
  <2>. QED
    BY <2>1, <2>2, SizesAssumption DEF EchoInv, Peers
<1>2. ASSUME NEW s, NEW i, NEW w, NEW posts, Echo(s, i, w, posts)
      PROVE  crashed' = crashed
  BY <1>2 DEF Echo, Finish, FreeSocketInformation
<1>3. ASSUME NEW s \in Sockets, WriteCase(s) \/ ReadCase(s)
      PROVE  crashed' = crashed
  BY <1>2, <1>3 DEF WriteCase, ReadCase, FreeSocketInformation
<1>4. ASSUME NEW s \in Sockets, Accept(s) \/ AcceptFails(s) \/ ReadPostponed(s) \/ CloseCase(s)
      PROVE  crashed' = crashed
  BY <1>4 DEF Accept, AcceptFails, ReadPostponed, CloseCase, FreeSocketInformation
<1>5. ASSUME NEW c \in Connections,
             \/ Connect(c) \/ ClientSends(c) \/ ClientReads(c)
             \/ ClientCloses(c) \/ CloseNotified(c) \/ Reset(c)
      PROVE  crashed' = crashed
  BY <1>5 DEF Connect, ClientSends, ClientReads, ClientCloses, CloseNotified, Reset
<1>. QED
  BY <1>1, <1>3, <1>4, <1>5 DEF Next, ServerMessageProc, Environment

(* The server closes connection c with this step. *)
Shuts(c) == line[c].state = "open" /\ line'[c].state = "shut"

LEMMA EchoShutsNone ==
  ASSUME Typed, NEW s, NEW i, NEW w, NEW posts, NEW c \in Connections, Echo(s, i, w, posts),
         ~Broken(s), peer[s] \in Connections, w \in Lines, w.state = line[peer[s]].state
  PROVE  ~Shuts(c)
<1>1. ASSUME NEW v, NEW j, v.state = line[peer[s]].state, Finish(s, j, v, posts)
      PROVE  ~Shuts(c)
  <2>1. line'[c] = IF c = peer[s] THEN v ELSE line[c]
    BY <1>1 DEF Finish
  <2>. QED
    BY <1>1, <2>1 DEF Shuts
<1>2. /\ [w EXCEPT !.blocked = TRUE].state = w.state
      /\ \A n : [w EXCEPT !.outbound = @ \o SubSeq(Pending(i), 1, n)].state = w.state
  BY DEF Lines
<1>. QED
  BY <1>1, <1>2 DEF Echo

LEMMA FreeShutsNone ==
  ASSUME EchoInv, Clean, NEW s, Handling(s), FreeSocketInformation(s), NEW c \in Connections,
         Head(messages).event = "FD_CLOSE" \/ Broken(s)
  PROVE  ~Shuts(c)
<1>1. peer[s] \in Connections /\ line[peer[s]].state # "open"
  <2>1. /\ peer[s] \in Connections
        /\ Head(messages).event = "FD_CLOSE" => line[peer[s]].state = "closed"
    BY HeadIsClean
  <2>. QED
    BY <2>1, SizesAssumption DEF Broken
<1>2. line'[c] = line[c] \/ (line[c].state # "open")
  <2>1. CASE c = peer[s]
    BY <1>1, <2>1
  <2>2. CASE c # peer[s]
    BY <2>2 DEF FreeSocketInformation
  <2>. QED
    BY <2>1, <2>2
<1>. QED
  BY <1>2 DEF Shuts

LEMMA StaysOpen ==
  ASSUME SizesAssumption, EchoInv, Clean, Next, NEW c \in Connections
  PROVE  ~Shuts(c)
<1>0. /\ Typed /\ Accepting /\ line \in [Connections -> Lines] /\ backlog \in Seq(Connections)
      /\ \A s \in Sockets : peer[s] \in Connections \cup {Nobody}
  BY DEF EchoInv, Typed
<1>1. ASSUME NEW s \in Sockets, WriteCase(s) \/ ReadCase(s) \/ CloseCase(s)
      PROVE  ~Shuts(c)
  <2>1. Handling(s)
    BY <1>1 DEF WriteCase, ReadCase, ReadsNow, CloseCase, Handles, Handling
  <2>2. peer[s] \in Connections
    BY <2>1, HeadIsClean
  <2>3. line[peer[s]] \in Lines
    BY <1>0, <2>2
  <2>4. ASSUME FreeSocketInformation(s), Head(messages).event = "FD_CLOSE" \/ Broken(s)
        PROVE  ~Shuts(c)
    BY <2>1, <2>4, FreeShutsNone
  <2>5. ASSUME NEW i, NEW w, NEW posts, Echo(s, i, w, posts), w \in Lines,
               w.state = line[peer[s]].state
        PROVE  ~Shuts(c)
    <3>1. CASE ~Broken(s)
      BY <1>0, <2>2, <2>5, <3>1, EchoShutsNone
    <3>2. CASE Broken(s) /\ FreeSocketInformation(s)
      BY <2>4, <3>2
    <3>3. CASE Broken(s) /\ Finish(s, i, w, posts)
      <4>1. line'[c] = IF c = peer[s] THEN w ELSE line[c]
        BY <3>3 DEF Finish
      <4>. QED
        BY <2>5, <4>1 DEF Shuts
    <3>. QED
      BY <2>5, <3>1, <3>2, <3>3 DEF Echo
  <2>6. CASE WriteCase(s)
    BY <2>3, <2>5, <2>6 DEF WriteCase
  <2>7. CASE ReadCase(s)
    <3>1. Notified(LineLeft(s)) \in Lines /\ Notified(LineLeft(s)).state = line[peer[s]].state
      <4>1. PICK a \in Seq(Bytes) : a = Here(s)
        BY <2>3 DEF Here, Lines
      <4>2. PICK y \in Seq(Bytes) : y = SubSeq(Here(s), Taken(s) + 1, Len(Here(s)))
        <5>1. Taken(s) \in 0 .. Len(a)
          BY <4>1, SizesAssumption DEF Taken
        <5>. QED
          BY <4>1, <5>1, CutInTwo
      <4>3. PICK l : l = LineLeft(s)
        OBVIOUS
      <4>4. l \in Lines /\ l.state = line[peer[s]].state
        BY <2>3, <4>2, <4>3 DEF LineLeft, Lines
      <4>5. Notified(l) \in Lines /\ Notified(l).state = l.state
        BY <4>4 DEF Notified, Lines
      <4>. QED
        BY <4>3, <4>4, <4>5
    <3>. QED
      BY <2>4, <2>5, <2>7, <3>1 DEF ReadCase
  <2>8. CASE CloseCase(s)
    BY <2>4, <2>8 DEF CloseCase, Handles
  <2>. QED
    BY <1>1, <2>6, <2>7, <2>8
<1>2. ASSUME NEW s \in Sockets, NoInformation(s) \/ ReadPostponed(s)
      PROVE  ~Shuts(c)
  BY <1>2 DEF NoInformation, ReadPostponed, Shuts
<1>3. ASSUME NEW s \in Sockets, AcceptFails(s)
      PROVE  ~Shuts(c)
  <2>1. messages # <<>> /\ Head(messages).event = "FD_ACCEPT"
    BY <1>3 DEF AcceptFails, Handles
  <2>2. backlog # <<>>
    BY <1>0, <2>1, Dequeued DEF Accepting, Typed
  <2>3. line[Head(backlog)].state = "listen"
    BY <1>0, <2>2, Dequeued DEF Accepting
  <2>4. line' = [line EXCEPT ![Head(backlog)].state = "shut"]
    BY <1>3 DEF AcceptFails
  <2>5. c # Head(backlog) => line'[c] = line[c]
    BY <1>0, <2>4
  <2>. QED
    BY <2>3, <2>5 DEF Shuts
<1>4. ASSUME NEW s \in Sockets, Accept(s)
      PROVE  ~Shuts(c)
  <2>1. PICK d, w : /\ w = Notified([line[d] EXCEPT !.state = "open", !.readArmed = TRUE])
                    /\ line' = [line EXCEPT ![d] = w]
    BY <1>4 DEF Accept
  <2>2. d \in Connections => w.state = "open"
    BY <1>0, <2>1 DEF Notified, Lines
  <2>3. line'[c] = line[c] \/ (line'[c] = w /\ d \in Connections)
    BY <1>0, <2>1
  <2>. QED
    BY <2>2, <2>3 DEF Shuts
<1>5. ASSUME NEW d \in Connections,
             \/ Connect(d) \/ ClientSends(d) \/ ClientReads(d)
             \/ ClientCloses(d) \/ CloseNotified(d) \/ Reset(d)
      PROVE  ~Shuts(c)
  <2>1. line[d] \in Lines
    BY <1>0
  <2>2. CASE Connect(d)
    BY <1>0, <2>1, <2>2 DEF Connect, Shuts, Lines
  <2>3. CASE ClientSends(d)
    <3>1. PICK w : w = [line[d] EXCEPT !.arrived = Append(@, client[d].sent + 1)]
      OBVIOUS
    <3>2. PICK v : v = Notified(w)
      OBVIOUS
    <3>3. line' = [line EXCEPT ![d] = v] /\ line[d].state # "shut"
      BY <2>3, <3>1, <3>2 DEF ClientSends
    <3>4. v.state = line[d].state
      BY <2>1, <3>1, <3>2 DEF Notified, Lines
    <3>5. line'[d] = v /\ (c # d => line'[c] = line[c])
      BY <1>0, <3>3
    <3>6. c = d => line'[c].state # "shut"
      BY <3>3, <3>4, <3>5
    <3>. QED
      BY <3>5, <3>6 DEF Shuts
  <2>4. CASE ClientReads(d)
    <3>1. line' = [line EXCEPT ![d].outbound = Tail(@), ![d].blocked = FALSE] /\ line[d].state = "open"
      BY <2>4 DEF ClientReads
    <3>2. line'[d].state = line[d].state /\ (c # d => line'[c] = line[c])
      BY <1>0, <2>1, <3>1 DEF Lines
    <3>. QED
      BY <3>1, <3>2 DEF Shuts
  <2>5. CASE ClientCloses(d) \/ CloseNotified(d) \/ Reset(d)
    <3>1. \/ line' = [line EXCEPT ![d].state = "closing"]
          \/ line' = [line EXCEPT ![d].state = "closed"]
          \/ line' = [line EXCEPT ![d].state = "reset", ![d].arrived = <<>>]
      BY <2>5 DEF ClientCloses, CloseNotified, Reset
    <3>2. line'[d].state # "shut" /\ (c # d => line'[c] = line[c])
      BY <1>0, <2>1, <3>1 DEF Lines
    <3>. QED
      BY <3>2 DEF Shuts
  <2>. QED
    BY <1>5, <2>2, <2>3, <2>4, <2>5
<1>. QED
  BY <1>1, <1>2, <1>3, <1>4, <1>5 DEF Next, ServerMessageProc, Environment

(* The server neither crashes nor closes a connection that is open before a *)
(* connection was reset: every message then is for the connection that has  *)
(* its handle, which has an information, and is an FD_CLOSE of one that its *)
(* client has closed.                                                       *)
THEOREM OnlyAResetHarms == Spec => HarmNeedsReset
<1> DEFINE A == \/ crashed' # crashed
                \/ \E c \in Connections : line[c].state = "open" /\ line'[c].state = "shut"
                => \E d \in Connections : WasReset(d)
<1>1. ASSUME EchoInv, [Next]_vars
      PROVE  [A]_vars
  <2>1. CASE \E d \in Connections : WasReset(d)
    BY <2>1
  <2>2. CASE Clean /\ Next
    BY <1>1, <2>2, SizesAssumption, StaysUp, StaysOpen DEF Shuts
  <2>3. CASE UNCHANGED vars
    BY <2>3
  <2>. QED
    BY <1>1, <2>1, <2>2, <2>3 DEF EchoInv, Tidy
<1>. QED
  BY <1>1, EchoInvariant, PTL DEF Spec, HarmNeedsReset
=============================================================================
