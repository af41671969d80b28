----------------------------- MODULE TcpProofs -----------------------------
(***************************************************************************)
(* Machine-checked proofs about module Tcp, for any number of sockets and  *)
(* hosts, streams of any length shorter than the sequence space, buffers,  *)
(* frames and rings of any size.                                           *)
(***************************************************************************)
EXTENDS Tcp, SequenceTheorems, TLAPS

-----------------------------------------------------------------------------
(* Sequence numbers.                                                       *)

SeqNos == 0 .. SeqMod - 1

LEMMA PlusRange ==
  ASSUME NEW q \in SeqNos, NEW n \in Nat
  PROVE  Plus(q, n) \in SeqNos
  BY NumbersAssumption DEF SeqNos, Plus

LEMMA PlusIs ==
  ASSUME NEW q \in SeqNos, NEW n \in SeqNos
  PROVE  Plus(q, n) = IF q + n < SeqMod THEN q + n ELSE q + n - SeqMod
  <1>1. PICK M \in Nat, a \in Nat : M = SeqMod /\ a = q + n /\ M > 0 /\ a < M + M
    BY NumbersAssumption DEF SeqNos
  <1>0. Plus(q, n) = a % M
    BY <1>1 DEF Plus
  <1>2. CASE a < M
    <2>1. a % M = a
      BY <1>2
    <2> QED BY <1>0, <1>1, <1>2, <2>1 DEF SeqNos
  <1>3. CASE ~(a < M)
    <2>1. a % M = a - M
      BY <1>1, <1>3
    <2> QED BY <1>0, <1>1, <1>3, <2>1 DEF SeqNos
  <1> QED BY <1>2, <1>3

LEMMA PlusAdd ==
  ASSUME NEW q \in SeqNos, NEW a \in Nat, NEW b \in Nat, a + b < SeqMod
  PROVE  Plus(Plus(q, a), b) = Plus(q, a + b)
  <1>1. SeqMod \in Nat /\ a \in SeqNos /\ b \in SeqNos /\ a + b \in SeqNos
    BY NumbersAssumption DEF SeqNos
  <1>2. PICK x \in SeqNos : x = Plus(q, a)
    BY PlusRange
  <1>3. x = IF q + a < SeqMod THEN q + a ELSE q + a - SeqMod
    BY <1>1, <1>2, PlusIs
  <1>4. Plus(x, b) = IF x + b < SeqMod THEN x + b ELSE x + b - SeqMod
    BY <1>1, PlusIs
  <1>5. Plus(q, a + b) = IF q + (a + b) < SeqMod THEN q + (a + b) ELSE q + (a + b) - SeqMod
    BY <1>1, PlusIs
  <1>6. Plus(x, b) = Plus(q, a + b)
    BY <1>1, <1>3, <1>4, <1>5 DEF SeqNos
  <1> QED BY <1>2, <1>6

\* In a stream shorter than the sequence space a number names one place.
LEMMA PlusSame ==
  ASSUME NEW q \in SeqNos, NEW a \in SeqNos, NEW b \in SeqNos, Plus(q, a) = Plus(q, b)
  PROVE  a = b
  <1>1. SeqMod \in Nat
    BY NumbersAssumption
  <1>2. /\ Plus(q, a) = IF q + a < SeqMod THEN q + a ELSE q + a - SeqMod
        /\ Plus(q, b) = IF q + b < SeqMod THEN q + b ELSE q + b - SeqMod
    BY PlusIs
  <1>3. q \in Nat /\ a \in Nat /\ b \in Nat /\ a < SeqMod /\ b < SeqMod
    BY <1>1 DEF SeqNos
  <1>4. PICK M \in Nat, x \in Nat, y \in Nat, z \in Nat : M = SeqMod /\ x = q /\ y = a /\ z = b
    BY <1>1, <1>3
  <1>5. /\ y < M /\ z < M
        /\ (IF x + y < M THEN x + y ELSE x + y - M) = (IF x + z < M THEN x + z ELSE x + z - M)
    BY <1>2, <1>3, <1>4
  <1>6. y = z
    BY <1>5
  <1> QED BY <1>4, <1>6

-----------------------------------------------------------------------------
(* Streams.                                                                *)

Bytes == Hosts \X Socks \X Nat

LEMMA PieceFacts ==
  ASSUME NEW h \in Hosts, NEW s \in Socks, NEW i \in Nat, NEW j \in Nat, i <= j
  PROVE  /\ Piece(h, s, i, j) \in Seq(Bytes) /\ Len(Piece(h, s, i, j)) = j - i
         /\ \A n \in 1 .. j - i : Piece(h, s, i, j)[n] = <<h, s, i + n>>
  <1> DEFINE p == [n \in 1 .. j - i |-> <<h, s, i + n>>]
  <1>1. j - i \in Nat
    OBVIOUS
  <1>2. ASSUME NEW n \in 1 .. j - i PROVE <<h, s, i + n>> \in Bytes
    <2>1. i + n \in Nat
      OBVIOUS
    <2> QED BY <2>1 DEF Bytes
  <1>3. p \in Seq(Bytes)
    BY <1>1, <1>2, IsASeq
  <1>4. DOMAIN p = 1 .. j - i /\ \A n \in 1 .. j - i : p[n] = <<h, s, i + n>>
    OBVIOUS
  <1> HIDE DEF p
  <1>5. Len(p) = j - i
    BY <1>1, <1>3, <1>4, LenProperties
  <1> QED BY <1>3, <1>4, <1>5 DEF Piece, p

LEMMA FirstPiece ==
  ASSUME NEW h \in Hosts, NEW s \in Socks, NEW j \in Nat
  PROVE  /\ Piece(h, s, 0, j) \in Seq(Bytes) /\ Len(Piece(h, s, 0, j)) = j
         /\ \A n \in 1 .. j : Piece(h, s, 0, j)[n] = <<h, s, n>>
  <1>1. PICK z \in Nat : z = 0
    OBVIOUS
  <1>2. z <= j
    BY <1>1
  <1> DEFINE p == Piece(h, s, z, j)
  <1>3. /\ p \in Seq(Bytes) /\ Len(p) = j - z
        /\ \A n \in 1 .. j - z : p[n] = <<h, s, z + n>>
    BY <1>2, PieceFacts
  <1> HIDE DEF p
  <1>4. j - z = j /\ \A n \in 1 .. j : z + n = n
    BY <1>1
  <1>5. p \in Seq(Bytes) /\ Len(p) = j /\ \A n \in 1 .. j : p[n] = <<h, s, n>>
    BY <1>3, <1>4
  <1> QED BY <1>1, <1>5 DEF p

\* A piece that starts where another ends joins it.
LEMMA PieceJoin ==
  ASSUME NEW h \in Hosts, NEW s \in Socks, NEW i \in Nat, NEW j \in Nat, i <= j
  PROVE  Piece(h, s, 0, i) \o Piece(h, s, i, j) = Piece(h, s, 0, j)
  <1> DEFINE a == Piece(h, s, 0, i)
             b == Piece(h, s, i, j)
             c == Piece(h, s, 0, j)
  <1>1. a \in Seq(Bytes) /\ Len(a) = i /\ \A n \in 1 .. i : a[n] = <<h, s, n>>
    BY FirstPiece
  <1>2. b \in Seq(Bytes) /\ Len(b) = j - i /\ \A n \in 1 .. j - i : b[n] = <<h, s, i + n>>
    BY PieceFacts
  <1>3. c \in Seq(Bytes) /\ Len(c) = j /\ \A n \in 1 .. j : c[n] = <<h, s, n>>
    BY FirstPiece
  <1> HIDE DEF a, b, c
  <1>4. /\ a \o b \in Seq(Bytes) /\ Len(a \o b) = j
        /\ \A n \in 1 .. j : (a \o b)[n] = IF n <= i THEN a[n] ELSE b[n - i]
    <2>1. /\ a \o b \in Seq(Bytes) /\ Len(a \o b) = Len(a) + Len(b)
          /\ \A n \in 1 .. Len(a) + Len(b) :
               (a \o b)[n] = IF n <= Len(a) THEN a[n] ELSE b[n - Len(a)]
      BY <1>1, <1>2, ConcatProperties
    <2>2. Len(a) + Len(b) = j
      BY <1>1, <1>2
    <2> QED BY <1>1, <2>1, <2>2
  <1>5. ASSUME NEW n \in 1 .. j PROVE (a \o b)[n] = c[n]
    <2>1. CASE n <= i
      <3>1. n \in 1 .. i
        BY <2>1
      <3> QED BY <2>1, <3>1, <1>1, <1>3, <1>4
    <2>2. CASE ~(n <= i)
      <3>1. n - i \in 1 .. j - i /\ i + (n - i) = n
        BY <2>2
      <3> QED BY <2>2, <3>1, <1>2, <1>3, <1>4
    <2> QED BY <2>1, <2>2
  <1>6. a \o b = c
    BY <1>3, <1>4, <1>5, SeqEqual
  <1> QED BY <1>6 DEF a, b, c

\* Numbers k + 1 to k + n, as send passes them on.
Count(k, n) == [i \in 1 .. n |-> k + i]

LEMMA CountFacts ==
  ASSUME NEW k \in Nat, NEW n \in Nat
  PROVE  /\ Count(k, n) \in Seq(Nat) /\ Len(Count(k, n)) = n
         /\ \A i \in 1 .. n : Count(k, n)[i] = k + i
  <1> DEFINE p == [i \in 1 .. n |-> k + i]
  <1>1. \A i \in 1 .. n : k + i \in Nat
    OBVIOUS
  <1>2. p \in Seq(Nat)
    BY <1>1, IsASeq
  <1>3. DOMAIN p = 1 .. n /\ \A i \in 1 .. n : p[i] = k + i
    OBVIOUS
  <1> HIDE DEF p
  <1>4. Len(p) = n
    BY <1>2, <1>3, LenProperties
  <1> QED BY <1>2, <1>3, <1>4 DEF Count, p

LEMMA CountJoin ==
  ASSUME NEW k \in Nat, NEW n \in Nat
  PROVE  Count(0, k) \o Count(k, n) = Count(0, k + n)
  <1> DEFINE a == Count(0, k)
             b == Count(k, n)
             c == Count(0, k + n)
  <1>1. /\ a \in Seq(Nat) /\ Len(a) = k /\ \A i \in 1 .. k : a[i] = 0 + i
        /\ b \in Seq(Nat) /\ Len(b) = n /\ \A i \in 1 .. n : b[i] = k + i
    BY CountFacts
  <1>2. c \in Seq(Nat) /\ Len(c) = k + n /\ \A i \in 1 .. k + n : c[i] = 0 + i
    <2>1. PICK l \in Nat : l = k + n
      OBVIOUS
    <2>2. Count(0, l) \in Seq(Nat) /\ Len(Count(0, l)) = l /\ \A i \in 1 .. l : Count(0, l)[i] = 0 + i
      BY CountFacts
    <2> QED BY <2>1, <2>2
  <1> HIDE DEF a, b, c
  <1>3. /\ a \o b \in Seq(Nat) /\ Len(a \o b) = Len(a) + Len(b)
        /\ \A i \in 1 .. Len(a) + Len(b) :
             (a \o b)[i] = IF i <= Len(a) THEN a[i] ELSE b[i - Len(a)]
    BY <1>1, ConcatProperties
  <1>4. ASSUME NEW i \in 1 .. k + n PROVE (a \o b)[i] = c[i]
    <2>1. CASE i <= k
      BY <2>1, <1>1, <1>2, <1>3
    <2>2. CASE ~(i <= k)
      <3>1. i - k \in 1 .. n /\ k + (i - k) = i /\ 0 + i = i
        BY <2>2
      <3> QED BY <2>2, <3>1, <1>1, <1>2, <1>3
    <2> QED BY <2>1, <2>2
  <1>5. a \o b = c
    BY <1>1, <1>2, <1>3, <1>4, SeqEqual
  <1> QED BY <1>5 DEF a, b, c

-----------------------------------------------------------------------------
(* The invariant.                                                          *)

States  == {"CLOSED", "SYN_SENT", "ESTABLISHED"}
SockRec == [active : BOOLEAN, st : States, dest : Hosts \cup {NoHost}, my_seq : SeqNos,
            my_ack : SeqNos, rx : Seq(Bytes)]

\* g is the beginning of the stream that socket s, connected to h, is to read.
Begins(h, s, g) == Len(g) <= Stream[<<h, s>>] /\ g = Piece(h, s, 0, Len(g))

\* Socket k with index s, of which rd has been read and sn bytes were sent.
Conn(k, s, rd, sn) ==
  /\ k \in SockRec /\ rd \in Seq(Bytes) /\ sn \in Nat /\ sn <= MaxSent[s]
  /\ k.rx = <<>> \/ Len(k.rx) < BufSize
  /\ k.dest = NoHost => k.st = "CLOSED"
  /\ k.st = "SYN_SENT" \/ k.dest = NoHost => rd = <<>> /\ k.rx = <<>> /\ sn = 0
  /\ ~k.active => k.dest = NoHost
  /\ k.dest # NoHost => Begins(k.dest, s, rd \o k.rx)
  /\ k.st = "ESTABLISHED" => /\ k.my_seq = Plus(InitSeq, 1 + sn)
                             /\ k.my_ack = Plus(Isn[<<k.dest, s>>], 1 + Len(rd \o k.rx))

SocksSound ==
  /\ sock \in [Socks -> SockRec] /\ read \in [Socks -> Seq(Bytes)] /\ sent \in [Socks -> Nat]
  /\ \A s \in Socks : Conn(sock[s], s, read[s], sent[s])

\* A frame a host may have sent.
SynAck(m) == \E h \in Hosts, s \in Socks : m = SynAckOf(h, s)
Data(m) ==
  \E h \in Hosts, s \in Socks : \E i, j \in 0 .. Stream[<<h, s>>], f \in BOOLEAN :
    i <= j /\ (f => j = Stream[<<h, s>>]) /\ (i = j => f) /\ m = DataOf(h, s, i, j, f)
Genuine(m) == SynAck(m) \/ Data(m)

CardSound ==
  /\ ring \in [Slots -> Segments \cup {Free}] /\ rdt \in Slots /\ rdh \in Slots
  /\ \A i \in Slots : ring[i] = Free \/ Genuine(ring[i])

\* Data the kernel has sent stands where its sequence number says.
Placed(w, sn) ==
  \E k, n \in Nat : k + n <= sn /\ w.seq = Plus(InitSeq, 1 + k) /\ w.data = Count(k, n)

WireSound ==
  \A w \in wire : w.port \in Socks /\ (w.kind = "data" => Placed(w, sent[w.port]))

HostsSound ==
  /\ rcvd \in [Hosts \X Socks -> Seq(Nat)]
  /\ \A e \in Hosts \X Socks : Len(rcvd[e]) <= sent[e[2]] /\ rcvd[e] = Count(0, Len(rcvd[e]))

CallSound ==
  /\ call \in [op : {"idle", "connect", "recv"}, s : Socks \cup {0}, n : Nat, polling : BOOLEAN]
  /\ call.op # "idle" => call.s \in Socks

IInv == SocksSound /\ CardSound /\ WireSound /\ HostsSound /\ CallSound

-----------------------------------------------------------------------------
(* Frames.                                                                 *)

LEMMA Numbers ==
  ASSUME NEW h \in Hosts, NEW s \in Socks
  PROVE  /\ SeqMod \in Nat /\ InitSeq \in SeqNos /\ Isn[<<h, s>>] \in SeqNos
         /\ Stream[<<h, s>>] \in Nat /\ Stream[<<h, s>>] + 1 < SeqMod
         /\ MaxSent[s] \in Nat /\ MaxSent[s] + 1 < SeqMod
  <1>1. <<h, s>> \in Hosts \X Socks
    OBVIOUS
  <1>2. Stream[<<h, s>>] \in 0 .. SeqMod - 2 /\ Isn[<<h, s>>] \in SeqNos /\ MaxSent[s] \in 0 .. SeqMod - 2
    BY <1>1, NumbersAssumption DEF SeqNos
  <1> QED BY <1>2, NumbersAssumption DEF SeqNos

LEMMA SynAckFacts ==
  ASSUME NEW h \in Hosts, NEW s \in Socks, NEW m, m = SynAckOf(h, s)
  PROVE  /\ m \in Segments /\ m.kind = "synack" /\ m.from = h /\ m.port = s
         /\ m.seq = Isn[<<h, s>>] /\ m.ack = Plus(InitSeq, 1) /\ m.data = <<>> /\ ~m.fin
  <1>1. Isn[<<h, s>>] \in SeqNos /\ Plus(InitSeq, 1) \in SeqNos
    BY Numbers, PlusRange
  <1>2. <<>> \in Seq(Bytes)
    BY EmptySeq
  <1> QED BY <1>1, <1>2 DEF SynAckOf, Segments, SeqNos, Bytes

LEMMA DataFacts ==
  ASSUME NEW h \in Hosts, NEW s \in Socks, NEW i \in 0 .. Stream[<<h, s>>],
         NEW j \in 0 .. Stream[<<h, s>>], NEW f \in BOOLEAN, i <= j,
         NEW m, m = DataOf(h, s, i, j, f)
  PROVE  /\ m \in Segments /\ m.kind = "data" /\ m.from = h /\ m.port = s
         /\ m.seq = Plus(Isn[<<h, s>>], 1 + i) /\ m.data = Piece(h, s, i, j) /\ (m.fin <=> f)
         /\ Len(m.data) = j - i
  <1>1. Stream[<<h, s>>] \in Nat /\ i \in Nat /\ j \in Nat /\ 1 + i \in Nat
    BY Numbers
  <1>2. Isn[<<h, s>>] \in SeqNos /\ Plus(Isn[<<h, s>>], 1 + i) \in SeqNos
    BY <1>1, Numbers, PlusRange
  <1>3. Plus(InitSeq, 1) \in SeqNos
    BY Numbers, PlusRange
  <1>4. Piece(h, s, i, j) \in Seq(Bytes) /\ Len(Piece(h, s, i, j)) = j - i
    BY <1>1, PieceFacts
  <1> QED BY <1>2, <1>3, <1>4 DEF DataOf, Segments, SeqNos, Bytes

LEMMA GenuineFacts ==
  ASSUME NEW m, Genuine(m)
  PROVE  /\ m \in Segments /\ m # Free
         /\ SynAck(m) => m.kind = "synack"
         /\ Data(m) => m.kind = "data"
  <1>1. ASSUME SynAck(m) PROVE m \in Segments /\ m.kind = "synack"
    <2>1. PICK h \in Hosts, s \in Socks : m = SynAckOf(h, s)
      BY <1>1 DEF SynAck
    <2> QED BY ZenonT(60), <2>1, SynAckFacts
  <1>2. ASSUME Data(m) PROVE m \in Segments /\ m.kind = "data"
    <2>1. PICK h \in Hosts, s \in Socks : \E i, j \in 0 .. Stream[<<h, s>>], f \in BOOLEAN :
            i <= j /\ (f => j = Stream[<<h, s>>]) /\ (i = j => f) /\ m = DataOf(h, s, i, j, f)
      BY <1>2 DEF Data
    <2>2. PICK i \in 0 .. Stream[<<h, s>>], j \in 0 .. Stream[<<h, s>>], f \in BOOLEAN :
            i <= j /\ m = DataOf(h, s, i, j, f)
      BY <2>1
    <2> QED BY <2>2, DataFacts
  <1>3. Free.kind = "free"
    BY DEF Free
  <1>4. m \in Segments /\ (m.kind = "synack" \/ m.kind = "data")
    BY <1>1, <1>2 DEF Genuine
  <1>5. m # Free
    BY <1>3, <1>4
  <1> QED BY <1>1, <1>2, <1>4, <1>5

-----------------------------------------------------------------------------
(* What a frame does to the socket it is for.                              *)

\* The payload is taken when it is the next of the stream and fits, and the
\* socket stays sound; a FIN in its place completes the stream.
LEMMA PayloadConn ==
  ASSUME NEW s \in Socks, NEW k, NEW rd, NEW sn, Conn(k, s, rd, sn), k.st = "ESTABLISHED",
         NEW m, Genuine(m), m.from = k.dest, m.port = s
  PROVE  /\ Conn(Payload(k, m), s, rd, sn) /\ Payload(k, m).st = "ESTABLISHED"
         /\ m.fin /\ m.seq = k.my_ack /\ (m.data = <<>> \/ Fits(k, m))
              => Len(rd \o Payload(k, m).rx) = Stream[<<k.dest, s>>]
  <1>1. CASE SynAck(m)
    <2>1. m.data = <<>> /\ ~m.fin
      <3>1. PICK h \in Hosts, t \in Socks : m = SynAckOf(h, t)
        BY <1>1 DEF SynAck
      <3> QED BY <3>1 DEF SynAckOf
    <2>2. Payload(k, m) = k
      BY <2>1 DEF Payload, InOrder
    <2> QED BY <2>1, <2>2
  <1>2. CASE Data(m)
    <2>1. PICK h \in Hosts, t \in Socks : \E i, j \in 0 .. Stream[<<h, t>>], f \in BOOLEAN :
            i <= j /\ (f => j = Stream[<<h, t>>]) /\ (i = j => f) /\ m = DataOf(h, t, i, j, f)
      BY <1>2 DEF Data
    <2>2. PICK i \in 0 .. Stream[<<h, t>>], j \in 0 .. Stream[<<h, t>>], f \in BOOLEAN :
            i <= j /\ (f => j = Stream[<<h, t>>]) /\ (i = j => f) /\ m = DataOf(h, t, i, j, f)
      BY <2>1
    <2>3. /\ m.from = h /\ m.port = t /\ m.seq = Plus(Isn[<<h, t>>], 1 + i)
          /\ m.data = Piece(h, t, i, j) /\ (m.fin <=> f) /\ Len(m.data) = j - i
      <3>1. /\ m.from = h /\ m.port = t /\ m.seq = Plus(Isn[<<h, t>>], 1 + i)
            /\ m.data = Piece(h, t, i, j) /\ (m.fin <=> f)
        BY <2>2 DEF DataOf
      <3>2. i \in Nat /\ j \in Nat
        BY <2>2, Numbers
      <3>3. Len(Piece(h, t, i, j)) = j - i
        BY <2>2, <3>2, PieceFacts
      <3> QED BY <3>1, <3>3
    <2>4. h = k.dest /\ t = s
      BY <2>3
    <2>5. /\ Stream[<<h, s>>] \in Nat /\ Stream[<<h, s>>] + 1 < SeqMod /\ SeqMod \in Nat
          /\ Isn[<<h, s>>] \in SeqNos /\ i \in Nat /\ j \in Nat /\ j <= Stream[<<h, s>>]
      BY <2>4, Numbers
    <2> DEFINE g == rd \o k.rx
    <2>6. /\ k \in SockRec /\ rd \in Seq(Bytes) /\ k.rx \in Seq(Bytes) /\ h # NoHost
          /\ Begins(h, s, g) /\ k.my_ack = Plus(Isn[<<h, s>>], 1 + Len(g))
      BY <2>4, NamesAssumption DEF Conn, SockRec
    <2>7. g \in Seq(Bytes) /\ Len(g) \in Nat /\ Len(g) <= Stream[<<h, s>>] /\ g = Piece(h, s, 0, Len(g))
      BY <2>6, ConcatProperties, LenProperties DEF Begins
    <2> HIDE DEF g
    <2>8. ASSUME m.seq = k.my_ack PROVE i = Len(g)
      <3>1. 1 + i \in SeqNos /\ 1 + Len(g) \in SeqNos
        BY <2>2, <2>5, <2>7 DEF SeqNos
      <3>2. PICK x \in SeqNos, y \in SeqNos, q \in SeqNos : x = 1 + i /\ y = 1 + Len(g) /\ q = Isn[<<h, s>>]
        BY <2>5, <3>1
      <3>3. Plus(q, x) = Plus(q, y)
        BY <2>3, <2>4, <2>6, <2>8, <3>2
      <3>4. x = y
        BY <3>3, PlusSame
      <3> QED BY <2>5, <2>7, <3>2, <3>4
    <2>9. CASE ~(InOrder(k, m) /\ Fits(k, m))
      <3>1. Payload(k, m) = k
        BY <2>9 DEF Payload
      <3>2. ASSUME m.fin, m.seq = k.my_ack, m.data = <<>> \/ Fits(k, m)
            PROVE  Len(g) = Stream[<<h, s>>]
        <4>1. m.data = <<>>
          BY <2>9, <3>2 DEF InOrder
        <4>2. j - i = 0
          BY <2>3, <4>1, EmptySeq
        <4>3. f
          BY <2>3, <3>2
        <4>4. j = Stream[<<h, s>>]
          BY <2>2, <2>4, <4>3
        <4>5. i = Len(g)
          BY <2>8, <3>2
        <4> QED BY <2>5, <4>2, <4>4, <4>5
      <3> QED BY <2>4, <3>1, <3>2 DEF g
    <2>10. CASE InOrder(k, m) /\ Fits(k, m)
      <3>1. i = Len(g)
        BY <2>8, <2>10 DEF InOrder
      <3> DEFINE n == Payload(k, m)
      <3>2. n = [k EXCEPT !.rx = k.rx \o m.data, !.my_ack = Plus(k.my_ack, Len(m.data))]
        BY <2>10 DEF Payload
      <3>3. /\ m.data \in Seq(Bytes) /\ Len(m.data) = j - i /\ j - i \in Nat
        BY <2>2, <2>3, <2>4, <2>5, PieceFacts
      <3>4. k.rx \o m.data \in Seq(Bytes) /\ Len(k.rx \o m.data) = Len(k.rx) + Len(m.data)
        BY <2>6, <3>3, ConcatProperties
      <3>5. Plus(k.my_ack, Len(m.data)) = Plus(Isn[<<h, s>>], 1 + j)
        <4>1. PICK a \in Nat, b \in Nat : a = 1 + i /\ b = j - i /\ a + b = 1 + j /\ a + b < SeqMod
          BY <2>5, <3>3
        <4>2. PICK q \in SeqNos : q = Isn[<<h, s>>]
          BY <2>5
        <4>3. Plus(Plus(q, a), b) = Plus(q, a + b)
          BY <4>1, PlusAdd
        <4> QED BY <2>6, <3>1, <3>3, <4>1, <4>2, <4>3
      <3>6. Plus(Isn[<<h, s>>], 1 + j) \in SeqNos
        BY <2>5, PlusRange
      <3>7. /\ n \in SockRec /\ n.rx = k.rx \o m.data /\ n.my_ack = Plus(Isn[<<h, s>>], 1 + j)
            /\ n.st = "ESTABLISHED" /\ n.dest = h /\ n.active = k.active /\ n.my_seq = k.my_seq
        BY <2>4, <2>6, <3>2, <3>4, <3>5, <3>6 DEF SockRec
      <3> HIDE DEF n
      <3>8. rd \o n.rx = g \o m.data
        <4>1. PICK d \in Seq(Bytes), x \in Seq(Bytes) : d = m.data /\ x = k.rx
          BY <2>6, <3>3
        <4>2. (rd \o x) \o d = rd \o (x \o d)
          BY SMTT(60), <2>6, ConcatAssociative
        <4> QED BY <3>7, <4>1, <4>2 DEF g
      <3>9. g \o m.data = Piece(h, s, 0, j)
        <4>1. PICK l \in Nat : l = Len(g)
          BY <2>7
        <4>2. l <= j
          BY <2>2, <3>1, <4>1
        <4>3. Piece(h, s, 0, l) \o Piece(h, s, l, j) = Piece(h, s, 0, j)
          BY <2>5, <4>2, PieceJoin
        <4> QED BY <2>3, <2>4, <2>7, <3>1, <4>1, <4>3
      <3>10. Len(rd \o n.rx) = j
        BY <2>5, <3>8, <3>9, FirstPiece
      <3>11. Begins(h, s, rd \o n.rx)
        BY <2>5, <3>8, <3>9, <3>10 DEF Begins
      <3>12. Len(n.rx) < BufSize
        BY <2>10, <3>4, <3>7 DEF Fits
      <3>13. Conn(n, s, rd, sn)
        BY <2>4, <2>6, <3>7, <3>10, <3>11, <3>12 DEF Conn
      <3> QED BY <2>2, <2>3, <2>4, <3>7, <3>10, <3>13 DEF n
    <2> QED BY <2>9, <2>10
  <1> QED BY <1>1, <1>2 DEF Genuine

\* A FIN closes the socket and changes nothing that was read.
LEMMA FinishedConn ==
  ASSUME NEW s \in Socks, NEW k, NEW rd, NEW sn, Conn(k, s, rd, sn), k.st = "ESTABLISHED",
         NEW m, Genuine(m)
  PROVE  Conn(Finished(k, m), s, rd, sn) /\ Finished(k, m).rx = k.rx
  <1>1. CASE ~m.fin
    BY <1>1 DEF Finished
  <1>2. CASE m.fin
    <2>1. PICK q \in SeqNos : q = Plus(m.seq, 1)
      <3>1. m.seq \in SeqNos
        BY GenuineFacts DEF Segments, SeqNos
      <3> QED BY <3>1, PlusRange
    <2> DEFINE n == [k EXCEPT !.my_ack = q, !.st = "CLOSED"]
    <2>2. Finished(k, m) = n
      BY <1>2, <2>1 DEF Finished
    <2>3. k \in SockRec
      BY DEF Conn
    <2>4. /\ n \in SockRec /\ n.rx = k.rx /\ n.st = "CLOSED" /\ n.dest = k.dest
          /\ n.active = k.active
      BY <2>3 DEF SockRec, States
    <2> HIDE DEF n
    <2>5. Conn(n, s, rd, sn)
      BY <2>4 DEF Conn
    <2> QED BY <2>2, <2>4, <2>5
  <1> QED BY <1>1, <1>2

-----------------------------------------------------------------------------
(* One socket at a time.                                                   *)

LEMMA OneSocket ==
  ASSUME SocksSound, NEW s \in Socks, NEW n, NEW rd, NEW sn, Conn(n, s, rd, sn),
         sock' = [sock EXCEPT ![s] = n], read' = [read EXCEPT ![s] = rd],
         sent' = [sent EXCEPT ![s] = sn]
  PROVE  SocksSound'
  <1>1. n \in SockRec /\ rd \in Seq(Bytes) /\ sn \in Nat
    BY DEF Conn
  <1>2. sock' \in [Socks -> SockRec] /\ read' \in [Socks -> Seq(Bytes)] /\ sent' \in [Socks -> Nat]
    BY <1>1 DEF SocksSound
  <1>3. ASSUME NEW t \in Socks PROVE Conn(sock'[t], t, read'[t], sent'[t])
    <2>1. CASE t = s
      <3>1. sock'[t] = n /\ read'[t] = rd /\ sent'[t] = sn
        BY <2>1 DEF SocksSound
      <3> QED BY <2>1, <3>1
    <2>2. CASE t # s
      <3>1. sock'[t] = sock[t] /\ read'[t] = read[t] /\ sent'[t] = sent[t]
        BY <2>2 DEF SocksSound
      <3> QED BY <3>1 DEF SocksSound
    <2> QED BY <2>1, <2>2
  <1> QED BY <1>2, <1>3 DEF SocksSound

LEMMA OneSock ==
  ASSUME SocksSound, NEW s \in Socks, NEW n, Conn(n, s, read[s], sent[s]),
         sock' = [sock EXCEPT ![s] = n], read' = read, sent' = sent
  PROVE  SocksSound'
  <1>1. read' = [read EXCEPT ![s] = read[s]] /\ sent' = [sent EXCEPT ![s] = sent[s]]
    BY DEF SocksSound
  <1> QED BY <1>1, OneSocket

LEMMA SameSocks ==
  ASSUME SocksSound, UNCHANGED <<sock, read, sent>>
  PROVE  SocksSound'
  BY DEF SocksSound

LEMMA SameWire ==
  ASSUME WireSound, wire' = wire, sent' = sent
  PROVE  WireSound'
  BY DEF WireSound

LEMMA SameHosts ==
  ASSUME HostsSound, rcvd' = rcvd, sent' = sent
  PROVE  HostsSound'
  BY DEF HostsSound

LEMMA SameCard ==
  ASSUME CardSound, UNCHANGED card
  PROVE  CardSound'
  BY DEF CardSound, card

-----------------------------------------------------------------------------
(* The card and the hosts.                                                 *)

LEMMA SlotsFacts ==
  /\ RingSize \in Nat /\ RingSize >= 2 /\ 0 \in Slots /\ RingSize - 1 \in Slots
  /\ \A i \in Slots : (i + 1) % RingSize \in Slots
  <1>1. RingSize \in Nat /\ RingSize >= 2
    BY NumbersAssumption
  <1>2. PICK R \in Nat : R = RingSize /\ R > 0
    BY <1>1
  <1>3. \A i \in 0 .. R - 1 : (i + 1) % R \in 0 .. R - 1
    BY <1>2
  <1> QED BY <1>1, <1>2, <1>3 DEF Slots

LEMMA StoreCard ==
  ASSUME CardSound, NEW m, Genuine(m), Store(m)
  PROVE  CardSound'
  <1>1. m \in Segments
    BY GenuineFacts
  <1>2. ring' \in [Slots -> Segments \cup {Free}] /\ rdt' \in Slots
    BY <1>1 DEF CardSound, Store
  <1>3. rdh' \in Slots
    BY SlotsFacts DEF CardSound, Store
  <1>4. \A i \in Slots : ring'[i] = IF i = rdh THEN m ELSE ring[i]
    BY DEF CardSound, Store
  <1>5. \A i \in Slots : ring'[i] = Free \/ Genuine(ring'[i])
    BY <1>4 DEF CardSound
  <1> QED BY <1>2, <1>3, <1>5 DEF CardSound

LEMMA FetchCard ==
  ASSUME CardSound, NEW m, Fetch(m)
  PROVE  CardSound' /\ Genuine(m) /\ m = ring[Current] /\ Current \in Slots
  <1>1. Current \in Slots
    BY SlotsFacts DEF CardSound, Current
  <1>2. m = ring[Current] /\ Genuine(m)
    BY <1>1 DEF CardSound, Fetch
  <1>3. /\ ring' \in [Slots -> Segments \cup {Free}] /\ rdt' \in Slots /\ rdh' \in Slots
        /\ \A i \in Slots : ring'[i] = IF i = Current THEN Free ELSE ring[i]
    BY <1>1 DEF CardSound, Fetch
  <1>4. \A i \in Slots : ring'[i] = Free \/ Genuine(ring'[i])
    BY <1>3 DEF CardSound
  <1> QED BY <1>1, <1>2, <1>3, <1>4 DEF CardSound

LEMMA ArriveGenuine ==
  ASSUME NEW h \in Hosts, NEW s \in Socks, Arrive(h, s)
  PROVE  \E m : Genuine(m) /\ Store(m)
  <1>1. CASE Store(SynAckOf(h, s))
    <2>1. Genuine(SynAckOf(h, s))
      BY DEF Genuine, SynAck
    <2> QED BY <1>1, <2>1
  <1>2. ASSUME NEW i \in 0 .. Stream[<<h, s>>], NEW j \in 0 .. Stream[<<h, s>>], NEW f \in BOOLEAN,
               Sendable(h, s, i, j, f), Store(DataOf(h, s, i, j, f))
        PROVE  \E m : Genuine(m) /\ Store(m)
    <2>1. Data(DataOf(h, s, i, j, f))
      BY <1>2 DEF Data, Sendable
    <2> QED BY <1>2, <2>1 DEF Genuine
  <1> QED BY <1>1, <1>2 DEF Arrive

LEMMA ArriveStep ==
  ASSUME IInv, NEW h \in Hosts, NEW s \in Socks, Arrive(h, s)
  PROVE  IInv'
  <1>1. PICK m : Genuine(m) /\ Store(m)
    BY ArriveGenuine
  <1>2. CardSound'
    BY <1>1, StoreCard DEF IInv
  <1>3. UNCHANGED <<sock, call, wire, rcvd, read, sent>>
    BY <1>1 DEF Store, users
  <1>4. SocksSound' /\ WireSound' /\ HostsSound'
    BY <1>3, SameSocks, SameWire, SameHosts DEF IInv
  <1>5. CallSound'
    BY <1>3 DEF IInv, CallSound
  <1> QED BY <1>2, <1>4, <1>5 DEF IInv

\* Data that a host takes in sequence continues what it has.
LEMMA HostStep ==
  ASSUME IInv, NEW h \in Hosts, NEW s \in Socks, HostData(h, s)
  PROVE  IInv'
  <1> DEFINE e == <<h, s>>
  <1>1. e \in Hosts \X Socks /\ e[2] = s
    OBVIOUS
  <1> HIDE DEF e
  <1>2. PICK w \in wire : /\ w.port = s /\ w.kind = "data"
                          /\ w.seq = Plus(InitSeq, 1 + Len(rcvd[e]))
                          /\ rcvd' = [rcvd EXCEPT ![e] = rcvd[e] \o w.data]
    BY DEF HostData, e
  <1>3. PICK k \in Nat, n \in Nat : /\ k + n <= sent[s] /\ w.seq = Plus(InitSeq, 1 + k)
                                    /\ w.data = Count(k, n)
    BY <1>2 DEF IInv, WireSound, Placed
  <1>4. PICK l \in Nat : l = Len(rcvd[e]) /\ l <= sent[s] /\ rcvd[e] = Count(0, l)
    BY <1>1, LenProperties DEF IInv, HostsSound
  <1>5. sent[s] \in Nat /\ sent[s] <= MaxSent[s] /\ MaxSent[s] + 1 < SeqMod /\ SeqMod \in Nat
        /\ MaxSent[s] \in Nat
    BY Numbers DEF IInv, SocksSound, Conn
  <1>6. l = k
    <2>1. InitSeq \in SeqNos /\ 1 + l \in SeqNos /\ 1 + k \in SeqNos
      BY <1>3, <1>4, <1>5, NumbersAssumption DEF SeqNos
    <2>2. Plus(InitSeq, 1 + l) = Plus(InitSeq, 1 + k)
      BY <1>2, <1>3, <1>4
    <2>3. 1 + l = 1 + k
      BY <2>1, <2>2, PlusSame
    <2> QED BY <2>3
  <1>7. PICK z \in Nat : z = k + n /\ z <= sent[s]
    BY <1>3
  <1>8. rcvd[e] \o w.data = Count(0, z)
    BY ZenonT(60), <1>3, <1>4, <1>6, <1>7, CountJoin
  <1>9. Count(0, z) \in Seq(Nat) /\ Len(Count(0, z)) = z
    BY CountFacts
  <1>10. rcvd' = [rcvd EXCEPT ![e] = Count(0, z)]
    BY <1>2, <1>8
  <1>11. UNCHANGED <<sock, call, card, wire, read, sent>>
    BY DEF HostData, users
  <1>12. HostsSound'
    <2>1. rcvd' \in [Hosts \X Socks -> Seq(Nat)]
      BY <1>9, <1>10 DEF IInv, HostsSound
    <2>2. ASSUME NEW d \in Hosts \X Socks
          PROVE  Len(rcvd'[d]) <= sent'[d[2]] /\ rcvd'[d] = Count(0, Len(rcvd'[d]))
      <3>1. CASE d = e
        <4>1. rcvd'[d] = Count(0, z)
          BY <1>1, <1>10, <3>1 DEF IInv, HostsSound
        <4> QED BY <1>1, <1>7, <1>9, <1>11, <3>1, <4>1
      <3>2. CASE d # e
        <4>1. rcvd'[d] = rcvd[d]
          BY <1>10, <3>2 DEF IInv, HostsSound
        <4> QED BY <1>11, <4>1 DEF IInv, HostsSound
      <3> QED BY <3>1, <3>2
    <2> QED BY <2>1, <2>2 DEF HostsSound
  <1>13. SocksSound' /\ WireSound' /\ CardSound'
    BY <1>11, SameSocks, SameWire, SameCard DEF IInv
  <1>14. CallSound'
    BY <1>11 DEF IInv, CallSound
  <1> QED BY <1>12, <1>13, <1>14 DEF IInv

-----------------------------------------------------------------------------
(* Polling.                                                                *)

LEMMA FetchRest ==
  ASSUME IInv, NEW m, Fetch(m)
  PROVE  CardSound' /\ HostsSound' /\ CallSound' /\ read' = read /\ sent' = sent
  <1>1. UNCHANGED <<call, rcvd, read, sent>>
    BY DEF Fetch, users
  <1>2. CardSound'
    BY FetchCard DEF IInv
  <1>3. HostsSound'
    BY <1>1, SameHosts DEF IInv
  <1>4. CallSound'
    BY <1>1 DEF IInv, CallSound
  <1> QED BY <1>1, <1>2, <1>3, <1>4

LEMMA PollOtherStep ==
  ASSUME IInv, NEW m, PollOther(m)
  PROVE  IInv'
  <1>1. Fetch(m) /\ sock' = sock /\ wire' = wire
    BY DEF PollOther
  <1>2. CardSound' /\ HostsSound' /\ CallSound' /\ read' = read /\ sent' = sent
    BY <1>1, FetchRest
  <1>3. SocksSound' /\ WireSound'
    BY <1>1, <1>2, SameSocks, SameWire DEF IInv
  <1> QED BY <1>2, <1>3 DEF IInv

\* The wire with one more segment.
LEMMA WireGrows ==
  ASSUME WireSound, NEW w, w.port \in Socks, w.kind = "data" => Placed(w, sent[w.port]),
         wire' = wire \cup {w}, sent' = sent
  PROVE  WireSound'
  BY DEF WireSound

\* The answer of a host sets both sequence numbers to the start of the streams.
LEMMA PollSynAckStep ==
  ASSUME IInv, NEW s \in Socks, NEW m, PollSynAck(m, s)
  PROVE  IInv'
  <1>1. /\ Fetch(m) /\ sock[s].dest = m.from /\ m.port = s /\ sock[s].st = "SYN_SENT"
        /\ m.kind = "synack"
    BY DEF PollSynAck, IsFor
  <1>2. CardSound' /\ HostsSound' /\ CallSound' /\ read' = read /\ sent' = sent /\ Genuine(m)
    BY <1>1, FetchRest, FetchCard DEF IInv
  <1>3. SynAck(m)
    BY <1>1, <1>2, GenuineFacts DEF Genuine
  <1>4. PICK h \in Hosts, t \in Socks : m = SynAckOf(h, t)
    BY <1>3 DEF SynAck
  <1>5. m.from = h /\ m.port = t /\ m.seq = Isn[<<h, t>>] /\ m.ack = Plus(InitSeq, 1)
    BY <1>4, SynAckFacts
  <1>6. t = s /\ sock[s].dest = h /\ h # NoHost
    BY <1>1, <1>5, NamesAssumption
  <1>7. PICK a \in SeqNos, b \in SeqNos : a = Plus(Isn[<<h, s>>], 1) /\ b = Plus(InitSeq, 1)
    BY Numbers, PlusRange
  <1> DEFINE k == [sock[s] EXCEPT !.my_ack = a, !.my_seq = b, !.st = "ESTABLISHED"]
  <1>8. sock' = [sock EXCEPT ![s] = k] /\ wire' = wire \cup {Segment(k, s, "ack", <<>>)}
    BY <1>5, <1>6, <1>7 DEF PollSynAck
  <1>9. Conn(sock[s], s, read[s], sent[s]) /\ sock[s] \in SockRec
    BY DEF IInv, SocksSound
  <1>10. /\ k \in SockRec /\ k.st = "ESTABLISHED" /\ k.dest = h /\ k.rx = sock[s].rx
         /\ k.active = sock[s].active /\ k.my_ack = a /\ k.my_seq = b
    BY <1>6, <1>9 DEF SockRec, States
  <1> HIDE DEF k
  <1>11. read[s] = <<>> /\ sock[s].rx = <<>> /\ sent[s] = 0
    BY <1>1, <1>9 DEF Conn
  <1>12. Len(read[s] \o k.rx) = 0
    <2>1. <<>> \in Seq(Bytes) /\ Len(<<>>) = 0
      BY EmptySeq
    <2>2. <<>> \o <<>> = <<>>
      BY <2>1, ConcatEmptySeq
    <2> QED BY <1>10, <1>11, <2>1, <2>2
  <1>13. /\ k.my_seq = Plus(InitSeq, 1 + sent[s])
         /\ k.my_ack = Plus(Isn[<<h, s>>], 1 + Len(read[s] \o k.rx))
    <2>1. 1 + 0 = 1
      OBVIOUS
    <2> QED BY <1>7, <1>10, <1>11, <1>12, <2>1
  <1>14. Conn(k, s, read[s], sent[s])
    BY <1>6, <1>9, <1>10, <1>13 DEF Conn
  <1>15. SocksSound'
    BY <1>2, <1>8, <1>14, OneSock DEF IInv
  <1>16. WireSound'
    <2> DEFINE w == Segment(k, s, "ack", <<>>)
    <2>1. w.port = s /\ w.kind = "ack"
      BY DEF Segment
    <2>2. wire' = wire \cup {w}
      BY <1>8
    <2> HIDE DEF w
    <2> QED BY <1>2, <2>1, <2>2, WireGrows DEF IInv
  <1> QED BY <1>2, <1>15, <1>16 DEF IInv

LEMMA PollDataStep ==
  ASSUME IInv, NEW s \in Socks, NEW m, PollData(m, s)
  PROVE  IInv'
  <1>1. /\ Fetch(m) /\ m.from = sock[s].dest /\ m.port = s /\ sock[s].st = "ESTABLISHED"
        /\ sock' = [sock EXCEPT ![s] = Finished(Payload(sock[s], m), m)] /\ wire' = wire
    BY DEF PollData, IsFor
  <1>2. CardSound' /\ HostsSound' /\ CallSound' /\ read' = read /\ sent' = sent /\ Genuine(m)
    BY <1>1, FetchRest, FetchCard DEF IInv
  <1>3. PICK k, rd, sn : k = sock[s] /\ rd = read[s] /\ sn = sent[s] /\ Conn(k, s, rd, sn)
    BY DEF IInv, SocksSound
  <1> DEFINE n == Payload(k, m)
  <1>4. Conn(n, s, rd, sn) /\ n.st = "ESTABLISHED"
    <2>1. k.st = "ESTABLISHED" /\ m.from = k.dest
      BY <1>1, <1>3
    <2> QED BY ZenonT(60), <1>1, <1>2, <1>3, <2>1, PayloadConn
  <1> HIDE DEF n
  <1>5. Conn(Finished(n, m), s, rd, sn)
    BY <1>2, <1>4, FinishedConn
  <1>6. SocksSound'
    <2>1. sock' = [sock EXCEPT ![s] = Finished(n, m)]
      BY <1>1, <1>3 DEF n
    <2> QED BY <1>2, <1>3, <1>5, <2>1, OneSock DEF IInv
  <1>7. WireSound'
    BY <1>1, <1>2, SameWire DEF IInv
  <1> QED BY <1>2, <1>6, <1>7 DEF IInv

-----------------------------------------------------------------------------
(* The system calls.                                                       *)

LEMMA CallStep ==
  ASSUME IInv, UNCHANGED <<sock, card, wire, rcvd, users>>, CallSound'
  PROVE  IInv'
  <1>1. SocksSound' /\ WireSound' /\ HostsSound' /\ CardSound'
    BY SameSocks, SameWire, SameHosts, SameCard DEF IInv, users
  <1> QED BY <1>1 DEF IInv

\* The call in progress goes on polling, or stops.
LEMMA PollingStep ==
  ASSUME IInv, PollEnd \/ PollAgain
  PROVE  IInv'
  <1>1. PICK b \in BOOLEAN : call' = [call EXCEPT !.polling = b]
    BY DEF PollEnd, PollAgain
  <1>2. CallSound'
    BY <1>1 DEF IInv, CallSound
  <1> QED BY <1>2, CallStep DEF PollEnd, PollAgain

LEMMA IdleCall ==
  ASSUME call' = Idle
  PROVE  CallSound'
  BY DEF Idle, CallSound

LEMMA ConnectDoneStep ==
  ASSUME IInv, ConnectDone
  PROVE  IInv'
  BY IdleCall, CallStep DEF ConnectDone

LEMMA RecvStep ==
  ASSUME IInv, NEW s \in Socks, NEW n \in 1 .. MaxRead, Recv(s, n)
  PROVE  IInv'
  <1>1. PICK b \in BOOLEAN : call' = [op |-> "recv", s |-> s, n |-> n, polling |-> b]
    BY DEF Recv
  <1>2. n \in Nat
    BY NumbersAssumption
  <1>3. CallSound'
    BY <1>1, <1>2 DEF CallSound
  <1> QED BY <1>3, CallStep DEF Recv

LEMMA SocketStep ==
  ASSUME IInv, NEW s \in Socks, Socket(s)
  PROVE  IInv'
  <1>1. PICK k : k = sock[s] /\ Conn(k, s, read[s], sent[s]) /\ ~k.active /\ k \in SockRec
    BY DEF Socket, IInv, SocksSound
  <1>2. k.dest = NoHost /\ k.rx = <<>> /\ read[s] = <<>> /\ sent[s] = 0
    BY <1>1 DEF Conn
  <1> DEFINE n == [k EXCEPT !.active = TRUE, !.st = "CLOSED", !.rx = <<>>]
  <1>3. sock' = [sock EXCEPT ![s] = n]
    BY <1>1 DEF Socket, IInv, SocksSound
  <1>4. <<>> \in Seq(Bytes)
    BY EmptySeq
  <1>5. n \in SockRec /\ n.st = "CLOSED" /\ n.dest = NoHost /\ n.rx = <<>>
    BY <1>1, <1>2, <1>4 DEF SockRec, States
  <1> HIDE DEF n
  <1>6. Conn(n, s, read[s], sent[s])
    BY <1>1, <1>2, <1>5 DEF Conn
  <1>7. UNCHANGED <<call, card, wire, rcvd, read, sent>>
    BY DEF Socket, users
  <1>8. SocksSound'
    BY <1>3, <1>6, <1>7, OneSock DEF IInv
  <1>9. WireSound' /\ HostsSound' /\ CardSound'
    BY <1>7, SameWire, SameHosts, SameCard DEF IInv
  <1>10. CallSound'
    BY <1>7 DEF IInv, CallSound
  <1> QED BY <1>8, <1>9, <1>10 DEF IInv

LEMMA ConnectStep ==
  ASSUME IInv, NEW h \in Hosts, NEW s \in Socks, Connect(h, s)
  PROVE  IInv'
  <1>1. PICK k : k = sock[s] /\ Conn(k, s, read[s], sent[s]) /\ k.active /\ k \in SockRec
    BY DEF Connect, IInv, SocksSound
  <1>2. read[s] = <<>> /\ sent[s] = 0 /\ h # NoHost
    BY NamesAssumption DEF Connect
  <1>3. <<>> \in Seq(Bytes) /\ Len(<<>>) = 0 /\ <<>> \o <<>> = <<>>
    BY EmptySeq, ConcatEmptySeq
  <1>4. InitSeq \in SeqNos /\ 0 \in SeqNos
    BY NumbersAssumption DEF SeqNos
  <1> DEFINE n == [k EXCEPT !.dest = h, !.my_seq = InitSeq, !.my_ack = 0, !.st = "SYN_SENT", !.rx = <<>>]
  <1>5. sock' = [sock EXCEPT ![s] = n] /\ wire' = wire \cup {Segment(n, s, "syn", <<>>)}
    BY <1>1 DEF Connect
  <1>6. n \in SockRec /\ n.st = "SYN_SENT" /\ n.dest = h /\ n.rx = <<>> /\ n.active
    BY <1>1, <1>3, <1>4 DEF SockRec, States
  <1> HIDE DEF n
  <1>7. Begins(h, s, read[s] \o n.rx)
    <2>1. PICK z \in Nat : z = 0
      OBVIOUS
    <2>2. Piece(h, s, 0, z) \in Seq(Bytes) /\ Len(Piece(h, s, 0, z)) = z
      BY FirstPiece
    <2>3. Piece(h, s, 0, z) = <<>>
      BY <2>1, <2>2, EmptySeq
    <2>4. Stream[<<h, s>>] \in Nat
      BY Numbers
    <2> QED BY <1>2, <1>3, <1>6, <2>1, <2>3, <2>4 DEF Begins
  <1>8. Conn(n, s, read[s], sent[s])
    BY <1>1, <1>2, <1>6, <1>7 DEF Conn
  <1>9. UNCHANGED <<card, rcvd, read, sent>>
    BY DEF Connect, users
  <1>10. SocksSound'
    BY <1>5, <1>8, <1>9, OneSock DEF IInv
  <1>11. HostsSound' /\ CardSound'
    BY <1>9, SameHosts, SameCard DEF IInv
  <1>12. WireSound'
    <2> DEFINE w == Segment(n, s, "syn", <<>>)
    <2>1. w.port = s /\ w.kind = "syn" /\ wire' = wire \cup {w}
      BY <1>5 DEF Segment
    <2> HIDE DEF w
    <2> QED BY <1>9, <2>1, WireGrows DEF IInv
  <1>13. CallSound'
    <2>1. call' = [op |-> "connect", s |-> s, n |-> 0, polling |-> TRUE]
      BY DEF Connect
    <2> QED BY <2>1 DEF CallSound
  <1> QED BY <1>10, <1>11, <1>12, <1>13 DEF IInv

\* recv moves a prefix of the buffer to the program.
LEMMA RecvDoneStep ==
  ASSUME IInv, RecvDone
  PROVE  IInv'
  <1>1. PICK s \in Socks : s = call.s
    BY DEF IInv, CallSound, RecvDone
  <1>2. PICK k \in SockRec, rd \in Seq(Bytes) :
          k = sock[s] /\ rd = read[s] /\ Conn(k, s, rd, sent[s])
    BY DEF IInv, SocksSound
  <1>3. PICK q \in Seq(Bytes) : q = k.rx
    BY DEF SockRec
  <1>4. PICK c \in 0 .. Len(q) :
          /\ read' = [read EXCEPT ![s] = rd \o SubSeq(q, 1, c)]
          /\ sock' = [sock EXCEPT ![s] = [k EXCEPT !.rx = SubSeq(q, c + 1, Len(q))]]
    <2>1. Len(q) \in Nat /\ call.n \in Nat
      BY LenProperties DEF IInv, CallSound
    <2> DEFINE c == IF Len(q) > call.n THEN call.n ELSE Len(q)
    <2>2. c \in 0 .. Len(q)
      BY <2>1
    <2>3. read' = [read EXCEPT ![s] = rd \o SubSeq(q, 1, c)]
      BY <1>1, <1>2, <1>3 DEF RecvDone
    <2>4. sock' = [sock EXCEPT ![s].rx = SubSeq(q, c + 1, Len(q))]
      BY <1>1, <1>2, <1>3 DEF RecvDone
    <2> HIDE DEF c
    <2>5. sock' = [sock EXCEPT ![s] = [k EXCEPT !.rx = SubSeq(q, c + 1, Len(q))]]
      BY <1>2, <2>4
    <2> QED BY <2>2, <2>3, <2>5
  <1>5. PICK a \in Seq(Bytes), b \in Seq(Bytes) :
          /\ a = SubSeq(q, 1, c) /\ b = SubSeq(q, c + 1, Len(q)) /\ a \o b = q
          /\ (b = <<>> \/ Len(b) <= Len(q)) /\ (q = <<>> => a = <<>> /\ b = <<>>)
    <2>1. Len(q) \in Nat /\ q \in [1 .. Len(q) -> Bytes]
      BY LenProperties
    <2> DEFINE a == SubSeq(q, 1, c)
               b == SubSeq(q, c + 1, Len(q))
    <2>2. a \in Seq(Bytes)
      <3>1. \A i \in 1 .. c : q[i] \in Bytes
        BY <2>1
      <3> QED BY <3>1, SubSeqProperties
    <2>3. b \in Seq(Bytes) /\ Len(b) = IF c + 1 <= Len(q) THEN Len(q) - (c + 1) + 1 ELSE 0
      <3>1. (\A i \in c + 1 .. Len(q) : q[i] \in Bytes) /\ c + 1 \in Int /\ Len(q) \in Int
        BY <2>1
      <3> QED BY <3>1, SubSeqProperties
    <2>4. a \o b = q
      <3>1. SubSeq(q, 1, c) \o SubSeq(q, c + 1, Len(q)) = SubSeq(q, 1, Len(q))
        <4>1. 1 \in 1 .. Len(q) + 1 /\ c \in 1 - 1 .. Len(q) /\ Len(q) \in c .. Len(q)
          BY <2>1
        <4> QED BY <4>1, ConcatAdjacentSubSeq
      <3>2. SubSeq(q, 1, Len(q)) = q
        BY SubSeqFull
      <3> QED BY <3>1, <3>2
    <2>5. Len(b) <= Len(q)
      BY <2>1, <2>3
    <2>6. q = <<>> => a = <<>> /\ b = <<>>
      BY <2>2, <2>3, <2>4, ConcatEqualIffEmpty
    <2> QED BY <2>2, <2>3, <2>4, <2>5, <2>6
  <1> DEFINE n == [k EXCEPT !.rx = b]
             r == rd \o a
  <1>6. sock' = [sock EXCEPT ![s] = n] /\ read' = [read EXCEPT ![s] = r]
    BY <1>4, <1>5
  <1>7. /\ n \in SockRec /\ n.rx = b /\ n.st = k.st /\ n.dest = k.dest /\ n.active = k.active
        /\ n.my_ack = k.my_ack /\ n.my_seq = k.my_seq
    BY <1>2, <1>5 DEF SockRec
  <1>8. rd \in Seq(Bytes) /\ r \in Seq(Bytes)
    BY <1>2, <1>5, ConcatProperties DEF Conn
  <1>9. r \o b = rd \o q
    <2>1. PICK u \in Seq(Bytes) : u = rd
      BY <1>8
    <2>2. (u \o a) \o b = u \o (a \o b)
      BY SMTT(60), ConcatAssociative
    <2> QED BY <1>5, <2>1, <2>2
  <1>10. rd = <<>> /\ q = <<>> => r = <<>> /\ b = <<>>
    <2>1. <<>> \in Seq(Bytes) /\ <<>> \o <<>> = <<>>
      BY EmptySeq, ConcatEmptySeq
    <2> QED BY <1>5, <2>1
  <1>11. b = <<>> \/ Len(b) < BufSize
    <2>1. q = <<>> \/ Len(q) < BufSize
      BY <1>2, <1>3 DEF Conn
    <2>2. Len(b) \in Nat /\ Len(q) \in Nat /\ BufSize \in Nat
      BY LenProperties, NumbersAssumption
    <2> QED BY <1>5, <2>1, <2>2
  <1> HIDE DEF n, r
  <1>12. Conn(n, s, r, sent[s])
    BY <1>2, <1>3, <1>7, <1>8, <1>9, <1>10, <1>11 DEF Conn
  <1>13. UNCHANGED <<card, wire, rcvd, sent>> /\ call' = Idle
    BY DEF RecvDone
  <1>14. sent' = [sent EXCEPT ![s] = sent[s]]
    BY <1>13 DEF IInv, SocksSound
  <1>15. SocksSound'
    BY <1>6, <1>12, <1>14, OneSocket DEF IInv
  <1>16. WireSound' /\ HostsSound' /\ CardSound' /\ CallSound'
    BY <1>13, SameWire, SameHosts, SameCard, IdleCall DEF IInv
  <1> QED BY <1>15, <1>16 DEF IInv

\* send numbers its bytes where the last send stopped, passed on or not.
LEMMA SendStep ==
  ASSUME IInv, NEW s \in Socks, NEW n \in 1 .. MaxSent[s], Send(s, n)
  PROVE  IInv'
  <1>1. PICK k \in SockRec, x \in Nat :
          k = sock[s] /\ x = sent[s] /\ Conn(k, s, read[s], x) /\ k.st = "ESTABLISHED"
    BY DEF IInv, SocksSound, Send
  <1>2. /\ MaxSent[s] \in Nat /\ MaxSent[s] + 1 < SeqMod /\ SeqMod \in Nat /\ InitSeq \in SeqNos
        /\ n \in Nat /\ x + n <= MaxSent[s]
    BY <1>1, Numbers, NumbersAssumption DEF Send, SeqNos
  <1>3. PICK y \in Nat : y = x + n /\ y <= MaxSent[s] /\ 1 + y < SeqMod
    BY <1>2
  <1>4. PICK q \in SeqNos : q = Plus(k.my_seq, n) /\ q = Plus(InitSeq, 1 + y)
    <2>1. PICK a \in Nat : a = 1 + x /\ a + n = 1 + y /\ a + n < SeqMod
      BY <1>2, <1>3
    <2>2. Plus(Plus(InitSeq, a), n) = Plus(InitSeq, a + n)
      BY <1>2, <2>1, PlusAdd
    <2>3. k.my_seq = Plus(InitSeq, a)
      BY <1>1, <2>1 DEF Conn
    <2>4. Plus(InitSeq, a + n) \in SeqNos
      BY <1>2, <2>1, PlusRange
    <2> QED BY <2>1, <2>2, <2>3, <2>4
  <1> DEFINE m == [k EXCEPT !.my_seq = q]
  <1>5. sock' = [sock EXCEPT ![s] = m] /\ sent' = [sent EXCEPT ![s] = y]
    BY <1>1, <1>3, <1>4 DEF Send
  <1>6. /\ m \in SockRec /\ m.rx = k.rx /\ m.st = k.st /\ m.dest = k.dest /\ m.active = k.active
        /\ m.my_ack = k.my_ack /\ m.my_seq = q
    BY <1>1 DEF SockRec
  <1> HIDE DEF m
  <1>7. Conn(m, s, read[s], y)
    BY <1>1, <1>3, <1>4, <1>6 DEF Conn
  <1>8. UNCHANGED <<call, card, rcvd, read>>
    BY DEF Send
  <1>9. read' = [read EXCEPT ![s] = read[s]]
    BY <1>8 DEF IInv, SocksSound
  <1>10. SocksSound'
    BY <1>5, <1>7, <1>9, OneSocket DEF IInv
  <1>11. sent \in [Socks -> Nat] /\ \A t \in Socks : sent'[t] \in Nat /\ sent[t] <= sent'[t]
    <2>1. sent \in [Socks -> Nat] /\ x <= y
      BY <1>3 DEF IInv, SocksSound
    <2> QED BY <1>1, <1>3, <1>5, <2>1
  <1>12. ASSUME NEW w \in wire' PROVE w.port \in Socks /\ (w.kind = "data" => Placed(w, sent'[w.port]))
    <2>1. CASE w \in wire
      <3>1. w.port \in Socks /\ (w.kind = "data" => Placed(w, sent[w.port]))
        BY <2>1 DEF IInv, WireSound
      <3>2. ASSUME w.kind = "data" PROVE Placed(w, sent'[w.port])
        <4>1. PICK a \in Nat, b \in Nat : /\ a + b <= sent[w.port] /\ w.seq = Plus(InitSeq, 1 + a)
                                          /\ w.data = Count(a, b)
          BY <3>1, <3>2 DEF Placed
        <4>2. a + b <= sent'[w.port]
          BY <1>11, <3>1, <4>1
        <4> QED BY <4>1, <4>2 DEF Placed
      <3> QED BY <3>1, <3>2
    <2>2. CASE w \notin wire
      <3>1. w = Segment(k, s, "data", Count(x, n))
        BY <1>1, <2>2 DEF Send, Count
      <3>2. w.port = s /\ w.seq = Plus(InitSeq, 1 + x) /\ w.data = Count(x, n)
        BY <1>1, <3>1 DEF Segment, Conn
      <3>3. sent'[s] = y
        BY <1>5, <1>11
      <3>4. Placed(w, y)
        BY <1>2, <1>3, <3>2 DEF Placed
      <3> QED BY <3>2, <3>3, <3>4
    <2> QED BY <2>1, <2>2
  <1>13. WireSound'
    BY <1>12 DEF WireSound
  <1>14. HostsSound'
    <2>1. ASSUME NEW e \in Hosts \X Socks
          PROVE  Len(rcvd'[e]) <= sent'[e[2]] /\ rcvd'[e] = Count(0, Len(rcvd'[e]))
      <3>1. e[2] \in Socks /\ rcvd'[e] = rcvd[e]
        BY <1>8
      <3>2. Len(rcvd[e]) \in Nat /\ Len(rcvd[e]) <= sent[e[2]] /\ rcvd[e] = Count(0, Len(rcvd[e]))
        BY LenProperties DEF IInv, HostsSound
      <3> QED BY <1>11, <3>1, <3>2
    <2> QED BY <1>8, <2>1 DEF IInv, HostsSound
  <1>15. CardSound' /\ CallSound'
    BY <1>8, SameCard DEF IInv, CallSound
  <1> QED BY <1>10, <1>13, <1>14, <1>15 DEF IInv

-----------------------------------------------------------------------------
(* The invariant holds.                                                    *)

LEMMA InitIInv ==
  ASSUME Init
  PROVE  IInv
  <1>1. <<>> \in Seq(Bytes) /\ <<>> \in Seq(Nat) /\ Len(<<>>) = 0
    BY EmptySeq
  <1>2. 0 \in SeqNos
    BY NumbersAssumption DEF SeqNos
  <1>3. NewSock \in SockRec
    BY <1>1, <1>2 DEF NewSock, SockRec, States
  <1>4. SocksSound
    <2>1. sock \in [Socks -> SockRec] /\ read \in [Socks -> Seq(Bytes)] /\ sent \in [Socks -> Nat]
      BY <1>1, <1>3 DEF Init
    <2>2. ASSUME NEW s \in Socks PROVE Conn(sock[s], s, read[s], sent[s])
      <3>1. PICK k \in SockRec : k = sock[s] /\ k = NewSock /\ read[s] = <<>> /\ sent[s] = 0
        BY <1>3 DEF Init
      <3>2. k.rx = <<>> /\ k.dest = NoHost /\ k.st = "CLOSED"
        BY <3>1 DEF NewSock
      <3>3. 0 <= MaxSent[s]
        BY NumbersAssumption
      <3>4. Conn(k, s, <<>>, 0)
        BY <1>1, <3>2, <3>3 DEF Conn
      <3> QED BY <3>1, <3>4
    <2> QED BY <2>1, <2>2 DEF SocksSound
  <1>5. CardSound
    BY SlotsFacts DEF Init, CardSound
  <1>6. WireSound
    BY DEF Init, WireSound
  <1>7. HostsSound
    <2>1. Count(0, 0) = <<>>
      <3>1. PICK z \in Nat : z = 0
        OBVIOUS
      <3>2. Count(0, z) \in Seq(Nat) /\ Len(Count(0, z)) = z
        BY CountFacts
      <3> QED BY <3>1, <3>2, EmptySeq
    <2>2. rcvd \in [Hosts \X Socks -> Seq(Nat)]
      BY <1>1 DEF Init
    <2>3. ASSUME NEW e \in Hosts \X Socks
          PROVE  Len(rcvd[e]) <= sent[e[2]] /\ rcvd[e] = Count(0, Len(rcvd[e]))
      <3>1. rcvd[e] = <<>> /\ e[2] \in Socks /\ sent[e[2]] = 0
        BY DEF Init
      <3> QED BY <1>1, <2>1, <3>1
    <2> QED BY <2>2, <2>3 DEF HostsSound
  <1>8. CallSound
    BY DEF Init, Idle, CallSound
  <1> QED BY <1>4, <1>5, <1>6, <1>7, <1>8 DEF IInv

LEMMA NextIInv ==
  ASSUME IInv, [Next]_vars
  PROVE  IInv'
  <1>1. CASE UNCHANGED vars
    <2>1. UNCHANGED <<sock, card, wire, rcvd, users, call>>
      BY <1>1 DEF vars, card, users
    <2>2. CallSound'
      BY <2>1 DEF IInv, CallSound
    <2> QED BY <2>1, <2>2, CallStep
  <1>2. ASSUME NEW h \in Hosts, NEW s \in Socks, Arrive(h, s) \/ HostData(h, s)
        PROVE  IInv'
    BY <1>2, ArriveStep, HostStep
  <1>3. ASSUME NEW e \in Targets, Connect(e[1], e[2])
        PROVE  IInv'
    <2>1. e[1] \in Hosts /\ e[2] \in Socks
      BY NamesAssumption
    <2> QED BY <1>3, <2>1, ConnectStep
  <1>4. ASSUME NEW s \in Socks, Socket(s) \/ \E n \in 1 .. MaxSent[s] : Send(s, n)
        PROVE  IInv'
    BY <1>4, SocketStep, SendStep
  <1>5. ASSUME NEW s \in Socks, NEW n \in 1 .. MaxRead, Recv(s, n)
        PROVE  IInv'
    BY <1>5, RecvStep
  <1>6. CASE Poll
    <2>1. PICK m : PollOther(m) \/ \E s \in Socks : PollSynAck(m, s) \/ PollData(m, s)
      BY <1>6 DEF Poll
    <2> QED BY <2>1, PollOtherStep, PollSynAckStep, PollDataStep
  <1>7. CASE PollEnd \/ PollAgain
    BY <1>7, PollingStep
  <1>8. CASE ConnectDone \/ RecvDone
    BY <1>8, ConnectDoneStep, RecvDoneStep
  <1> QED BY <1>1, <1>2, <1>3, <1>4, <1>5, <1>6, <1>7, <1>8 DEF Next

\* The inductive invariant of the two directions of every connection.
THEOREM Invariance == Spec => []IInv
  <1> QED BY InitIInv, NextIInv, PTL DEF Spec

LEMMA TypeFromIInv ==
  ASSUME IInv
  PROVE  TypeOK
  <1>1. ASSUME NEW s \in Socks
        PROVE  /\ sock[s] \in [active : BOOLEAN, st : {"CLOSED", "SYN_SENT", "ESTABLISHED"},
                               dest : Hosts \cup {NoHost}, my_seq : 0 .. SeqMod - 1,
                               my_ack : 0 .. SeqMod - 1, rx : Seq(Hosts \X Socks \X Nat)]
               /\ sock[s].rx = <<>> \/ Len(sock[s].rx) < BufSize
               /\ sent[s] \in 0 .. MaxSent[s]
    <2>1. sock[s] \in SockRec
      BY DEF IInv, SocksSound
    <2>2. sock[s].rx = <<>> \/ Len(sock[s].rx) < BufSize
      BY DEF IInv, SocksSound, Conn
    <2>3. sent[s] \in 0 .. MaxSent[s]
      <3>1. sent[s] \in Nat /\ sent[s] <= MaxSent[s] /\ MaxSent[s] \in 0 .. SeqMod - 2
        BY NumbersAssumption DEF IInv, SocksSound, Conn
      <3> QED BY <3>1, NumbersAssumption
    <2> QED BY <2>1, <2>2, <2>3 DEF SockRec, States, SeqNos, Bytes
  <1>2. call.op # "idle" => call.op \in {"connect", "recv"} /\ call.s \in Socks
    BY DEF IInv, CallSound
  <1> QED BY <1>1, <1>2 DEF TypeOK, IInv, CardSound

\* The variables have their types, and no receive buffer overflows, whatever
\* arrives.
THEOREM TypeCorrect == Spec => []TypeOK
  <1> QED BY Invariance, TypeFromIInv, PTL

LEMMA StreamsFromIInv ==
  ASSUME IInv
  PROVE  StreamsInOrder /\ AcksTaken
  <1>1. ASSUME NEW s \in Socks
        PROVE  IF sock[s].dest = NoHost THEN Got(s) = <<>>
               ELSE /\ Len(Got(s)) <= Stream[<<sock[s].dest, s>>]
                    /\ Got(s) = Piece(sock[s].dest, s, 0, Len(Got(s)))
    <2>1. Conn(sock[s], s, read[s], sent[s])
      BY DEF IInv, SocksSound
    <2>2. CASE sock[s].dest = NoHost
      <3>1. read[s] = <<>> /\ sock[s].rx = <<>>
        BY <2>1, <2>2 DEF Conn
      <3>2. <<>> \in Seq(Bytes) /\ <<>> \o <<>> = <<>>
        BY EmptySeq, ConcatEmptySeq
      <3> QED BY <2>2, <3>1, <3>2 DEF Got
    <2>3. CASE sock[s].dest # NoHost
      BY <2>1, <2>3 DEF Conn, Begins, Got
    <2> QED BY <2>2, <2>3
  <1>2. StreamInOrder
    BY <1>1 DEF StreamInOrder
  <1>3. HostInOrder
    <2>1. ASSUME NEW e \in Hosts \X Socks
          PROVE  Len(rcvd[e]) <= sent[e[2]] /\ rcvd[e] = [i \in 1 .. Len(rcvd[e]) |-> i]
      <3>1. PICK l \in Nat : l = Len(rcvd[e]) /\ rcvd[e] = Count(0, l) /\ l <= sent[e[2]]
        BY LenProperties DEF IInv, HostsSound
      <3>2. Count(0, l) = [i \in 1 .. l |-> i]
        <4>1. \A i \in 1 .. l : 0 + i = i
          OBVIOUS
        <4> QED BY <4>1 DEF Count
      <3> QED BY <3>1, <3>2
    <2> QED BY <2>1 DEF HostInOrder
  <1>4. AcksTaken
    BY DEF IInv, SocksSound, Conn, AcksTaken, Got
  <1> QED BY <1>2, <1>3, <1>4 DEF StreamsInOrder

\* Whatever the network loses, repeats or reorders, a program reads the bytes
\* of the host it is connected to in order from the first one, and the host
\* those of the program.
THEOREM StreamsCorrect == Spec => []StreamsInOrder
  <1> QED BY Invariance, StreamsFromIInv, PTL

\* A byte is acknowledged when it is in the receive buffer, and not before.
THEOREM AcksCorrect == Spec => []AcksTaken
  <1> QED BY Invariance, StreamsFromIInv, PTL

-----------------------------------------------------------------------------
(* The close.                                                              *)

\* Only a segment for a connected socket closes it.
LEMMA OnlyPollCloses ==
  ASSUME IInv, [Next]_vars, NEW s \in Socks, sock[s].st = "ESTABLISHED", sock'[s].st = "CLOSED"
  PROVE  \E m : PollData(m, s)
  <1>0. sock \in [Socks -> SockRec] /\ sock'[s] # sock[s]
    BY DEF IInv, SocksSound
  <1>1. Next
    BY <1>0 DEF vars
  <1>2. ASSUME NEW h \in Hosts, NEW t \in Socks, Arrive(h, t) \/ HostData(h, t)
        PROVE  FALSE
    BY <1>0, <1>2 DEF Arrive, HostData, Store
  <1>3. ASSUME NEW e \in Targets, Connect(e[1], e[2])
        PROVE  FALSE
    <2>1. e[2] \in Socks
      BY NamesAssumption
    <2>2. PICK k : sock' = [sock EXCEPT ![e[2]] = k] /\ k.st = "SYN_SENT"
      <3>1. PICK k \in SockRec : k = sock[e[2]]
        BY <1>0, <2>1
      <3> DEFINE n == [k EXCEPT !.dest = e[1], !.my_seq = InitSeq, !.my_ack = 0,
                               !.st = "SYN_SENT", !.rx = <<>>]
      <3>2. sock' = [sock EXCEPT ![e[2]] = n]
        BY <1>3, <3>1 DEF Connect
      <3>3. n.st = "SYN_SENT"
        BY DEF SockRec
      <3> QED BY <3>2, <3>3
    <2> QED BY <1>0, <2>1, <2>2
  <1>4. ASSUME NEW t \in Socks, Socket(t)
        PROVE  FALSE
    <2>1. Conn(sock[s], s, read[s], sent[s])
      BY DEF IInv, SocksSound
    <2>2. sock[s].active
      BY <2>1 DEF Conn
    <2>3. t # s
      BY <1>4, <2>2 DEF Socket
    <2> QED BY <1>0, <1>4, <2>3 DEF Socket
  <1>5. ASSUME NEW t \in Socks, NEW n \in 1 .. MaxSent[t], Send(t, n)
        PROVE  FALSE
    BY <1>0, <1>5 DEF Send, SockRec
  <1>6. ASSUME NEW t \in Socks, NEW n \in 1 .. MaxRead, Recv(t, n)
        PROVE  FALSE
    BY <1>0, <1>6 DEF Recv
  <1>7. CASE Poll
    <2>1. PICK m : PollOther(m) \/ \E t \in Socks : PollSynAck(m, t) \/ PollData(m, t)
      BY <1>7 DEF Poll
    <2>2. CASE PollOther(m)
      BY <1>0, <2>2 DEF PollOther
    <2>3. ASSUME NEW t \in Socks, PollSynAck(m, t) PROVE FALSE
      <3>1. PICK k \in SockRec : k = sock[t]
        BY <1>0
      <3> DEFINE n == [k EXCEPT !.my_ack = Plus(m.seq, 1), !.my_seq = m.ack, !.st = "ESTABLISHED"]
      <3>2. sock' = [sock EXCEPT ![t] = n]
        BY <2>3, <3>1 DEF PollSynAck
      <3>3. n.st = "ESTABLISHED"
        BY DEF SockRec
      <3> HIDE DEF n
      <3> QED BY <1>0, <3>2, <3>3
    <2>4. ASSUME NEW t \in Socks, PollData(m, t) PROVE \E l : PollData(l, s)
      <3>1. t = s
        BY <1>0, <2>4 DEF PollData
      <3> QED BY <2>4, <3>1
    <2> QED BY <2>1, <2>2, <2>3, <2>4
  <1>8. CASE PollEnd \/ PollAgain \/ ConnectDone
    BY <1>0, <1>8 DEF PollEnd, PollAgain, ConnectDone
  <1>9. CASE RecvDone
    <2>1. PICK t \in Socks : t = call.s
      BY <1>9 DEF IInv, CallSound, RecvDone
    <2>2. PICK q : sock' = [sock EXCEPT ![t].rx = q]
      BY <1>9, <2>1 DEF RecvDone
    <2> QED BY <1>0, <2>1, <2>2 DEF SockRec
  <1> QED BY <1>1, <1>2, <1>3, <1>4, <1>5, <1>6, <1>7, <1>8, <1>9 DEF Next

LEMMA CloseStep ==
  ASSUME IInv, [Next]_vars, NEW s \in Socks, sock[s].st = "ESTABLISHED", sock'[s].st = "CLOSED",
         InPlace(ring[Current], s)
  PROVE  Len(Got(s)') = Stream[<<sock[s].dest, s>>]
  <1>1. PICK m : PollData(m, s)
    BY OnlyPollCloses
  <1>2. /\ Fetch(m) /\ m.from = sock[s].dest /\ m.port = s
        /\ sock' = [sock EXCEPT ![s] = Finished(Payload(sock[s], m), m)]
    BY <1>1 DEF PollData, IsFor
  <1>3. Genuine(m) /\ m = ring[Current] /\ read' = read
    BY <1>2, FetchCard, FetchRest DEF IInv
  <1>4. PICK k, rd, sn : k = sock[s] /\ rd = read[s] /\ sn = sent[s] /\ Conn(k, s, rd, sn)
    BY DEF IInv, SocksSound
  <1>5. /\ Conn(k, s, rd, sn) /\ k.st = "ESTABLISHED" /\ Genuine(m)
        /\ m.from = k.dest /\ m.port = s
    BY <1>2, <1>3, <1>4
  <1> DEFINE n == Payload(k, m)
  <1>6. Conn(n, s, rd, sn) /\ n.st = "ESTABLISHED"
    BY ZenonT(60), <1>5, PayloadConn
  <1>7. sock'[s] = Finished(n, m)
    BY <1>2, <1>4 DEF IInv, SocksSound
  <1>8. m.fin
    BY <1>6, <1>7 DEF Finished
  <1>9. sock'[s].rx = n.rx
    BY <1>3, <1>6, <1>7, FinishedConn
  <1>10. m.seq = k.my_ack /\ (m.data = <<>> \/ Fits(k, m))
    BY <1>3, <1>4 DEF InPlace
  <1>11. Len(rd \o n.rx) = Stream[<<k.dest, s>>]
    BY <1>5, <1>8, <1>10, PayloadConn
  <1>12. Got(s)' = rd \o n.rx
    BY <1>3, <1>4, <1>9 DEF Got
  <1> QED BY <1>4, <1>11, <1>12

\* A FIN that comes in its place ends a stream that was read to its end.
THEOREM CloseCorrect == Spec => CompleteClose
  <1>1. ASSUME IInv, [Next]_vars
        PROVE  [\A s \in Socks :
                  sock[s].st = "ESTABLISHED" /\ sock'[s].st = "CLOSED" /\ InPlace(ring[Current], s)
                    => Len(Got(s)') = Stream[<<sock[s].dest, s>>]]_vars
    BY <1>1, CloseStep
  <1> QED BY <1>1, Invariance, PTL DEF Spec, CompleteClose

-----------------------------------------------------------------------------
(* The receive ring.                                                       *)

\* How far slot i is behind the one the driver looks at next.
Behind(i, t) == (i - t - 1) % RingSize

LEMMA BehindIs ==
  ASSUME NEW i \in Slots, NEW t \in Slots
  PROVE  /\ Behind(i, t) = IF i > t THEN i - t - 1 ELSE i - t - 1 + RingSize
         /\ (t + 1) % RingSize = IF t + 1 = RingSize THEN 0 ELSE t + 1
  <1>1. PICK R \in Nat, x \in Nat, y \in Nat : R = RingSize /\ R >= 2 /\ x = i /\ y = t /\ x < R /\ y < R
    BY SlotsFacts DEF Slots
  <1>2. (x - y - 1) % R = IF x > y THEN x - y - 1 ELSE x - y - 1 + R
    BY <1>1
  <1>3. (y + 1) % R = IF y + 1 = R THEN 0 ELSE y + 1
    BY <1>1
  <1> QED BY <1>1, <1>2, <1>3 DEF Behind

RingInv ==
  /\ rdt \in Slots /\ rdh \in Slots /\ ring \in [Slots -> Segments \cup {Free}]
  /\ \A i \in Slots : ring[i] # Free <=> Behind(i, rdt) < Behind(rdh, rdt)

LEMMA StoreRing ==
  ASSUME RingInv, NEW m, Genuine(m), Store(m)
  PROVE  RingInv'
  <1>1. PICK R \in Nat, h \in Slots, t \in Slots :
          R = RingSize /\ R >= 2 /\ Slots = 0 .. R - 1 /\ h = rdh /\ t = rdt /\ h # t
    BY SlotsFacts DEF RingInv, Store, Slots
  <1>2. PICK g \in Slots : g = rdh' /\ g = IF h + 1 = R THEN 0 ELSE h + 1
    BY <1>1, BehindIs, SlotsFacts DEF Store
  <1>3. rdt' = t /\ m \in Segments /\ m # Free
    BY <1>1, GenuineFacts DEF Store
  <1>4. ring' \in [Slots -> Segments \cup {Free}] /\ \A i \in Slots : ring'[i] = IF i = h THEN m ELSE ring[i]
    BY <1>1, <1>3 DEF RingInv, Store
  <1>5. ASSUME NEW i \in Slots PROVE ring'[i] # Free <=> Behind(i, t) < Behind(g, t)
    <2>1. /\ Behind(i, t) = IF i > t THEN i - t - 1 ELSE i - t - 1 + R
          /\ Behind(h, t) = IF h > t THEN h - t - 1 ELSE h - t - 1 + R
          /\ Behind(g, t) = IF g > t THEN g - t - 1 ELSE g - t - 1 + R
      BY ZenonT(60), <1>1, BehindIs
    <2>2. ring[i] # Free <=> Behind(i, t) < Behind(h, t)
      BY <1>1 DEF RingInv
    <2>3. Behind(g, t) = Behind(h, t) + 1 /\ (Behind(i, t) = Behind(h, t) <=> i = h)
      BY <1>1, <1>2, <2>1
    <2>4. Behind(i, t) \in Int /\ Behind(h, t) \in Int
      BY <1>1, <2>1
    <2>5. Behind(i, t) < Behind(g, t) <=> Behind(i, t) < Behind(h, t) \/ i = h
      BY <2>3, <2>4
    <2> QED BY <1>3, <1>4, <2>2, <2>5
  <1> QED BY <1>1, <1>2, <1>3, <1>4, <1>5 DEF RingInv

LEMMA FetchRing ==
  ASSUME RingInv, NEW m, Fetch(m)
  PROVE  RingInv'
  <1>1. PICK R \in Nat, h \in Slots, t \in Slots :
          R = RingSize /\ R >= 2 /\ Slots = 0 .. R - 1 /\ h = rdh /\ t = rdt
    BY SlotsFacts DEF RingInv, Slots
  <1>2. PICK c \in Slots : c = Current /\ c = IF t + 1 = R THEN 0 ELSE t + 1
    BY <1>1, BehindIs, SlotsFacts DEF Current
  <1>3. rdt' = c /\ rdh' = h /\ ring[c] # Free
    BY <1>1, <1>2 DEF Fetch
  <1>4. ring' \in [Slots -> Segments \cup {Free}] /\ \A i \in Slots : ring'[i] = IF i = c THEN Free ELSE ring[i]
    BY <1>2 DEF RingInv, Fetch
  <1>5. ASSUME NEW i \in Slots PROVE ring'[i] # Free <=> Behind(i, c) < Behind(h, c)
    <2>1. /\ Behind(i, t) = IF i > t THEN i - t - 1 ELSE i - t - 1 + R
          /\ Behind(h, t) = IF h > t THEN h - t - 1 ELSE h - t - 1 + R
          /\ Behind(c, t) = IF c > t THEN c - t - 1 ELSE c - t - 1 + R
          /\ Behind(i, c) = IF i > c THEN i - c - 1 ELSE i - c - 1 + R
          /\ Behind(h, c) = IF h > c THEN h - c - 1 ELSE h - c - 1 + R
      BY <1>1, BehindIs
    <2>2. (ring[i] # Free <=> Behind(i, t) < Behind(h, t)) /\ Behind(c, t) < Behind(h, t)
      BY <1>1, <1>3 DEF RingInv
    <2>3. Behind(h, c) = Behind(h, t) - 1
      BY <1>1, <1>2, <2>1, <2>2
    <2>4. CASE i = c
      <3>1. ~(Behind(i, c) < Behind(h, c))
        BY <1>1, <2>1, <2>4
      <3> QED BY <1>4, <2>4, <3>1
    <2>5. CASE i # c
      <3>1. Behind(i, c) = Behind(i, t) - 1
        BY <1>1, <1>2, <2>1, <2>5
      <3>2. Behind(i, t) \in Int /\ Behind(h, t) \in Int
        BY <1>1, <2>1
      <3>3. Behind(i, c) < Behind(h, c) <=> Behind(i, t) < Behind(h, t)
        BY <2>3, <3>1, <3>2
      <3> QED BY <1>4, <2>2, <2>5, <3>3
    <2> QED BY <2>4, <2>5
  <1> QED BY <1>1, <1>2, <1>3, <1>4, <1>5 DEF RingInv

LEMMA SameRing ==
  ASSUME RingInv, UNCHANGED card
  PROVE  RingInv'
  BY DEF RingInv, card

LEMMA InitRing ==
  ASSUME Init
  PROVE  RingInv
  <1>1. PICK R \in Nat, t \in Slots, h \in Slots :
          R = RingSize /\ R >= 2 /\ Slots = 0 .. R - 1 /\ t = R - 1 /\ h = 0 /\ t = rdt /\ h = rdh
    BY SlotsFacts DEF Init, Slots
  <1>2. ASSUME NEW i \in Slots PROVE ~(Behind(i, t) < Behind(h, t))
    <2>1. /\ Behind(i, t) = IF i > t THEN i - t - 1 ELSE i - t - 1 + R
          /\ Behind(h, t) = IF h > t THEN h - t - 1 ELSE h - t - 1 + R
      BY <1>1, BehindIs
    <2> QED BY <1>1, <2>1
  <1>3. ring \in [Slots -> Segments \cup {Free}] /\ \A i \in Slots : ring[i] = Free
    BY DEF Init
  <1> QED BY <1>1, <1>2, <1>3 DEF RingInv

LEMMA NextRing ==
  ASSUME RingInv, [Next]_vars
  PROVE  RingInv'
  <1>1. CASE UNCHANGED vars
    BY <1>1, SameRing DEF vars, card
  <1>2. ASSUME NEW h \in Hosts, NEW s \in Socks, Arrive(h, s)
        PROVE  RingInv'
    BY <1>2, ArriveGenuine, StoreRing
  <1>3. ASSUME NEW h \in Hosts, NEW s \in Socks, HostData(h, s)
        PROVE  RingInv'
    BY <1>3, SameRing DEF HostData
  <1>4. ASSUME NEW e \in Targets, Connect(e[1], e[2])
        PROVE  RingInv'
    BY <1>4, SameRing DEF Connect
  <1>5. ASSUME NEW s \in Socks, Socket(s) \/ \E n \in 1 .. MaxSent[s] : Send(s, n)
        PROVE  RingInv'
    BY <1>5, SameRing DEF Socket, Send
  <1>6. ASSUME NEW s \in Socks, NEW n \in 1 .. MaxRead, Recv(s, n)
        PROVE  RingInv'
    BY <1>6, SameRing DEF Recv
  <1>7. CASE Poll
    <2>1. PICK m : PollOther(m) \/ \E s \in Socks : PollSynAck(m, s) \/ PollData(m, s)
      BY <1>7 DEF Poll
    <2>2. Fetch(m)
      BY <2>1 DEF PollOther, PollSynAck, PollData
    <2> QED BY <2>2, FetchRing
  <1>8. CASE PollEnd \/ PollAgain \/ ConnectDone \/ RecvDone
    BY <1>8, SameRing DEF PollEnd, PollAgain, ConnectDone, RecvDone
  <1> QED BY <1>1, <1>2, <1>3, <1>4, <1>5, <1>6, <1>7, <1>8 DEF Next

\* The stored frames are those from the tail on up to the head, in a ring of
\* any size.
THEOREM RingCorrect == Spec => []RingExact
  <1>1. RingInv => RingExact
    BY DEF RingInv, RingExact, Behind
  <1> QED BY <1>1, InitRing, NextRing, PTL DEF Spec
=============================================================================
