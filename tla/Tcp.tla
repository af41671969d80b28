-------------------------------- MODULE Tcp --------------------------------
(***************************************************************************)
(* The TCP client of kernel/syscall.cpp (socket, connect, send, recv and   *)
(* pci_poll_network) over the receive ring of drivers/e1000.cpp, with the  *)
(* network and the hosts beyond it as environment.                         *)
(*                                                                         *)
(* The card is polled, and only inside connect and recv, which hold the    *)
(* CPU with interrupts off: the local variables of the one call there can  *)
(* be are in call. The network loses, repeats, delays and reorders frames, *)
(* so a frame that a host may have sent may arrive at any time; wire holds *)
(* what the kernel has sent. Bytes carry their origin: byte i of a host's  *)
(* stream is <<host, port, i>>, byte i of a program's is i.                *)
(***************************************************************************)
EXTENDS Integers, Sequences

CONSTANTS
  Socks,      \* indices of sockets[], and so of the ports 50000 + index
  Hosts,      \* peers a program can name: address and port
  Targets,    \* the pairs <<host, socket>> that programs connect
  SeqMod,     \* 2^32
  InitSeq,    \* the sequence number of every SYN the kernel sends
  Isn,        \* Isn[<<h, s>>]: the first sequence number of a host
  Stream,     \* Stream[<<h, s>>]: how many bytes a host sends before its FIN
  MaxSegment, \* bound: payload of a frame from a host, in bytes
  MaxFrame,   \* payload e1000_send_packet() accepts; send passes longer ones
  MaxSent,    \* bound: MaxSent[s] bytes are sent on a socket
  MaxRead,    \* bound: the length passed to recv
  BufSize,    \* sizeof(Socket::rx_buffer)
  RingSize    \* receive descriptors

NoHost == "none"
Free   == [kind |-> "free"]
Slots  == 0 .. RingSize - 1

ASSUME NumbersAssumption ==
  /\ SeqMod \in Nat /\ InitSeq \in 0 .. SeqMod - 1
  /\ Isn \in [Hosts \X Socks -> 0 .. SeqMod - 1]
  /\ Stream \in [Hosts \X Socks -> 0 .. SeqMod - 2]
  /\ MaxSegment \in Nat /\ MaxFrame \in Nat /\ MaxSent \in [Socks -> 0 .. SeqMod - 2]
  /\ MaxRead \in Nat /\ BufSize \in Nat /\ RingSize \in Nat /\ RingSize >= 2
ASSUME NamesAssumption ==
  Socks \subseteq Nat /\ Targets \subseteq Hosts \X Socks /\ NoHost \notin Hosts

VARIABLES
  sock,  \* sockets[]
  call,  \* the system call in progress: its kind, socket, length, and whether
         \* it is inside pci_poll_network()
  ring,  \* receive descriptors: the frame of a descriptor with DD set, or Free
  rdt,   \* tail register, written by the driver
  rdh,   \* head register, kept by the card
  wire,  \* the segments the kernel has sent that can change anything at a
         \* host: each SYN, the answer to a SYN-ACK, data
  rcvd,  \* rcvd[<<h, s>>]: what the host at the other end has received
  read,  \* read[s]: what recv has handed over since connect
  sent   \* sent[s]: how many bytes send has accepted since connect

vars  == <<sock, call, ring, rdt, rdh, wire, rcvd, read, sent>>
card  == <<ring, rdt, rdh>>
users == <<read, sent>>

Plus(q, n) == (q + n) % SeqMod

Idle == [op |-> "idle", s |-> 0, n |-> 0, polling |-> FALSE]

NewSock == [active |-> FALSE, st |-> "CLOSED", dest |-> NoHost, my_seq |-> 0,
            my_ack |-> 0, rx |-> <<>>]

Init ==
  /\ sock = [s \in Socks |-> NewSock]
  /\ call = Idle
  /\ ring = [i \in Slots |-> Free] /\ rdt = RingSize - 1 /\ rdh = 0
  /\ wire = {}
  /\ rcvd = [e \in Hosts \X Socks |-> <<>>]
  /\ read = [s \in Socks |-> <<>>] /\ sent = [s \in Socks |-> 0]

-----------------------------------------------------------------------------
(* The card and the network.                                               *)

\* Bytes i + 1 to j of a host's stream.
Piece(h, s, i, j) == [n \in 1 .. j - i |-> <<h, s, i + n>>]

\* Segments that may be on their way from a host: its SYN-ACK once a SYN has
\* gone out to it, any piece of its stream once the SYN-ACK has been answered.
\* The last piece may carry the FIN.
SynAckOf(h, s) == [kind |-> "synack", from |-> h, port |-> s, seq |-> Isn[<<h, s>>],
                   ack |-> Plus(InitSeq, 1), data |-> <<>>, fin |-> FALSE]
DataOf(h, s, i, j, f) == [kind |-> "data", from |-> h, port |-> s, seq |-> Plus(Isn[<<h, s>>], 1 + i),
                          ack |-> Plus(InitSeq, 1), data |-> Piece(h, s, i, j), fin |-> f]

Has(h, s, kinds) == \E w \in wire : w.to = h /\ w.port = s /\ w.kind \in kinds
Sendable(h, s, i, j, f) ==
  /\ Has(h, s, {"ack", "data"})
  /\ i <= j /\ j <= i + MaxSegment /\ (f => j = Stream[<<h, s>>]) /\ (i = j => f)

\* The card stores a frame in the descriptor at its head; without one it drops
\* the frame.
Store(m) ==
  /\ rdh # rdt
  /\ ring' = [ring EXCEPT ![rdh] = m]
  /\ rdh' = (rdh + 1) % RingSize
  /\ UNCHANGED <<sock, call, rdt, wire, rcvd, users>>

Arrive(h, s) ==
  \/ Has(h, s, {"syn"}) /\ Store(SynAckOf(h, s))
  \/ \E i, j \in 0 .. Stream[<<h, s>>], f \in BOOLEAN :
       Sendable(h, s, i, j, f) /\ Store(DataOf(h, s, i, j, f))

\* A host takes data in sequence.
HostData(h, s) ==
  /\ \E w \in wire :
       /\ w.to = h /\ w.port = s /\ w.kind = "data"
       /\ w.seq = Plus(InitSeq, 1 + Len(rcvd[<<h, s>>]))
       /\ rcvd' = [rcvd EXCEPT ![<<h, s>>] = @ \o w.data]
  /\ UNCHANGED <<sock, call, card, wire, users>>

-----------------------------------------------------------------------------
(* pci_poll_network(), one frame at a time.                                *)

\* A segment of socket k; it acknowledges k.my_ack, see AcksTaken.
Segment(k, s, kind, data) ==
  [to |-> k.dest, port |-> s, kind |-> kind, seq |-> k.my_seq, data |-> data]

\* The descriptor the driver looks at next.
Current == (rdt + 1) % RingSize

\* Seeded fault: the descriptor keeps its status.
FetchKeep(m) ==
  /\ call.polling
  /\ ring[Current] = m /\ m # Free
  /\ rdt' = Current
  /\ UNCHANGED <<ring, rdh, call, rcvd, users>>

\* e1000_recv_packet() returns frame m.
Fetch(m) ==
  /\ call.polling
  /\ ring[Current] = m /\ m # Free
  /\ ring' = [ring EXCEPT ![Current] = Free]
  /\ rdt' = Current
  /\ UNCHANGED <<rdh, call, rcvd, users>>

\* The socket a frame is for: addresses and ports match.
IsFor(m, s) == sock[s].active /\ sock[s].dest = m.from /\ m.port = s

PollSynAck(m, s) ==
  /\ Fetch(m)
  /\ IsFor(m, s) /\ sock[s].st = "SYN_SENT" /\ m.kind = "synack"
  /\ LET k == [sock[s] EXCEPT !.my_ack = Plus(m.seq, 1), !.my_seq = m.ack, !.st = "ESTABLISHED"]
     IN  sock' = [sock EXCEPT ![s] = k] /\ wire' = wire \cup {Segment(k, s, "ack", <<>>)}

InOrder(k, m) == m.data # <<>> /\ m.seq = k.my_ack
Fits(k, m)    == Len(k.rx) + Len(m.data) < BufSize

\* Seeded faults: any segment is taken; what does not fit is acknowledged;
\* the check of the buffer forgets the payload; a FIN hides its payload.
PayloadAny(k, m) ==
  IF m.data # <<>> /\ Fits(k, m)
    THEN [k EXCEPT !.rx = @ \o m.data, !.my_ack = Plus(@, Len(m.data))] ELSE k
PayloadLost(k, m) ==
  IF InOrder(k, m)
    THEN [k EXCEPT !.rx = IF Fits(k, m) THEN @ \o m.data ELSE @, !.my_ack = Plus(@, Len(m.data))]
    ELSE k
PayloadOver(k, m) ==
  IF InOrder(k, m) /\ Len(k.rx) < BufSize
    THEN [k EXCEPT !.rx = @ \o m.data, !.my_ack = Plus(@, Len(m.data))] ELSE k
PayloadFin(k, m) ==
  IF InOrder(k, m) /\ Fits(k, m) /\ ~m.fin
    THEN [k EXCEPT !.rx = @ \o m.data, !.my_ack = Plus(@, Len(m.data))] ELSE k

\* The socket after the payload of segment m, and after its FIN, whose place in
\* the stream nobody checks.
Payload(k, m) ==
  IF InOrder(k, m) /\ Fits(k, m)
    THEN [k EXCEPT !.rx = @ \o m.data, !.my_ack = Plus(@, Len(m.data))] ELSE k
Finished(k, m) ==
  IF m.fin THEN [k EXCEPT !.my_ack = Plus(m.seq, 1), !.st = "CLOSED"] ELSE k

\* Its bare ACK and FIN-ACK are not kept in wire.
PollData(m, s) ==
  /\ Fetch(m)
  /\ IsFor(m, s) /\ sock[s].st = "ESTABLISHED"
  /\ sock' = [sock EXCEPT ![s] = Finished(Payload(sock[s], m), m)]
  /\ UNCHANGED wire

\* No socket, or one in no state to take it.
PollOther(m) ==
  /\ Fetch(m)
  /\ \A s \in Socks :
       IsFor(m, s) => \/ sock[s].st = "CLOSED"
                      \/ sock[s].st = "SYN_SENT" /\ m.kind # "synack"
  /\ UNCHANGED <<sock, wire>>

Poll ==
  LET m == ring[Current]
  IN  PollOther(m) \/ \E s \in Socks : PollSynAck(m, s) \/ PollData(m, s)

\* The card has no more frames.
PollEnd ==
  /\ call.polling
  /\ ring[Current] = Free
  /\ call' = [call EXCEPT !.polling = FALSE]
  /\ UNCHANGED <<sock, card, wire, rcvd, users>>

-----------------------------------------------------------------------------
(* The system calls.                                                       *)

\* The lowest unused entry of sockets[]. No call makes one unused again.
Socket(s) ==
  /\ call.op = "idle"
  /\ ~sock[s].active /\ \A r \in Socks : r < s => sock[r].active
  /\ sock' = [sock EXCEPT ![s].active = TRUE, ![s].st = "CLOSED", ![s].rx = <<>>]
  /\ UNCHANGED <<call, card, wire, rcvd, users>>

\* The waiting loops of connect and recv go round once more, or give up.
Waiting == IF call.op = "connect" THEN sock[call.s].st = "SYN_SENT"
           ELSE sock[call.s].rx = <<>> /\ sock[call.s].st = "ESTABLISHED"

PollAgain ==
  /\ call.op # "idle" /\ ~call.polling
  /\ Waiting
  /\ call' = [call EXCEPT !.polling = TRUE]
  /\ UNCHANGED <<sock, card, wire, rcvd, users>>

\* The kernel lets a program connect a socket at any time. Programs connect one
\* again when connect timed out, not once they have used it.
Connect(h, s) ==
  /\ call.op = "idle"
  /\ sock[s].active /\ read[s] = <<>> /\ sent[s] = 0
  /\ LET k == [sock[s] EXCEPT !.dest = h, !.my_seq = InitSeq, !.my_ack = 0,
                              !.st = "SYN_SENT", !.rx = <<>>]
     IN  sock' = [sock EXCEPT ![s] = k] /\ wire' = wire \cup {Segment(k, s, "syn", <<>>)}
  /\ call' = [op |-> "connect", s |-> s, n |-> 0, polling |-> TRUE]
  /\ UNCHANGED <<card, rcvd, users>>

\* It returns 0, or ETIMEDOUT with the socket still in SYN_SENT.
ConnectDone ==
  /\ call.op = "connect" /\ ~call.polling
  /\ call' = Idle
  /\ UNCHANGED <<sock, card, wire, rcvd, users>>

Recv(s, n) ==
  /\ call.op = "idle"
  /\ sock[s].active
  /\ call' = [op |-> "recv", s |-> s, n |-> n,
              polling |-> sock[s].rx = <<>> /\ sock[s].st = "ESTABLISHED"]
  /\ UNCHANGED <<sock, card, wire, rcvd, users>>

\* What there is, at most n bytes; 0 also when the loop gives up.
RecvDone ==
  /\ call.op = "recv" /\ ~call.polling
  /\ LET s == call.s
         c == IF Len(sock[s].rx) > call.n THEN call.n ELSE Len(sock[s].rx)
     IN  /\ read' = [read EXCEPT ![s] = @ \o SubSeq(sock[s].rx, 1, c)]
         /\ sock' = [sock EXCEPT ![s].rx = SubSeq(@, c + 1, Len(@))]
  /\ call' = Idle
  /\ UNCHANGED <<card, wire, rcvd, sent>>

\* Seeded fault: the next segment starts where this one did.
SendStill(s, n) ==
  /\ call.op = "idle"
  /\ sock[s].active /\ sock[s].st = "ESTABLISHED"
  /\ sent[s] + n <= MaxSent[s]
  /\ wire' = wire \cup {Segment(sock[s], s, "data", [i \in 1 .. n |-> sent[s] + i])}
  /\ sent' = [sent EXCEPT ![s] = @ + n]
  /\ UNCHANGED <<sock, call, card, rcvd, read>>

\* e1000_send_packet() refuses a frame that is too long, and send does not ask.
Send(s, n) ==
  /\ call.op = "idle"
  /\ sock[s].active /\ sock[s].st = "ESTABLISHED"
  /\ sent[s] + n <= MaxSent[s]
  /\ wire' = IF n <= MaxFrame
               THEN wire \cup {Segment(sock[s], s, "data", [i \in 1 .. n |-> sent[s] + i])}
               ELSE wire
  /\ sock' = [sock EXCEPT ![s].my_seq = Plus(@, n)]
  /\ sent' = [sent EXCEPT ![s] = @ + n]
  /\ UNCHANGED <<call, card, rcvd, read>>

-----------------------------------------------------------------------------

Next ==
  \/ \E h \in Hosts, s \in Socks :
       \/ Arrive(h, s)
       \/ HostData(h, s)
  \/ \E e \in Targets : Connect(e[1], e[2])
  \/ \E s \in Socks : Socket(s) \/ \E n \in 1 .. MaxSent[s] : Send(s, n)
  \/ \E s \in Socks, n \in 1 .. MaxRead : Recv(s, n)
  \/ Poll \/ PollEnd \/ PollAgain
  \/ ConnectDone \/ RecvDone

Spec == Init /\ [][Next]_vars

-----------------------------------------------------------------------------
(* Properties.                                                             *)

Segments == [kind : {"synack", "data"}, from : Hosts, port : Socks, seq : 0 .. SeqMod - 1,
             ack : 0 .. SeqMod - 1, data : Seq(Hosts \X Socks \X Nat), fin : BOOLEAN]

\* The variables have their types; the receive buffer never overflows.
TypeOK ==
  /\ \A s \in Socks :
       /\ sock[s] \in [active : BOOLEAN, st : {"CLOSED", "SYN_SENT", "ESTABLISHED"},
                       dest : Hosts \cup {NoHost}, my_seq : 0 .. SeqMod - 1,
                       my_ack : 0 .. SeqMod - 1, rx : Seq(Hosts \X Socks \X Nat)]
       /\ sock[s].rx = <<>> \/ Len(sock[s].rx) < BufSize
  /\ call.op # "idle" => call.op \in {"connect", "recv"} /\ call.s \in Socks
  /\ ring \in [Slots -> Segments \cup {Free}] /\ rdt \in Slots /\ rdh \in Slots
  /\ \A s \in Socks : sent[s] \in 0 .. MaxSent[s]

Got(s) == read[s] \o sock[s].rx

\* Whatever the network loses, repeats or reorders, however hosts cut their
\* streams and connects are retried: a program reads the bytes of the host it
\* is connected to, on this socket, in order, from the first one.
StreamInOrder ==
  \A s \in Socks :
    IF sock[s].dest = NoHost THEN Got(s) = <<>>
    ELSE /\ Len(Got(s)) <= Stream[<<sock[s].dest, s>>]
         /\ Got(s) = Piece(sock[s].dest, s, 0, Len(Got(s)))

\* A host receives what the program has sent, in order, from the first byte.
HostInOrder ==
  \A e \in Hosts \X Socks :
    Len(rcvd[e]) <= sent[e[2]] /\ rcvd[e] = [i \in 1 .. Len(rcvd[e]) |-> i]

\* Both directions of every connection are in order.
StreamsInOrder == StreamInOrder /\ HostInOrder

\* The kernel acknowledges a byte when it is in the buffer, and no other: what
\* it refuses for want of room the host still has.
AcksTaken ==
  \A s \in Socks : sock[s].st = "ESTABLISHED" =>
    sock[s].my_ack = Plus(Isn[<<sock[s].dest, s>>], 1 + Len(Got(s)))

\* The frames the card has stored and the driver has not read are those from
\* the tail on up to the head, without a gap and none of them twice.
RingExact ==
  \A i \in Slots :
    ring[i] # Free <=> (i - rdt - 1) % RingSize < (rdh - rdt - 1) % RingSize

\* Segment m is the next one, and there is room for it.
InPlace(m, s) == m.seq = sock[s].my_ack /\ (m.data = <<>> \/ Fits(sock[s], m))

\* A FIN that comes in its place, with a payload there is room for, closes a
\* socket whose stream is complete.
CompleteClose ==
  [][\A s \in Socks :
       sock[s].st = "ESTABLISHED" /\ sock'[s].st = "CLOSED" /\ InPlace(ring[Current], s)
         => Len(Got(s)') = Stream[<<sock[s].dest, s>>]]_vars
=============================================================================
