------------------------------ MODULE Sockets ------------------------------
(***************************************************************************)
(* The socket table (socket.c) as functions on it: what creating, closing, *)
(* polling and connecting a socket do to its slot, and what each kind of   *)
(* incoming packet does to the table.                                      *)
(*                                                                         *)
(* The rings of a socket are sequences, oldest first.  A byte of a TCP     *)
(* stream is <<connection, position>>, so that bytes can be told apart;    *)
(* remote_seq counts from the peer's initial number.  Remote ports and     *)
(* our own sequence numbers are left out: no packet is matched on them.    *)
(***************************************************************************)
EXTENDS Integers, Sequences, FiniteSets

CONSTANTS
  MAX_SOCKETS,
  SOCKET_RX_BUF_SIZE, \* bytes of a stream that may wait
  MAX_DGRAM_QUEUE,    \* datagrams that may wait
  Hosts,              \* hosts that talk to this one
  NoHost              \* the address 0

ASSUME SocketsAssumption ==
  /\ MAX_SOCKETS \in Nat /\ SOCKET_RX_BUF_SIZE \in Nat /\ MAX_DGRAM_QUEUE \in Nat
  /\ NoHost \notin Hosts

Slot == 1 .. MAX_SOCKETS

STREAM == "stream"
DGRAM == "dgram"
RAW == "raw"  \* with protocol ICMP, which is the only one that receives

CLOSED == "closed"
SYN_SENT == "syn_sent"
ESTABLISHED == "established"
FIN_WAIT1 == "fin_wait1"
CLOSE_WAIT == "close_wait"
LISTEN == "listen"

POLLIN == "in"
POLLOUT == "out"

\* History: conn numbers the connect calls, got is what recv has returned, born
\* numbers the sockets in the order of their creation.
Unused ==
  [ref_count |-> 0, type |-> STREAM, local_port |-> 0, remote_ip |-> NoHost,
   tcp_state |-> CLOSED, remote_seq |-> 0, fin_received |-> FALSE,
   rx |-> << >>, dgrams |-> << >>, nonblocking |-> FALSE, error |-> 0,
   conn |-> 0, got |-> << >>, born |-> 0]

Lesser(a, b) == IF a < b THEN a ELSE b

---------------------------------------------------------------------------
(* Calls *)

FreeSlots(ss) == {i \in Slot : ss[i].ref_count = 0}
FirstFree(ss) == CHOOSE i \in FreeSlots(ss) : \A j \in FreeSlots(ss) : i <= j

\* Mutant: a slot keeps the datagrams its last owner did not read.
sock_create_keeps(s, type, port, n) ==
  [Unused EXCEPT !.ref_count = 1, !.type = type, !.local_port = port, !.born = n,
                 !.dgrams = s.dgrams]

\* The socket that is made in slot s.
sock_create(s, type, port, n) ==
  [Unused EXCEPT !.ref_count = 1, !.type = type, !.local_port = port, !.born = n]

\* Mutant: the reference is kept.
sock_close_keeps(s, fin) == [s EXCEPT !.tcp_state = IF fin THEN FIN_WAIT1 ELSE @]

\* What is left to do once the FIN, if one is due, has been sent.
CloseSendsFin(s) == s.type = STREAM /\ s.tcp_state = ESTABLISHED
sock_close(s, fin) ==
  [s EXCEPT !.ref_count = 0, !.tcp_state = IF fin THEN FIN_WAIT1 ELSE @]

sock_destroy(s) == [s EXCEPT !.ref_count = 0, !.tcp_state = CLOSED]

\* A stream begins its handshake; c is the number of the connection.
connecting(s, ip, c) ==
  IF s.type # STREAM THEN [s EXCEPT !.remote_ip = ip]
  ELSE [s EXCEPT !.remote_ip = ip, !.tcp_state = SYN_SENT, !.remote_seq = 0,
                 !.error = 0, !.fin_received = FALSE, !.conn = c, !.got = << >>]

timed_out(s) == [s EXCEPT !.tcp_state = CLOSED, !.error = 110]

sock_poll(s, events) ==
  {e \in events :
     CASE e = POLLIN  -> IF s.type = STREAM
                         THEN s.rx # << >> \/ s.fin_received \/ s.tcp_state = CLOSED
                         ELSE s.dgrams # << >>
       [] e = POLLOUT -> s.type = STREAM => s.tcp_state = ESTABLISHED}

\* recv takes what there is, up to n bytes, or one datagram.
received(s, n) ==
  IF s.type = STREAM
  THEN LET k == Lesser(n, Len(s.rx))
       IN  [s EXCEPT !.rx = SubSeq(@, k + 1, Len(@)), !.got = @ \o SubSeq(s.rx, 1, k)]
  ELSE [s EXCEPT !.dgrams = Tail(@)]

---------------------------------------------------------------------------
(* Incoming packets *)

\* Of the slots that match, the first.
First(S) == CHOOSE i \in S : \A j \in S : i <= j

\* Mutant: the port is not looked at.
tcp_match_host(ss, seg) ==
  {i \in Slot : /\ ss[i].ref_count # 0 /\ ss[i].type = STREAM
                /\ ss[i].remote_ip \in {NoHost, seg.from}}

\* Neither the port it comes from nor its sequence number is looked at; a socket
\* whose remote address is 0 matches any host.
tcp_match(ss, seg) ==
  {i \in Slot : /\ ss[i].ref_count # 0 /\ ss[i].type = STREAM
                /\ ss[i].local_port = seg.port
                /\ ss[i].remote_ip \in {NoHost, seg.from}}

Bytes(seg) == [k \in 1 .. seg.len |-> <<seg.conn, seg.first + k - 1>>]
Room(s) == SOCKET_RX_BUF_SIZE - Len(s.rx)
Streams(s) == s.tcp_state \in {ESTABLISHED, FIN_WAIT1}

\* What the buffers hold that was never put there for this socket.
NoByte == <<0, 0>>
NoOwner == 0

\* Bytes that find no room are dropped, and counted as received.
stored(s, seg) ==
  [s EXCEPT !.rx = @ \o SubSeq(Bytes(seg), 1, Lesser(seg.len, Room(s))),
            !.remote_seq = @ + seg.len]

\* The same from the byte after the n-th on.
stored_from(s, seg, n) ==
  [s EXCEPT !.rx = @ \o SubSeq(Bytes(seg), n + 1, Lesser(seg.len, n + Room(s))),
            !.remote_seq = @ + seg.len]

\* A socket after a segment, up to the first packet that it sends in answer.
tcp_input(s, seg) ==
  CASE seg.flag = "rst" -> [s EXCEPT !.tcp_state = CLOSED, !.error = 104]
    [] seg.flag = "synack" /\ s.tcp_state = SYN_SENT ->
         [s EXCEPT !.tcp_state = ESTABLISHED, !.remote_seq = 0]
    [] seg.flag = "data" /\ seg.len > 0 /\ Streams(s) -> stored(s, seg)
    [] OTHER -> s

Overruns(s, seg) == seg.flag = "data" /\ Streams(s) /\ seg.len > Room(s)

\* Whether the segment is answered with an acknowledgement, and whether its FIN
\* is looked at.
tcp_acks(s, seg) ==
  \/ seg.flag = "synack" /\ s.tcp_state = SYN_SENT
  \/ seg.flag = "data" /\ seg.len > 0 /\ Streams(s)
tcp_fin(s, seg) == seg.flag = "data" /\ seg.fin /\ Streams(s)

fin_input(s) == [s EXCEPT !.fin_received = TRUE, !.remote_seq = @ + 1]
fin_state(s) == [s EXCEPT !.tcp_state = IF @ = ESTABLISHED THEN CLOSE_WAIT ELSE @]

\* Mutant: the queue has no end.
queued_always(s) == [s EXCEPT !.dgrams = Append(@, s.born)]

\* A datagram waits, marked with the socket that took it in; with the queue full
\* it is dropped.
queued(s) ==
  IF Len(s.dgrams) < MAX_DGRAM_QUEUE THEN [s EXCEPT !.dgrams = Append(@, s.born)] ELSE s

udp_match(ss, d) ==
  {i \in Slot : /\ ss[i].ref_count # 0 /\ ss[i].type = DGRAM
                /\ ss[i].local_port \in {0, d.port}}

socket_udp_input(ss, d) ==
  IF udp_match(ss, d) = {} THEN ss
  ELSE [ss EXCEPT ![First(udp_match(ss, d))] = queued(@)]

\* Every raw socket gets a copy, of requests too; here those from slot a to slot b.
socket_icmp_input(ss, a, b) ==
  [i \in Slot |-> IF i \in a .. b /\ ss[i].ref_count # 0 /\ ss[i].type = RAW THEN queued(ss[i]) ELSE ss[i]]
=============================================================================
