-------------------------------- MODULE Net --------------------------------
(***************************************************************************)
(* The network as the kernel runs it: socket calls (syscall.c, socket.c),  *)
(* address resolution and packet dispatch (netstack.c), the receive ring   *)
(* of the e1000 (drivers/e1000.c), and the card and the hosts behind it.   *)
(*                                                                         *)
(* There is one thread, but it calls itself: a packet that is received may *)
(* be answered, an answer may need an address, and waiting for the address *)
(* receives packets.  stack holds the calls that are under way, innermost  *)
(* first; what happens between two of them is one step.  Interrupts are    *)
(* off in a call, except in sys_poll once it has waited: there the one of  *)
(* the card may divide a step, and what is left of it goes on afterwards.  *)
(*                                                                         *)
(* Hosts answer whatever was sent to them, at any time, again or never,    *)
(* and send the bytes of a stream in order and once.  MAC addresses,       *)
(* headers, checksums and the transmit ring are left out.                  *)
(***************************************************************************)
EXTENDS Sockets, SequencesExt

CONSTANTS
  MAX_FDS,        \* file descriptors a program has for sockets
  FirstPort, LastPort,  \* 49152 and 65000 in the code
  BindPorts, Counts, Chunks, \* arguments of bind, recv and sendto
  Programs,       \* sets of types: the sockets that a program uses
  Neighbours,     \* hosts on the link, which send ARP packets
  NextHop,        \* for each address, the neighbour it is reached through
  ARP_TABLE_SIZE,
  NUM_RX_DESC,
  CONNECT_POLLS,  \* 4000 rounds in the code, with a second SYN half way
  WAIT_POLLS,     \* 5000 and 3000
  POLL_ROUNDS,    \* the timeouts of poll, in timer interrupts
  ARP_RETRIES,    \* 200
  MaxDepth,       \* packets that may be handled inside one another
  MaxSockets, MaxConns, MaxFrames, MaxBytes \* bounds: sockets made, connects,
                                            \* packets to us, bytes of a stream

ASSUME NetAssumption ==
  /\ MAX_FDS \in Nat /\ MaxConns \in Nat /\ MaxBytes \in Nat
  /\ FirstPort \in Nat /\ LastPort \in Nat /\ FirstPort <= LastPort
  /\ BindPorts \subseteq Nat /\ Counts \subseteq Nat /\ Chunks \subseteq Nat
  /\ CONNECT_POLLS \in Nat /\ WAIT_POLLS \in Nat /\ ARP_RETRIES \in Nat /\ POLL_ROUNDS \subseteq Int
  /\ NextHop \in [Hosts \cup {NoHost} -> Neighbours]
  /\ ARP_TABLE_SIZE \in Nat \ {0} /\ NUM_RX_DESC \in Nat \ {0, 1}
  /\ NoHost \notin Neighbours
  /\ Programs \subseteq SUBSET {STREAM, DGRAM, RAW}

VARIABLES
  sockets, fds, s_ephemeral_port,
  arp_table,           \* addresses, in the order they came
  descs, s_rx_cur,     \* the packet in each descriptor that is done, and where the driver is
  bufs,                \* the packet that was last put into each buffer
  rdh, rdt, icr,       \* registers of the card
  stack,
  syns,      \* the connections that were asked for, which hosts may answer
  flow,      \* for each connection, what the host has sent
  frames,    \* how many packets the hosts have sent
  types,     \* the types of socket that the program uses
  made,      \* how many sockets were made
  conns,     \* how many connections were asked for
  ports,     \* history: ports that sockets have had
  reused,    \* history: a port was given twice, or connected twice
  reentered, \* history: a round of the driver was handled, or interrupted, inside a round
  torn,      \* history: an interrupt divided a change of a queue or of the ARP table
  overrun,   \* history: bytes found no room in a socket
  shut       \* history: shutdown was called

cardVars == <<descs, bufs, s_rx_cur, rdh, rdt, icr>>
hostVars == <<syns, flow, frames>>
userVars == <<types, fds, s_ephemeral_port, made, conns, ports, reused, shut>>
vars == <<sockets, arp_table, cardVars, stack, hostVars, userVars, reentered, torn, overrun>>

Desc == 0 .. NUM_RX_DESC - 1
NoFrame == [kind |-> "none"]

---------------------------------------------------------------------------
(* The stack *)

Top == Head(stack)
At(where) == stack # << >> /\ Top.at = where
Return == stack' = Tail(stack)
Become(f) == stack' = <<f>> \o Tail(stack)
Call(fs, f) == stack' = fs \o <<f>> \o Tail(stack)  \* f goes on after the calls fs

Poll == [at |-> "poll"]
Send(ip) == [at |-> "send", ip |-> ip, syn |-> << >>]
SendSyn(s) == [at |-> "send", ip |-> s.remote_ip, syn |-> <<s.local_port, s.remote_ip, s.conn>>]

InUser == stack = << >>
\* In the interrupt handler interrupts are off again.
Interruptible ==
  \/ InUser
  \/ /\ stack # << >> /\ Last(stack).at \in {"poll_look", "poll_wait"}
     /\ Last(stack).sti /\ \A i \in DOMAIN stack : stack[i].at # "irq"

\* A step of a call that sets sockets' and stack' only.
SocketStep == UNCHANGED <<arp_table, cardVars, hostVars, userVars, reentered, torn, overrun>>

---------------------------------------------------------------------------
(* Sending, and address resolution *)

Cached(h) == h \in ToSet(arp_table)

arp_add_entry(h) ==
  IF Cached(h) \/ Len(arp_table) = ARP_TABLE_SIZE THEN arp_table ELSE Append(arp_table, h)

\* Of what is sent only a SYN matters later on.
Transmit(syn) == syns' = syns \cup ({syn} \ {<< >>})

\* The packet goes out if its next hop is known; otherwise the address is asked
\* for.
SendPacket ==
  /\ At("send")
  /\ IF Cached(NextHop[Top.ip]) THEN Transmit(Top.syn) /\ Return
     ELSE /\ Become([at |-> "resolve", ip |-> Top.ip, syn |-> Top.syn, retry |-> ARP_RETRIES])
          /\ UNCHANGED syns
  /\ UNCHANGED <<sockets, arp_table, cardVars, flow, frames, userVars, reentered, torn, overrun>>

\* arp_resolve polls the card for the answer.  A sendto ends when its packet
\* cannot be sent; the other senders do not look.
Resolve ==
  /\ At("resolve")
  /\ \/ /\ Cached(NextHop[Top.ip])
        /\ Transmit(Top.syn) /\ Return
     \/ /\ ~Cached(NextHop[Top.ip]) /\ Top.retry > 0
        /\ Call(<<Poll>>, [Top EXCEPT !.retry = @ - 1])
        /\ UNCHANGED syns
     \/ /\ ~Cached(NextHop[Top.ip]) /\ Top.retry = 0
        /\ stack' = SubSeq(stack, IF Len(stack) > 1 /\ stack[2].at = "sendto" THEN 3 ELSE 2, Len(stack))
        /\ UNCHANGED syns
  /\ UNCHANGED <<sockets, arp_table, cardVars, flow, frames, userVars, reentered, torn, overrun>>

---------------------------------------------------------------------------
(* Receiving *)

Matches(f) == f.kind = "tcp" /\ tcp_match(sockets, f) # {}
Target(f) == First(tcp_match(sockets, f))

\* What a packet does to the sockets at once, and the calls it leads to: an
\* acknowledgement or an echo, and what the code does after sending it.
rx_sockets(f) ==
  CASE f.kind = "udp" -> socket_udp_input(sockets, f)
    [] Matches(f)     -> [sockets EXCEPT ![Target(f)] = tcp_input(@, f)]
    [] OTHER          -> sockets

\* An ARP packet is noted; the answer to a request has its address already.
rx_arp(f) == IF f.kind = "arp" THEN arp_add_entry(f.from) ELSE arp_table

tcp_calls(i, s, f) ==
  (IF tcp_acks(s, f) THEN <<Send(s.remote_ip)>> ELSE << >>)
  \o (IF tcp_fin(s, f) THEN <<[at |-> "fin", slot |-> i]>> ELSE << >>)

rx_calls(f) ==
  CASE f.kind = "icmp" -> (IF f.echo THEN <<Send(f.from)>> ELSE << >>) \o <<[at |-> "icmp", from |-> 1]>>
    [] Matches(f) -> tcp_calls(Target(f), sockets[Target(f)], f)
    [] OTHER -> << >>

Handling == {i \in DOMAIN stack : stack[i].at = "polled"}

\* One round of e1000_poll_rx, up to netdev_rx_packet.
PollRx ==
  LET f == descs[s_rx_cur]
  IN  /\ At("poll") /\ Cardinality(Handling) < MaxDepth
      /\ IF f = NoFrame THEN Return /\ UNCHANGED <<sockets, arp_table, reentered, overrun>>
         ELSE /\ Call(rx_calls(f), [at |-> "polled", cur |-> s_rx_cur])
              /\ sockets' = rx_sockets(f)
              /\ arp_table' = rx_arp(f)
              /\ reentered' = (reentered \/ Handling # {})
              /\ overrun' = (overrun \/ (Matches(f) /\ Overruns(sockets[Target(f)], f)))
      /\ UNCHANGED <<cardVars, hostVars, userVars, torn>>

\* Mutant: one descriptor too many is given to the card.
new_tail_next(cur) == (cur + 1) % NUM_RX_DESC

new_tail(cur) == cur

\* The rest of the round, once the packet has been dealt with.
PolledRx ==
  /\ At("polled")
  /\ descs' = [descs EXCEPT ![Top.cur] = NoFrame]
  /\ s_rx_cur' = (Top.cur + 1) % NUM_RX_DESC
  /\ rdt' = new_tail(Top.cur)
  /\ Become(Poll)
  /\ UNCHANGED <<sockets, arp_table, bufs, rdh, icr, hostVars, userVars, reentered, torn, overrun>>

\* The kernel stack is full, and nothing is said of what follows.
StackFull == At("poll") /\ Cardinality(Handling) >= MaxDepth /\ UNCHANGED vars

IcmpInput ==
  /\ At("icmp")
  /\ sockets' = socket_icmp_input(sockets, Top.from, MAX_SOCKETS)
  /\ Return
  /\ SocketStep

\* FIN is noted before it is acknowledged, the state changed after it.
FinInput ==
  /\ At("fin")
  /\ sockets' = [sockets EXCEPT ![Top.slot] = fin_input(@)]
  /\ Call(<<Send(sockets[Top.slot].remote_ip)>>, [at |-> "fin_sent", slot |-> Top.slot])
  /\ SocketStep

FinSent ==
  /\ At("fin_sent")
  /\ sockets' = [sockets EXCEPT ![Top.slot] = fin_state(@)]
  /\ Return
  /\ SocketStep

Irq ==
  /\ Interruptible /\ icr
  /\ icr' = FALSE
  /\ stack' = <<Poll, [at |-> "irq"]>> \o stack
  /\ UNCHANGED <<sockets, arp_table, descs, bufs, s_rx_cur, rdh, rdt, hostVars, userVars, reentered, torn, overrun>>

IrqReturn == At("irq") /\ Return /\ UNCHANGED sockets /\ SocketStep

---------------------------------------------------------------------------
(* Interrupts inside a round.  An interrupt may come between any two          *)
(* instructions of a round of sys_poll.  A round without one is PollRx and     *)
(* PolledRx.  A round with one goes on, when the interrupt is over, with what  *)
(* it had read before: that is in a call "..._cut".  Of a value that a build   *)
(* may keep in a register or read again, both are possible.                    *)
(*                                                                             *)
(* Only cuts whose outcome differs in what is claimed of it are actions.  Once *)
(* a round was divided (reentered) nothing is said of the order of bytes, of   *)
(* remote_seq and of overrun, so there is no cut between two bytes, or between *)
(* two assignments of socket_tcp_input, apart from the ones below; and of a    *)
(* queue or ring past its limit only its length counts.                        *)

Divisible == Interruptible /\ icr

\* The descriptors that the round may be about to handle.
Chosen ==
  {d \in {s_rx_cur} \cup (IF At("rx_cut") THEN {Top.cur} ELSE {}) :
     /\ Cardinality(Handling) < MaxDepth
     /\ \/ At("poll") /\ descs[d] # NoFrame
        \/ At("rx_cut") /\ (Top.tested \/ descs[d] # NoFrame)}

\* The interrupt comes, and leaves the calls fs of the one that it divides.
Divide(fs) ==
  /\ Divisible
  /\ icr' = FALSE
  /\ stack' = <<Poll, [at |-> "irq"]>> \o fs \o Tail(stack)
  /\ reentered' = TRUE
  /\ UNCHANGED <<bufs, rdh, hostVars, userVars, overrun>>

SameRing == UNCHANGED <<descs, s_rx_cur, rdt>>

\* Between the reading of s_rx_cur, the test of the descriptor and the reading of its
\* length and buffer.  The driver goes on with the descriptor that it tested, or
\* with the one where s_rx_cur is now, whatever that one still holds.
DividesRound ==
  /\ At("poll")
  /\ \E tested \in BOOLEAN :
       /\ tested => Chosen # {}
       /\ Divide(<<[at |-> "rx_cut", cur |-> s_rx_cur, tested |-> tested]>>)
  /\ SameRing /\ UNCHANGED <<sockets, arp_table, torn>>

RoundResumes ==
  /\ At("rx_cut")
  /\ \/ /\ ~Top.tested /\ \E d \in {Top.cur, s_rx_cur} : descs[d] = NoFrame
        /\ Return
        /\ UNCHANGED <<sockets, arp_table, overrun>>
     \/ \E d \in Chosen :
          /\ Call(rx_calls(bufs[d]), [at |-> "polled", cur |-> d])
          /\ sockets' = rx_sockets(bufs[d])
          /\ arp_table' = rx_arp(bufs[d])
          /\ UNCHANGED overrun
  /\ UNCHANGED <<cardVars, hostVars, userVars, reentered, torn>>

\* Between the test of dgram_count and its increment.  The slot, the tail and the
\* count are the ones of before or the ones the interrupt left, and where the tail
\* passes a slot that nobody wrote, the datagram is what an earlier owner left.
queue_cut(i) == [at |-> "queue_cut", slot |-> i, was |-> sockets[i].dgrams]

DividesQueue ==
  /\ \E d \in Chosen :
       LET S == IF bufs[d].kind = "udp" THEN udp_match(sockets, bufs[d]) ELSE {}
       IN  /\ S # {} /\ Len(sockets[First(S)].dgrams) < MAX_DGRAM_QUEUE
           /\ Divide(<<queue_cut(First(S)), [at |-> "polled", cur |-> d]>>)
  /\ torn' = TRUE
  /\ SameRing /\ UNCHANGED <<sockets, arp_table>>

DividesIcmp ==
  /\ At("icmp")
  /\ \E i \in Top.from .. MAX_SOCKETS :
       /\ sockets[i].ref_count # 0 /\ sockets[i].type = RAW
       /\ Len(sockets[i].dgrams) < MAX_DGRAM_QUEUE
       /\ sockets' = socket_icmp_input(sockets, Top.from, i - 1)
       /\ Divide(<<queue_cut(i), [at |-> "icmp", from |-> i + 1]>>)
  /\ torn' = TRUE
  /\ SameRing /\ UNCHANGED arp_table

QueueResumes ==
  LET s == sockets[Top.slot]
  IN  /\ At("queue_cut")
      /\ \E q \in {Top.was, s.dgrams}, d \in {s.born, NoOwner} :
           /\ d = NoOwner => s.dgrams # Top.was
           /\ sockets' = [sockets EXCEPT ![Top.slot].dgrams = Append(q, d)]
      /\ Return
      /\ SocketStep

\* Between the test of tcp_state and what follows from it.
DividesTcp ==
  /\ \E d \in Chosen :
       LET f == bufs[d]
       IN  /\ Matches(f)
           /\ Divide(<<[at |-> "tcp_cut", slot |-> Target(f), seg |-> f, state |-> sockets[Target(f)].tcp_state],
                       [at |-> "polled", cur |-> d]>>)
  /\ SameRing /\ UNCHANGED <<sockets, arp_table, torn>>

TcpResumes ==
  LET s == sockets[Top.slot]
      tested == [s EXCEPT !.tcp_state = Top.state]
      t == tcp_input(tested, Top.seg)
  IN  /\ At("tcp_cut")
      /\ sockets' = [sockets EXCEPT ![Top.slot] =
                       [t EXCEPT !.tcp_state = IF @ = Top.state THEN s.tcp_state ELSE @]]
      /\ stack' = tcp_calls(Top.slot, tested, Top.seg) \o Tail(stack)
      /\ SocketStep

\* Between the test of rx_count for byte n + 1 of a segment and its increment.
DividesBytes ==
  /\ \E d \in Chosen :
       LET f == bufs[d]
           i == Target(f)
       IN  /\ Matches(f) /\ f.flag = "data" /\ Streams(sockets[i])
           /\ \E n \in 0 .. f.len - 1 :
                /\ n < Room(sockets[i])
                /\ sockets' = [sockets EXCEPT ![i].rx = @ \o SubSeq(Bytes(f), 1, n)]
                /\ Divide(<<[at |-> "bytes_cut", slot |-> i, seg |-> f, n |-> n, was |-> sockets'[i].rx],
                            [at |-> "polled", cur |-> d]>>)
  /\ torn' = TRUE
  /\ SameRing /\ UNCHANGED arp_table

BytesResume ==
  LET s == sockets[Top.slot]
      b == Bytes(Top.seg)
  IN  /\ At("bytes_cut")
      /\ \E q \in {Top.was, s.rx}, x \in {b[Top.n + 1], NoByte} :
           /\ x = NoByte => s.rx # Top.was
           /\ sockets' = [sockets EXCEPT ![Top.slot] =
                stored_from([@ EXCEPT !.rx = Append(q, x)], Top.seg, Top.n + 1)]
      /\ stack' = <<Send(s.remote_ip)>>
                  \o (IF Top.seg.fin THEN <<[at |-> "fin", slot |-> Top.slot]>> ELSE << >>) \o Tail(stack)
      /\ SocketStep

\* Between the search of the table, which found entry idx free, and the writing of it.
DividesArp ==
  /\ \E d \in Chosen :
       LET f == bufs[d]
       IN  /\ f.kind = "arp" /\ ~Cached(f.from) /\ Len(arp_table) < ARP_TABLE_SIZE
           /\ Divide(<<[at |-> "arp_cut", from |-> f.from, idx |-> Len(arp_table) + 1],
                       [at |-> "polled", cur |-> d]>>)
  /\ torn' = TRUE
  /\ SameRing /\ UNCHANGED <<sockets, arp_table>>

ArpResumes ==
  /\ At("arp_cut")
  /\ arp_table' = IF Top.idx > Len(arp_table) THEN Append(arp_table, Top.from)
                  ELSE [arp_table EXCEPT ![Top.idx] = Top.from]
  /\ Return
  /\ UNCHANGED <<sockets, cardVars, hostVars, userVars, reentered, torn, overrun>>

\* Between the test for ESTABLISHED and the assignment of CLOSE_WAIT.
DividesFin ==
  /\ At("fin_sent") /\ sockets[Top.slot].tcp_state = ESTABLISHED
  /\ Divide(<<[at |-> "fin_cut", slot |-> Top.slot]>>)
  /\ SameRing /\ UNCHANGED <<sockets, arp_table, torn>>

FinResumes ==
  /\ At("fin_cut")
  /\ sockets' = [sockets EXCEPT ![Top.slot].tcp_state = CLOSE_WAIT]
  /\ Return
  /\ SocketStep

\* Between the clearing of the descriptor's status, the moving of s_rx_cur and the
\* writing of the card's tail, of which a build may do the last two in either order.
DividesPolled ==
  /\ At("polled")
  /\ \E moved, told \in BOOLEAN :
       /\ ~(moved /\ told)
       /\ Divide(<<[at |-> "polled_cut", cur |-> Top.cur, moved |-> moved, told |-> told]>>)
       /\ s_rx_cur' = IF moved THEN (Top.cur + 1) % NUM_RX_DESC ELSE s_rx_cur
       /\ rdt' = IF told THEN new_tail(Top.cur) ELSE rdt
  /\ descs' = [descs EXCEPT ![Top.cur] = NoFrame]
  /\ UNCHANGED <<sockets, arp_table, torn>>

PolledResumes ==
  LET next == (Top.cur + 1) % NUM_RX_DESC
  IN  /\ At("polled_cut")
      /\ s_rx_cur' = IF Top.moved THEN s_rx_cur ELSE next
      /\ rdt' = IF Top.told THEN rdt ELSE new_tail(Top.cur)
      /\ Become([at |-> "rx_cut", cur |-> next, tested |-> FALSE])
      /\ UNCHANGED <<sockets, arp_table, descs, bufs, rdh, icr, hostVars, userVars, reentered, torn, overrun>>

---------------------------------------------------------------------------
(* Calls that make, name and end sockets *)

Sock(fd) == sockets[fds[fd]]
Has(fd) == InUser /\ fds[fd] # 0
FreeFds == {fd \in 1 .. MAX_FDS : fds[fd] = 0}

NextPort(p) == IF p + 1 > LastPort THEN FirstPort ELSE p + 1

\* With no free fd the socket is destroyed again.
Socket(type) ==
  LET i == FirstFree(sockets)
      new == sock_create(sockets[i], type, s_ephemeral_port, made + 1)
  IN  /\ InUser /\ FreeSlots(sockets) # {} /\ made < MaxSockets
      /\ IF FreeFds = {} THEN sockets' = [sockets EXCEPT ![i] = sock_destroy(new)] /\ UNCHANGED fds
         ELSE /\ sockets' = [sockets EXCEPT ![i] = new]
              /\ fds' = [fds EXCEPT ![First(FreeFds)] = i]
      /\ s_ephemeral_port' = NextPort(s_ephemeral_port)
      /\ made' = made + 1
      /\ ports' = ports \cup {s_ephemeral_port}
      /\ reused' = (reused \/ s_ephemeral_port \in ports)
      /\ UNCHANGED <<arp_table, cardVars, stack, hostVars, types, conns, shut, reentered, torn, overrun>>

Bind(fd, port) ==
  /\ Has(fd)
  /\ sockets' = [sockets EXCEPT ![fds[fd]].local_port = port]
  /\ ports' = ports \cup {port}
  /\ reused' = (reused \/ port \in ports \ {Sock(fd).local_port})
  /\ UNCHANGED <<arp_table, cardVars, stack, hostVars, types, fds, s_ephemeral_port, made, conns, shut,
                 reentered, torn, overrun>>

\* listen, FIONBIO, and SO_ERROR, which clears what it reports.
Option(fd) ==
  /\ Has(fd)
  /\ \/ Sock(fd).type = STREAM /\ sockets' = [sockets EXCEPT ![fds[fd]].tcp_state = LISTEN]
     \/ \E nb \in BOOLEAN : sockets' = [sockets EXCEPT ![fds[fd]].nonblocking = nb]
     \/ sockets' = [sockets EXCEPT ![fds[fd]].error = 0]
  /\ UNCHANGED stack
  /\ SocketStep

\* close and shutdown.  Both give up the slot; shutdown leaves the fd.
Close(fd, shutdown) ==
  LET fin == CloseSendsFin(Sock(fd))
  IN  /\ Has(fd)
      /\ stack' = (IF fin THEN <<Send(Sock(fd).remote_ip)>> ELSE << >>)
                  \o <<[at |-> "close", slot |-> fds[fd], fin |-> fin]>>
      /\ fds' = IF shutdown THEN fds ELSE [fds EXCEPT ![fd] = 0]
      /\ shut' = (shut \/ shutdown)
      /\ UNCHANGED <<sockets, arp_table, cardVars, hostVars, types, s_ephemeral_port, made, conns, ports,
                     reused, reentered, torn, overrun>>

Closed ==
  /\ At("close")
  /\ sockets' = [sockets EXCEPT ![Top.slot] = sock_close(@, Top.fin)]
  /\ Return
  /\ SocketStep

---------------------------------------------------------------------------
(* Calls that wait *)

\* A datagram socket only notes the address.
Connect(fd, ip) ==
  LET s == connecting(Sock(fd), ip, conns + 1)
      stream == s.type = STREAM
  IN  /\ Has(fd) /\ (stream => conns < MaxConns)
      /\ sockets' = [sockets EXCEPT ![fds[fd]] = s]
      /\ stack' = IF stream
                  THEN <<SendSyn(s), [at |-> "connect", slot |-> fds[fd], timeout |-> CONNECT_POLLS]>>
                  ELSE << >>
      /\ conns' = conns + (IF stream THEN 1 ELSE 0)
      /\ reused' = (reused \/ Sock(fd).conn # 0)
      /\ UNCHANGED <<arp_table, cardVars, hostVars, types, fds, s_ephemeral_port, made, ports, shut,
                     reentered, torn, overrun>>

\* The head of the loop, and what follows netdev_poll_all in it.
ConnectWaits ==
  LET s == sockets[Top.slot]
  IN  /\ At("connect")
      /\ IF s.tcp_state # ESTABLISHED /\ Top.timeout > 0
         THEN Call(<<Poll>>, [Top EXCEPT !.at = "connect_look"]) /\ UNCHANGED sockets
         ELSE /\ sockets' = IF s.tcp_state = ESTABLISHED THEN sockets
                            ELSE [sockets EXCEPT ![Top.slot] = timed_out(@)]
              /\ Return
      /\ SocketStep

ConnectLooks ==
  LET s == sockets[Top.slot]
      again == [Top EXCEPT !.at = "connect", !.timeout = @ - 1]
  IN  /\ At("connect_look")
      /\ IF s.tcp_state = ESTABLISHED \/ s.error # 0 THEN Return
         ELSE IF Top.timeout = CONNECT_POLLS \div 2 /\ s.tcp_state = SYN_SENT
         THEN Call(<<SendSyn(s)>>, again) ELSE Become(again)
      /\ UNCHANGED sockets
      /\ SocketStep

\* accept: no code ever puts a connection into the queue.
Accept(fd) ==
  /\ Has(fd) /\ Sock(fd).tcp_state = LISTEN
  /\ stack' = <<[at |-> "accept", slot |-> fds[fd], timeout |-> WAIT_POLLS]>>
  /\ UNCHANGED sockets
  /\ SocketStep

AcceptWaits ==
  /\ \/ /\ At("accept")
        /\ IF Top.timeout > 0 THEN Call(<<Poll>>, [Top EXCEPT !.at = "accept_look"]) ELSE Return
     \/ /\ At("accept_look")
        /\ IF sockets[Top.slot].nonblocking THEN Return
           ELSE Become([Top EXCEPT !.at = "accept", !.timeout = @ - 1])
  /\ UNCHANGED sockets
  /\ SocketStep

\* sendto and write.  A stream goes out in packets, and its state is looked at
\* only before the first.
Sendto(fd, ip, n) ==
  LET s == Sock(fd)
      to == IF s.type = STREAM \/ ip = NoHost THEN s.remote_ip ELSE ip
  IN  /\ Has(fd)
      /\ s.type = STREAM => s.tcp_state = ESTABLISHED
      /\ stack' = <<[at |-> "sendto", ip |-> to, left |-> IF s.type = STREAM THEN n ELSE 1]>>
      /\ UNCHANGED sockets
      /\ SocketStep

SendtoChunk ==
  /\ At("sendto")
  /\ IF Top.left = 0 THEN Return ELSE Call(<<Send(Top.ip)>>, [Top EXCEPT !.left = @ - 1])
  /\ UNCHANGED sockets
  /\ SocketStep

Empty(s) == IF s.type = STREAM THEN s.rx = << >> ELSE s.dgrams = << >>

\* recvfrom.  read never comes here: is_console_fd takes a socket for the console.
Recv(fd, n) ==
  /\ Has(fd)
  /\ stack' = <<[at |-> "recv", slot |-> fds[fd], n |-> n, timeout |-> WAIT_POLLS]>>
  /\ UNCHANGED sockets
  /\ SocketStep

RecvWaits ==
  LET s == sockets[Top.slot]
  IN  /\ At("recv")
      /\ \/ /\ ~Empty(s)
            /\ sockets' = [sockets EXCEPT ![Top.slot] = received(@, Top.n)]
            /\ Return
         \/ /\ Empty(s)
            /\ IF Top.timeout > 0 THEN Call(<<Poll>>, [Top EXCEPT !.at = "recv_look"]) ELSE Return
            /\ UNCHANGED sockets
      /\ SocketStep

RecvLooks ==
  LET s == sockets[Top.slot]
      eof == s.type = STREAM /\ (s.fin_received \/ s.tcp_state = CLOSED)
  IN  /\ At("recv_look")
      /\ IF Empty(s) /\ (eof \/ s.nonblocking) THEN Return
         ELSE Become([Top EXCEPT !.at = "recv", !.timeout = IF Empty(s) THEN @ - 1 ELSE @])
      /\ UNCHANGED sockets
      /\ SocketStep

\* poll for input, with a timeout of so many rounds; sti; hlt after each.
SysPoll(fd, rounds) ==
  /\ Has(fd)
  /\ stack' = <<[at |-> "poll_look", slot |-> fds[fd], timeout |-> rounds, sti |-> FALSE]>>
  /\ UNCHANGED sockets
  /\ SocketStep

SysPollWaits ==
  /\ \/ /\ At("poll_look")
        /\ IF sock_poll(sockets[Top.slot], {POLLIN}) # {} \/ Top.timeout = 0 THEN Return
           ELSE Call(<<Poll>>, [Top EXCEPT !.at = "poll_wait"])
     \/ /\ At("poll_wait")
        /\ IF Top.timeout = 1 THEN Return
           ELSE Become([Top EXCEPT !.at = "poll_look", !.timeout = @ - 1, !.sti = TRUE])
  /\ UNCHANGED sockets
  /\ SocketStep

---------------------------------------------------------------------------
(* The card and the hosts *)

\* A packet is sent by its host when it reaches the ring; with the ring full it
\* waits.  Packets come at any time, and are noticed by a poll or an interrupt only:
\* one that comes earlier could as well have come then.
Arrive(f) ==
  /\ frames < MaxFrames /\ rdh # rdt
  /\ At("poll") \/ Interruptible
  /\ descs' = [descs EXCEPT ![rdh] = f]
  /\ bufs' = [bufs EXCEPT ![rdh] = f]
  /\ rdh' = (rdh + 1) % NUM_RX_DESC
  /\ icr' = TRUE
  /\ frames' = frames + 1
  /\ UNCHANGED <<sockets, arp_table, s_rx_cur, rdt, stack, syns, userVars, reentered, torn, overrun>>

Segment(syn, flag) ==
  [kind |-> "tcp", port |-> syn[1], from |-> syn[2], conn |-> syn[3], flag |-> flag,
   first |-> 1, len |-> 0, fin |-> FALSE]

\* A SYN is answered, late, again or never.
Answer(syn) ==
  \/ /\ flow' = [flow EXCEPT ![syn[3]].open = TRUE]
     /\ Arrive(Segment(syn, "synack"))
  \/ /\ flow' = [flow EXCEPT ![syn[3]].open = FALSE]
     /\ Arrive(Segment(syn, "rst"))

Data(syn, n, fin) ==
  LET c == flow[syn[3]]
  IN  /\ c.open /\ n <= MaxBytes - c.sent /\ (n > 0 \/ fin)
      /\ flow' = [flow EXCEPT ![syn[3]].sent = @ + n, ![syn[3]].fin = fin, ![syn[3]].open = ~fin]
      /\ Arrive([Segment(syn, "data") EXCEPT !.first = c.sent + 1, !.len = n, !.fin = fin])

\* Left out are packets that cannot change anything: ARP from a neighbour that is in the
\* table, and what no socket of the program takes.
Packet ==
  /\ \/ \E h \in Neighbours : ~Cached(h) /\ Arrive([kind |-> "arp", from |-> h])
     \/ DGRAM \in types /\ \E p \in ports : Arrive([kind |-> "udp", port |-> p])
     \/ \E h \in Hosts, echo \in BOOLEAN :
          (echo \/ RAW \in types) /\ Arrive([kind |-> "icmp", from |-> h, echo |-> echo])
  /\ UNCHANGED flow

---------------------------------------------------------------------------

Init ==
  /\ sockets = [i \in Slot |-> Unused]
  /\ fds = [fd \in 1 .. MAX_FDS |-> 0]
  /\ s_ephemeral_port = FirstPort
  /\ arp_table = << >>
  /\ descs = [d \in Desc |-> NoFrame] /\ bufs = descs /\ s_rx_cur = 0
  /\ rdh = 0 /\ rdt = NUM_RX_DESC - 1 /\ icr = FALSE
  /\ stack = << >>
  /\ syns = {} /\ flow = [c \in 1 .. MaxConns |-> [open |-> FALSE, sent |-> 0, fin |-> FALSE]]
  /\ types \in Programs
  /\ frames = 0 /\ made = 0 /\ conns = 0
  /\ ports = {} /\ reused = FALSE /\ reentered = FALSE /\ torn = FALSE /\ overrun = FALSE /\ shut = FALSE

Program ==
  \/ \E type \in types : Socket(type)
  \/ \E fd \in 1 .. MAX_FDS :
       \/ \E port \in BindPorts : Bind(fd, port)
       \/ Option(fd)
       \/ \E shutdown \in BOOLEAN : Close(fd, shutdown)
       \/ \E ip \in Hosts : Connect(fd, ip)
       \/ Accept(fd)
       \/ \E ip \in Hosts \cup {NoHost}, n \in Chunks : Sendto(fd, ip, n)
       \/ \E n \in Counts : Recv(fd, n)
       \/ \E rounds \in POLL_ROUNDS : SysPoll(fd, rounds)

Kernel ==
  \/ SendPacket \/ Resolve \/ PollRx \/ PolledRx \/ IcmpInput \/ FinInput \/ FinSent
  \/ IrqReturn \/ Closed \/ ConnectWaits \/ ConnectLooks \/ AcceptWaits \/ SendtoChunk
  \/ RecvWaits \/ RecvLooks \/ SysPollWaits

IrqDivides ==
  \/ DividesRound \/ DividesQueue \/ DividesIcmp \/ DividesTcp \/ DividesBytes \/ DividesArp
  \/ DividesFin \/ DividesPolled

Resumes ==
  \/ RoundResumes \/ QueueResumes \/ TcpResumes \/ BytesResume \/ ArpResumes \/ FinResumes
  \/ PolledResumes

World ==
  \/ \E syn \in syns : Answer(syn) \/ \E n \in 0 .. MaxBytes, fin \in BOOLEAN : Data(syn, n, fin)
  \/ Packet

\* The program does something else.
Compute == InUser /\ UNCHANGED vars

Next == Program \/ Compute \/ Kernel \/ StackFull \/ Irq \/ IrqDivides \/ Resumes \/ World

Spec == Init /\ [][Next]_vars

---------------------------------------------------------------------------
(* Properties *)

\* The fields of sockets, the tables and the registers keep their types.  The
\* queues of a socket keep their limits, and no address is twice in the ARP table,
\* until an interrupt divides a change of one of them.
NetTypeOK ==
  /\ \A i \in Slot :
       /\ sockets[i].ref_count \in {0, 1}
       /\ sockets[i].remote_ip \in Hosts \cup {NoHost}
       /\ ~torn => /\ Len(sockets[i].rx) <= SOCKET_RX_BUF_SIZE
                   /\ Len(sockets[i].dgrams) <= MAX_DGRAM_QUEUE
  /\ fds \in [1 .. MAX_FDS -> 0 .. MAX_SOCKETS]
  /\ s_ephemeral_port \in FirstPort .. LastPort
  /\ Len(arp_table) <= ARP_TABLE_SIZE /\ ToSet(arp_table) \subseteq Neighbours
  /\ ~torn => Cardinality(ToSet(arp_table)) = Len(arp_table)
  /\ DOMAIN descs = Desc /\ {s_rx_cur, rdh, rdt} \subseteq Desc

\* What a program reads from a connection, and what waits to be read, is what
\* the peer sent, from the first byte and without a gap, and no byte is
\* acknowledged that was not sent: through timeouts, resets, late answers to SYNs, address
\* resolution in the middle of an answer and slots that change hands.  The
\* code looks at no sequence number, so this is as much as it can promise: not of
\* a port that is used twice, a buffer that overruns, or a packet that
\* is handled twice.
StreamIsPeers ==
  ~reused /\ ~overrun /\ ~reentered =>
    \A i \in Slot :
      LET s == sockets[i]
          bytes == s.got \o s.rx
      IN  s.conn # 0 =>
            /\ \A k \in DOMAIN bytes : bytes[k] = <<s.conn, k>>
            /\ Len(bytes) <= s.remote_seq
            /\ s.remote_seq <= flow[s.conn].sent + (IF s.fin_received THEN 1 ELSE 0)

\* A socket holds no datagram that an earlier owner of its slot was sent, until an
\* interrupt divides the queueing of one.
DatagramsAreMine ==
  ~torn => \A i \in Slot : sockets[i].ref_count # 0 =>
    \A k \in DOMAIN sockets[i].dgrams : sockets[i].dgrams[k] = sockets[i].born

\* Every slot in use has one fd, or is being closed, so none leaks and none is
\* shared.  shutdown breaks this: it frees the slot under an fd that stays.
SlotsOwned ==
  ~shut =>
    /\ {i \in Slot : sockets[i].ref_count # 0}
         = (ToSet(fds) \ {0}) \cup {stack[k].slot : k \in {k \in DOMAIN stack : stack[k].at = "close"}}
    /\ \A a, b \in 1 .. MAX_FDS : fds[a] = fds[b] /\ fds[a] # 0 => a = b

\* How many packets the card has put ahead of the driver.
Waiting == (rdh - s_rx_cur + NUM_RX_DESC) % NUM_RX_DESC

\* Driver and card agree on the ring: the packets in it are the ones from
\* s_rx_cur to the card's head, and the card may fill all the others but one.
\* A packet that is handled inside the handling of another moves
\* s_rx_cur back to descriptors that are empty, and the two part for good.
RingInStep ==
  ~reentered =>
    /\ {d \in Desc : descs[d] # NoFrame}
         = {(s_rx_cur + k) % NUM_RX_DESC : k \in 0 .. Waiting - 1}
    /\ (rdt + 1) % NUM_RX_DESC = s_rx_cur
=============================================================================
