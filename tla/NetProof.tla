------------------------------ MODULE NetProof ------------------------------
(* Proofs about Net and Sockets: for every number of sockets, files,        *)
(* descriptors, hosts and packets.                                          *)
EXTENDS Net, ListFacts

---------------------------------------------------------------------------
(* Types *)

Addresses == Hosts \cup {NoHost}
Types == {STREAM, DGRAM, RAW}
TcpStates == {CLOSED, SYN_SENT, ESTABLISHED, FIN_WAIT1, CLOSE_WAIT, LISTEN}
Items == Nat \X Nat

\* What a slot may hold.
Socks ==
  [ref_count : {0, 1}, type : Types, local_port : Nat, remote_ip : Addresses,
   tcp_state : TcpStates, remote_seq : Nat, fin_received : BOOLEAN,
   rx : Seq(Items), dgrams : Seq(Nat), nonblocking : BOOLEAN, error : {0, 104, 110},
   conn : Nat, got : Seq(Items), born : Nat]

GoodSocks ==
  {s \in Socks : s.tcp_state = SYN_SENT => s.remote_ip \in Hosts /\ s.conn \in 1 .. MaxConns}

\* What a descriptor may hold.
Segments ==
  [kind : {"tcp"}, port : Nat, from : Hosts, conn : 1 .. MaxConns,
   flag : {"synack", "rst", "data"}, first : Nat \ {0}, len : Nat,
   fin : BOOLEAN]
Frames ==
  {NoFrame} \cup [kind : {"arp"}, from : Neighbours]
            \cup [kind : {"udp"}, port : Nat]
            \cup [kind : {"icmp"}, from : Hosts, echo : BOOLEAN]
            \cup Segments

\* What may be on the stack.
Syns == Nat \X Hosts \X (1 .. MaxConns)
SendCalls == [at : {"send"}, ip : Addresses, syn : Syns \cup {<< >>}]
ResolveCalls == [at : {"resolve"}, ip : Addresses, syn : Syns \cup {<< >>}, retry : Int]
PolledCalls == [at : {"polled"}, cur : Desc]
FinCalls == [at : {"fin", "fin_sent"}, slot : Slot]
CloseCalls == [at : {"close"}, slot : Slot, fin : BOOLEAN]
WaitCalls == [at : {"connect", "connect_look", "accept", "accept_look"}, slot : Slot, timeout : Int]
SendtoCalls == [at : {"sendto"}, ip : Addresses, left : Int]
RecvCalls == [at : {"recv", "recv_look"}, slot : Slot, n : Nat, timeout : Int]
PollCalls == [at : {"poll_look", "poll_wait"}, slot : Slot, timeout : Int, sti : BOOLEAN]
IcmpCalls == [at : {"icmp"}, from : Nat \ {0}]

\* What is left of a round that an interrupt divided.
RxCutCalls == [at : {"rx_cut"}, cur : Desc, tested : BOOLEAN]
QueueCutCalls == [at : {"queue_cut"}, slot : Slot, was : Seq(Nat)]
TcpCutCalls == [at : {"tcp_cut"}, slot : Slot, seg : Segments, state : TcpStates]
BytesCutCalls ==
  {c \in [at : {"bytes_cut"}, slot : Slot, seg : Segments, n : Nat, was : Seq(Items)] : c.n < c.seg.len}
ArpCutCalls == [at : {"arp_cut"}, from : Neighbours, idx : 1 .. ARP_TABLE_SIZE]
FinCutCalls == [at : {"fin_cut"}, slot : Slot]
PolledCutCalls == [at : {"polled_cut"}, cur : Desc, moved : BOOLEAN, told : BOOLEAN]
CutCalls ==
  RxCutCalls \cup QueueCutCalls \cup TcpCutCalls \cup BytesCutCalls \cup ArpCutCalls \cup FinCutCalls
  \cup PolledCutCalls
TornCuts == {"queue_cut", "bytes_cut", "arp_cut"}
Cuts == {"rx_cut", "queue_cut", "tcp_cut", "bytes_cut", "arp_cut", "fin_cut", "polled_cut"}

WholeCalls ==
  [at : {"poll", "irq"}] \cup SendCalls \cup ResolveCalls \cup PolledCalls \cup FinCalls \cup IcmpCalls
  \cup CloseCalls \cup WaitCalls \cup SendtoCalls \cup RecvCalls \cup PollCalls
Calls == WholeCalls \cup CutCalls

TablesTyped ==
  /\ fds \in [1 .. MAX_FDS -> 0 .. MAX_SOCKETS]
  /\ s_ephemeral_port \in FirstPort .. LastPort
  /\ arp_table \in Seq(Neighbours) /\ Len(arp_table) <= ARP_TABLE_SIZE
  /\ descs \in [Desc -> Frames] /\ bufs \in [Desc -> Frames]
  /\ s_rx_cur \in Desc /\ rdh \in Desc /\ rdt \in Desc
  /\ syns \subseteq Syns
  /\ flow \in [1 .. MaxConns -> [open : BOOLEAN, sent : Nat, fin : BOOLEAN]]
  /\ made \in Nat /\ conns \in 0 .. MaxConns /\ ports \subseteq Nat
  /\ types \subseteq Types

NetTyped == sockets \in [Slot -> GoodSocks] /\ stack \in Seq(Calls) /\ TablesTyped

---------------------------------------------------------------------------
(* The stack *)

UserCalls ==
  {"close", "connect", "connect_look", "accept", "accept_look", "sendto", "recv", "recv_look",
   "poll_look", "poll_wait"}

\* The call of the program is the outermost one; what is left of the handling of
\* a packet is inside the round that received it.
NestOK ==
  /\ \A i \in 1 .. Len(stack) : stack[i].at \in UserCalls => i = Len(stack)
  /\ \A i \in 1 .. Len(stack) : stack[i].at \in {"fin", "fin_sent", "icmp"} =>
       \E j \in 1 .. Len(stack) : j > i /\ stack[j].at = "polled"
  /\ ~reentered => \A i, j \in Handling : i = j

BottomOK == \A i \in 1 .. Len(stack) : stack[i].at \in UserCalls => i = Len(stack)

\* A round is divided only where reentered says so, and a change only where torn does.
CutsOK ==
  /\ \A i \in 1 .. Len(stack) : /\ stack[i].at \in Cuts => reentered
                                /\ stack[i].at \in TornCuts => torn
  /\ torn => reentered

Base == NetTyped /\ BottomOK /\ CutsOK

\* SYN_SENT is the state of a connect call that is under way.
Connecting(i) ==
  /\ stack # << >> /\ stack[Len(stack)].at \in {"connect", "connect_look"}
  /\ stack[Len(stack)].slot = i /\ sockets[i].error = 0
SynsWait == \A i \in Slot : sockets[i].tcp_state = SYN_SENT => Connecting(i)

StackOK == NestOK /\ SynsWait

\* Without shutdown, fds and a call of close own what is in use.
Closing(i) == stack # << >> /\ stack[Len(stack)].at = "close" /\ stack[Len(stack)].slot = i
OwnersOK ==
  ~shut =>
    /\ \A i \in Slot : sockets[i].ref_count # 0 <=> (\E fd \in 1 .. MAX_FDS : fds[fd] = i) \/ Closing(i)
    /\ \A i \in Slot : Closing(i) => \A fd \in 1 .. MAX_FDS : fds[fd] # i
    /\ \A a, b \in 1 .. MAX_FDS : fds[a] = fds[b] /\ fds[a] # 0 => a = b

\* How far a descriptor is from the driver's place.
From(c, d) == IF d >= c THEN d - c ELSE d - c + NUM_RX_DESC
Dist(d) == From(s_rx_cur, d)

FilledOK ==
  /\ \A d \in Desc : descs[d] # NoFrame <=> Dist(d) < Dist(rdh)
  /\ s_rx_cur = IF rdt + 1 = NUM_RX_DESC THEN 0 ELSE rdt + 1
HandlingOK == \A i \in Handling : stack[i].cur = s_rx_cur /\ descs[s_rx_cur] # NoFrame
RingOK == ~reentered => FilledOK /\ HandlingOK

---------------------------------------------------------------------------
(* Ports and connections *)

\* A call that is under way.
On(c) == \E k \in DOMAIN stack : stack[k] = c

\* The connections that were asked for, are about to be, or may be again.
Dial(s) == <<s.local_port, s.remote_ip, s.conn>>
Sending == {k \in DOMAIN stack : stack[k].at \in {"send", "resolve"}}
Asked ==
  syns \cup ({stack[k].syn : k \in Sending} \ {<< >>})
       \cup {Dial(sockets[i]) : i \in {i \in Slot : sockets[i].tcp_state = SYN_SENT}}

\* As long as no port is given twice, a port tells the slot, and what was asked for
\* from it tells the connection.
NamesOK ==
  /\ \A i \in Slot : sockets[i].born # 0 => sockets[i].local_port \in ports
  /\ \A i, j \in Slot : sockets[i].born # 0 /\ sockets[j].born # 0
                        /\ sockets[i].local_port = sockets[j].local_port => i = j
  /\ \A x \in Asked :
       /\ x[1] \in ports
       /\ \A i \in Slot : sockets[i].born # 0 /\ sockets[i].local_port = x[1] =>
            sockets[i].conn = x[3] /\ sockets[i].remote_ip = x[2]
  /\ \A x, y \in Asked : x[3] = y[3] => x = y

PortsOK ==
  /\ \A i \in Slot : sockets[i].ref_count # 0 => sockets[i].born # 0
  /\ \A fd \in 1 .. MAX_FDS : fds[fd] # 0 => sockets[fds[fd]].born # 0
  /\ \A i \in Slot : /\ sockets[i].conn <= conns
                     /\ sockets[i].conn # 0 => sockets[i].type = STREAM /\ sockets[i].born # 0
  /\ \A x \in Asked : x \in Syns /\ x[3] <= conns
  /\ ~reused => NamesOK

---------------------------------------------------------------------------
(* Streams *)

Good == ~reused /\ ~overrun /\ ~reentered

\* Packets that wait, those of a connection, and those with data.
Pending(d) == descs[d] # NoFrame /\ (d = s_rx_cur => Handling = {})
TcpOf(c, flag) ==
  {d \in Desc : Pending(d) /\ descs[d].kind = "tcp" /\ descs[d].conn = c /\ descs[d].flag = flag}
DataOf(c) == TcpOf(c, "data")
LastOf(d) == descs[d].first + descs[d].len - 1

Before(d, e) == Dist(d) < Dist(e)

\* Of connection c, n bytes come before those in the packets of D.
Follows(c, n, D) ==
  /\ D = {} => n = flow[c].sent
  /\ \A d \in D : (\A e \in D : ~Before(e, d)) => descs[d].first = n + 1
Due(c, n) == Follows(c, n, DataOf(c))

\* Nothing of connection c was received, and the answer to its SYN comes first.
Waits(c) ==
  /\ Due(c, 0)
  /\ \A d \in DataOf(c) : \E e \in TcpOf(c, "synack") : Before(e, d)
  /\ flow[c].open => TcpOf(c, "synack") # {}

\* Each packet goes on where the one before it ended.
After(c, d) == {e \in DataOf(c) : Before(d, e)}
ChainOf(c) == \A d \in DataOf(c) : LastOf(d) <= flow[c].sent /\ Follows(c, LastOf(d), After(c, d))
ChainOK ==
  /\ \A d \in Desc : descs[d].kind = "tcp" =>
       <<descs[d].port, descs[d].from, descs[d].conn>> \in syns
  /\ \A c \in 1 .. MaxConns : ChainOf(c)
  /\ \A c \in 1 .. MaxConns : c > conns => ~flow[c].open /\ flow[c].sent = 0

\* At most one FIN is being dealt with.
FinKinds == {"fin", "fin_sent"}
FinsOK ==
  ~reentered => \A i, j \in DOMAIN stack : stack[i].at \in FinKinds /\ stack[j].at \in FinKinds => i = j

FinCall(at, i) == [at |-> at, slot |-> i]
Finishing(i) == On(FinCall("fin", i)) \/ On(FinCall("fin_sent", i))
Reach(s) == \E x \in Asked : x[1] = s.local_port

StreamOf(s) == s.got \o s.rx

\* What a program got and gets of a connection.
BytesOK(s, c) ==
  /\ \A k \in 1 .. Len(StreamOf(s)) : StreamOf(s)[k] = <<c, k>>
  /\ Len(StreamOf(s)) <= s.remote_seq
  /\ s.remote_seq <= flow[c].sent + (IF s.fin_received THEN 1 ELSE 0)

\* Of the socket s in slot i.  Until the answer to its SYN is handled nothing of its
\* connection is; from then on the next packet with data goes on where its
\* stream ends.
SlotOK(i, s) ==
  /\ s.conn = 0 => StreamOf(s) = << >> /\ s.tcp_state \notin {SYN_SENT, ESTABLISHED}
  /\ s.ref_count # 0 => s.tcp_state # FIN_WAIT1
  /\ s.conn # 0 => BytesOK(s, s.conn)
  /\ s.conn # 0 /\ On(FinCall("fin", i)) => s.remote_seq <= flow[s.conn].sent
  /\ s.tcp_state = SYN_SENT => ~s.fin_received /\ StreamOf(s) = << >> /\ ~On(FinCall("fin", i))
  /\ s.tcp_state = SYN_SENT /\ s.ref_count # 0 => Waits(s.conn)
  /\ s.tcp_state = ESTABLISHED /\ s.ref_count # 0 /\ Reach(s) => Due(s.conn, Len(StreamOf(s)))
  /\ s.tcp_state = ESTABLISHED /\ s.ref_count # 0 /\ ~Finishing(i) =>
       ~s.fin_received /\ s.remote_seq = Len(StreamOf(s))
SlotsOK == \A i \in Slot : \A s \in {sockets[i]} : SlotOK(i, s)

StreamsOK == Good => ChainOK /\ SlotsOK

---------------------------------------------------------------------------
(* What the functions of Sockets make of a slot *)

LEMMA Consts ==
  /\ SOCKET_RX_BUF_SIZE \in Nat /\ MAX_DGRAM_QUEUE \in Nat /\ MAX_SOCKETS \in Nat
  /\ MAX_FDS \in Nat /\ MaxConns \in Nat /\ MaxBytes \in Nat
  /\ FirstPort \in Nat /\ LastPort \in Nat /\ FirstPort <= LastPort
  /\ ARP_TABLE_SIZE \in Nat /\ ARP_TABLE_SIZE > 0 /\ NUM_RX_DESC \in Nat /\ NUM_RX_DESC > 1
BY SocketsAssumption, NetAssumption

LEMMA StateFacts ==
  /\ CLOSED \in TcpStates /\ SYN_SENT \in TcpStates /\ ESTABLISHED \in TcpStates
  /\ FIN_WAIT1 \in TcpStates /\ CLOSE_WAIT \in TcpStates /\ LISTEN \in TcpStates
  /\ \A x \in {CLOSED, ESTABLISHED, FIN_WAIT1, CLOSE_WAIT, LISTEN} : x # SYN_SENT
  /\ STREAM \in Types /\ DGRAM \in Types /\ RAW \in Types
BY DEF TcpStates, CLOSED, SYN_SENT, ESTABLISHED, FIN_WAIT1, CLOSE_WAIT, LISTEN, Types, STREAM, DGRAM, RAW

LEMMA UnusedGood == Unused \in GoodSocks
<1>1. Unused \in Socks
  <2>1. << >> \in Seq(Items) /\ << >> \in Seq(Nat) /\ NoHost \in Addresses
    BY DEF Addresses
  <2>2. QED
    BY <2>1, StateFacts DEF Unused, Socks
<1>2. Unused.tcp_state = CLOSED
  BY DEF Unused
<1>3. QED
  BY <1>1, <1>2, StateFacts DEF GoodSocks

LEMMA GoodFact ==
  ASSUME NEW s \in GoodSocks
  PROVE  /\ s \in Socks
         /\ s.ref_count \in {0, 1} /\ s.type \in Types /\ s.local_port \in Nat
         /\ s.remote_ip \in Addresses /\ s.tcp_state \in TcpStates /\ s.remote_seq \in Nat
         /\ s.rx \in Seq(Items) /\ s.got \in Seq(Items) /\ s.dgrams \in Seq(Nat)
         /\ s.conn \in Nat /\ s.born \in Nat
         /\ s.tcp_state = SYN_SENT => s.remote_ip \in Hosts /\ s.conn \in 1 .. MaxConns
BY DEF GoodSocks, Socks

\* Fields that may be set without more ado.
LEMMA SetFields ==
  ASSUME NEW s \in GoodSocks
  PROVE  /\ \A x \in Nat : [s EXCEPT !.local_port = x] \in GoodSocks
         /\ \A x \in TcpStates : x # SYN_SENT => [s EXCEPT !.tcp_state = x] \in GoodSocks
         /\ \A x \in BOOLEAN : [s EXCEPT !.nonblocking = x] \in GoodSocks
         /\ [s EXCEPT !.error = 0] \in GoodSocks
<1>1. ASSUME NEW x \in Nat PROVE [s EXCEPT !.local_port = x] \in GoodSocks
  BY DEF GoodSocks, Socks
<1>2. ASSUME NEW x \in TcpStates, x # SYN_SENT PROVE [s EXCEPT !.tcp_state = x] \in GoodSocks
  BY <1>2 DEF GoodSocks, Socks
<1>3. ASSUME NEW x \in BOOLEAN PROVE [s EXCEPT !.nonblocking = x] \in GoodSocks
  BY DEF GoodSocks, Socks
<1>4. [s EXCEPT !.error = 0] \in GoodSocks
  BY DEF GoodSocks, Socks
<1>5. QED
  BY <1>1, <1>2, <1>3, <1>4

\* What waits in a slot may be anything of its type.
LEMMA SetQueues ==
  ASSUME NEW s \in GoodSocks, NEW r \in Seq(Items), NEW g \in Seq(Items), NEW q \in Seq(Nat), NEW n \in Nat
  PROVE  /\ [s EXCEPT !.rx = r] \in GoodSocks
         /\ [s EXCEPT !.rx = r, !.got = g] \in GoodSocks
         /\ [s EXCEPT !.rx = r, !.remote_seq = n] \in GoodSocks
         /\ [s EXCEPT !.dgrams = q] \in GoodSocks
<1>1. s \in Socks
  BY GoodFact
<1>2. ASSUME NEW t \in Socks, t.tcp_state = s.tcp_state, t.remote_ip = s.remote_ip, t.conn = s.conn
      PROVE  t \in GoodSocks
  BY <1>2, GoodFact DEF GoodSocks
<1>3. [s EXCEPT !.rx = r] \in GoodSocks
  <2> DEFINE t == [s EXCEPT !.rx = r]
  <2>1. t \in Socks /\ t.tcp_state = s.tcp_state /\ t.remote_ip = s.remote_ip /\ t.conn = s.conn
    BY <1>1 DEF Socks
  <2>2. QED
    BY <1>2, <2>1
<1>4. [s EXCEPT !.rx = r, !.got = g] \in GoodSocks
  <2> DEFINE t == [s EXCEPT !.rx = r, !.got = g]
  <2>1. t \in Socks /\ t.tcp_state = s.tcp_state /\ t.remote_ip = s.remote_ip /\ t.conn = s.conn
    BY <1>1 DEF Socks
  <2>2. QED
    BY <1>2, <2>1
<1>5. [s EXCEPT !.rx = r, !.remote_seq = n] \in GoodSocks
  <2> DEFINE t == [s EXCEPT !.rx = r, !.remote_seq = n]
  <2>1. t \in Socks /\ t.tcp_state = s.tcp_state /\ t.remote_ip = s.remote_ip /\ t.conn = s.conn
    BY <1>1 DEF Socks
  <2>2. QED
    BY <1>2, <2>1
<1>6. [s EXCEPT !.dgrams = q] \in GoodSocks
  <2> DEFINE t == [s EXCEPT !.dgrams = q]
  <2>1. t \in Socks /\ t.tcp_state = s.tcp_state /\ t.remote_ip = s.remote_ip /\ t.conn = s.conn
    BY <1>1 DEF Socks
  <2>2. QED
    BY <1>2, <2>1
<1>7. QED
  BY <1>3, <1>4, <1>5, <1>6

LEMMA CreateGood ==
  ASSUME NEW s, NEW type \in Types, NEW port \in Nat, NEW n \in Nat
  PROVE  /\ sock_create(s, type, port, n) \in GoodSocks
         /\ sock_destroy(sock_create(s, type, port, n)) \in GoodSocks
<1> DEFINE t == sock_create(s, type, port, n)
<1>1. t \in Socks /\ t.rx = << >> /\ t.dgrams = << >> /\ t.tcp_state = CLOSED
  <2>1. Unused \in Socks
    BY UnusedGood DEF GoodSocks
  <2>2. QED
    BY <2>1, ZenonT(40) DEF sock_create, Socks, Unused
<1>2. t \in GoodSocks
  <2> HIDE DEF t
  <2>1. QED
    BY <1>1, Consts, StateFacts DEF GoodSocks
<1> HIDE DEF t
<1>3. sock_destroy(t) \in GoodSocks
  <2>1. CLOSED \in TcpStates /\ CLOSED # SYN_SENT
    BY StateFacts
  <2>2. QED
    BY <1>2, <2>1 DEF sock_destroy, GoodSocks, Socks
<1>4. QED
  BY <1>2, <1>3 DEF t

LEMMA CloseGood ==
  ASSUME NEW s \in GoodSocks, NEW fin
  PROVE  sock_close(s, fin) \in GoodSocks
<1>1. FIN_WAIT1 \in TcpStates /\ FIN_WAIT1 # SYN_SENT
  BY StateFacts
<1>2. QED
  BY <1>1, ZenonT(40) DEF sock_close, GoodSocks, Socks

LEMMA ConnectingGood ==
  ASSUME NEW s \in GoodSocks, NEW ip \in Hosts, NEW c \in Nat, s.type = STREAM => c \in 1 .. MaxConns
  PROVE  connecting(s, ip, c) \in GoodSocks
<1>1. SYN_SENT \in TcpStates /\ ip \in Addresses /\ << >> \in Seq(Items)
  BY StateFacts DEF Addresses
<1>2. CASE s.type # STREAM
  BY <1>1, <1>2 DEF connecting, GoodSocks, Socks
<1>3. CASE s.type = STREAM
  <2> DEFINE t == [s EXCEPT !.remote_ip = ip, !.tcp_state = SYN_SENT, !.remote_seq = 0,
                            !.error = 0, !.fin_received = FALSE, !.conn = c, !.got = << >>]
  <2>1. connecting(s, ip, c) = t
    BY <1>3 DEF connecting
  <2>2. s \in Socks
    BY GoodFact
  <2>3. t \in Socks
    BY <1>1, <2>2 DEF Socks
  <2>4. t.rx = s.rx /\ t.dgrams = s.dgrams /\ t.born = s.born /\ t.remote_ip = ip /\ t.conn = c
    BY <2>2 DEF Socks
  <2> HIDE DEF t
  <2>5. QED
    BY <1>3, <2>1, <2>3, <2>4, GoodFact DEF GoodSocks
<1>4. QED
  BY <1>2, <1>3

LEMMA TimedOutGood ==
  ASSUME NEW s \in GoodSocks
  PROVE  timed_out(s) \in GoodSocks
<1>1. CLOSED \in TcpStates /\ CLOSED # SYN_SENT
  BY StateFacts
<1>2. QED
  BY <1>1, ZenonT(40) DEF timed_out, GoodSocks, Socks

LEMMA FinGood ==
  ASSUME NEW s \in GoodSocks
  PROVE  fin_input(s) \in GoodSocks /\ fin_state(s) \in GoodSocks
<1>1. CLOSE_WAIT \in TcpStates /\ CLOSE_WAIT # SYN_SENT
  BY StateFacts
<1>2. fin_input(s) \in GoodSocks
  <2> DEFINE q == s.remote_seq + 1
             t == [s EXCEPT !.fin_received = TRUE, !.remote_seq = q]
  <2>1. q \in Nat /\ s \in Socks /\ TRUE \in BOOLEAN
    BY GoodFact
  <2>2. fin_input(s) = t
    BY Zenon DEF fin_input
  <2> HIDE DEF q
  <2>3. t \in Socks
    BY <2>1 DEF Socks
  <2>4. /\ t.rx = s.rx /\ t.dgrams = s.dgrams /\ t.born = s.born /\ t.tcp_state = s.tcp_state
        /\ t.remote_ip = s.remote_ip /\ t.conn = s.conn
    BY <2>1 DEF Socks
  <2> HIDE DEF t
  <2>5. QED
    BY <2>2, <2>3, <2>4, GoodFact DEF GoodSocks
<1>3. fin_state(s) \in GoodSocks
  BY <1>1, ZenonT(40) DEF fin_state, GoodSocks, Socks
<1>4. QED
  BY <1>2, <1>3

LEMMA QueuedGood ==
  ASSUME NEW s \in GoodSocks
  PROVE  queued(s) \in GoodSocks
<1>1. CASE Len(s.dgrams) < MAX_DGRAM_QUEUE
  <2> DEFINE q == Append(s.dgrams, s.born)
             t == [s EXCEPT !.dgrams = q]
  <2>1. queued(s) = t
    BY <1>1 DEF queued
  <2>2. s.dgrams \in Seq(Nat) /\ s.born \in Nat
    BY GoodFact
  <2>3. q \in Seq(Nat)
    BY <2>2
  <2> HIDE DEF q
  <2>4. QED
    BY <2>1, <2>3, << >> \in Seq(Items), 0 \in Nat, SetQueues
<1>2. CASE ~(Len(s.dgrams) < MAX_DGRAM_QUEUE)
  BY <1>2 DEF queued
<1>3. QED
  BY <1>1, <1>2

LEMMA ReceivedGood ==
  ASSUME NEW s \in GoodSocks, NEW n \in Nat, ~Empty(s)
  PROVE  received(s, n) \in GoodSocks
<1>1. s.rx \in Seq(Items) /\ s.got \in Seq(Items) /\ s.dgrams \in Seq(Nat)
  BY GoodFact
<1>2. CASE s.type = STREAM
  <2> DEFINE k == Lesser(n, Len(s.rx))
             r == SubSeq(s.rx, k + 1, Len(s.rx))
             g == s.got \o SubSeq(s.rx, 1, k)
  <2>1. k \in Nat /\ k <= Len(s.rx)
    BY <1>1 DEF Lesser
  <2>2. received(s, n) = [s EXCEPT !.rx = r, !.got = g]
    BY <1>2, Zenon DEF received
  <2> HIDE DEF k
  <2>3. r \in Seq(Items)
    BY <1>1, <2>1
  <2>4. g \in Seq(Items)
    BY <1>1, <2>1
  <2> HIDE DEF r, g
  <2>5. [s EXCEPT !.rx = r, !.got = g] \in GoodSocks
    BY <1>1, <2>3, <2>4, 0 \in Nat, SetQueues, Zenon
  <2>6. QED
    BY <2>2, <2>5, Zenon
<1>3. CASE s.type # STREAM
  <2> DEFINE q == Tail(s.dgrams)
  <2>1. received(s, n) = [s EXCEPT !.dgrams = q]
    BY <1>3 DEF received
  <2>2. s.dgrams # << >>
    BY <1>3 DEF Empty
  <2>3. q \in Seq(Nat)
    BY <1>1, <2>2
  <2> HIDE DEF q
  <2>4. QED
    BY <1>1, <2>1, <2>3, 0 \in Nat, SetQueues
<1>4. QED
  BY <1>2, <1>3

LEMMA BytesFact ==
  ASSUME NEW f \in Segments
  PROVE  /\ f.len \in Nat /\ f.conn \in Nat /\ f.first \in Nat
         /\ f.first >= 1 /\ Bytes(f) \in Seq(Items)
         /\ Len(Bytes(f)) = f.len
         /\ \A k \in 1 .. f.len : Bytes(f)[k] = <<f.conn, f.first + k - 1>>
<1>1. f.len \in Nat /\ f.conn \in Nat /\ f.first \in Nat /\ f.first >= 1
  BY DEF Segments
<1>2. \A k \in 1 .. f.len : <<f.conn, f.first + k - 1>> \in Items
  BY <1>1 DEF Items
<1>3. QED
  BY <1>1, <1>2 DEF Bytes

\* Part of the bytes of a segment.
LEMMA SomeBytes ==
  ASSUME NEW f \in Segments, NEW a \in Nat \ {0}, NEW m \in Int, m <= f.len
  PROVE  /\ SubSeq(Bytes(f), a, m) \in Seq(Items)
         /\ Len(SubSeq(Bytes(f), a, m)) = IF a <= m THEN m - a + 1 ELSE 0
<1> DEFINE b == Bytes(f)
<1>1. b \in Seq(Items) /\ Len(b) = f.len /\ f.len \in Nat
  BY BytesFact
<1> HIDE DEF b
<1>2. \A i \in a .. m : b[i] \in Items
  BY <1>1
<1>3. QED
  BY <1>2, SubSeqProperties DEF b

LEMMA TcpInputSocks ==
  ASSUME NEW s \in Socks, NEW f \in Segments
  PROVE  /\ tcp_input(s, f) \in Socks
         /\ tcp_input(s, f).remote_ip = s.remote_ip /\ tcp_input(s, f).conn = s.conn
         /\ tcp_input(s, f).tcp_state \in {s.tcp_state, CLOSED, ESTABLISHED}
<1>1. CLOSED \in TcpStates /\ ESTABLISHED \in TcpStates
  BY StateFacts
<1> DEFINE Ok(t) == /\ t \in Socks /\ t.remote_ip = s.remote_ip /\ t.conn = s.conn
                    /\ t.tcp_state \in {s.tcp_state, CLOSED, ESTABLISHED}
<1>2. Ok([s EXCEPT !.tcp_state = CLOSED, !.error = 104])
  BY <1>1 DEF Socks
<1>3. Ok([s EXCEPT !.tcp_state = ESTABLISHED, !.remote_seq = 0])
  BY <1>1 DEF Socks
<1>4. Ok(stored(s, f))
  <2> DEFINE m == Lesser(f.len, Room(s))
             x == SubSeq(Bytes(f), 1, m)
             r == s.rx \o x
             q == s.remote_seq + f.len
  <2>1. f.len \in Nat /\ s.rx \in Seq(Items) /\ s.remote_seq \in Nat
    BY BytesFact DEF Socks
  <2>2. m \in Int /\ m <= f.len
    BY <2>1, Consts DEF Lesser, Room
  <2>3. stored(s, f) = [s EXCEPT !.rx = r, !.remote_seq = q]
    BY Zenon DEF stored
  <2> HIDE DEF m
  <2>4. x \in Seq(Items)
    BY <2>2, SomeBytes
  <2> HIDE DEF x
  <2>5. r \in Seq(Items) /\ q \in Nat
    BY <2>1, <2>4
  <2> HIDE DEF r, q
  <2> DEFINE t == [s EXCEPT !.rx = r, !.remote_seq = q]
  <2>6. t \in Socks /\ t.tcp_state = s.tcp_state /\ t.remote_ip = s.remote_ip /\ t.conn = s.conn
    BY <2>5 DEF Socks
  <2>7. QED
    BY <2>3, <2>6
<1>5. Ok(s)
  OBVIOUS
<1>6. tcp_input(s, f) \in {[s EXCEPT !.tcp_state = CLOSED, !.error = 104],
                           [s EXCEPT !.tcp_state = ESTABLISHED, !.remote_seq = 0], stored(s, f), s}
  BY DEF tcp_input
<1>7. Ok(tcp_input(s, f))
  <2> HIDE DEF Ok
  <2>1. QED
    BY <1>2, <1>3, <1>4, <1>5, <1>6
<1>8. QED
  BY <1>7

LEMMA TcpInputGood ==
  ASSUME NEW s \in GoodSocks, NEW f \in Segments
  PROVE  tcp_input(s, f) \in GoodSocks
<1>1. s \in Socks /\ (s.tcp_state = SYN_SENT => s.remote_ip \in Hosts /\ s.conn \in 1 .. MaxConns)
  BY GoodFact
<1>2. QED
  BY <1>1, TcpInputSocks, StateFacts DEF GoodSocks

---------------------------------------------------------------------------
(* What a step does to the stack *)

\* The first k calls of st are over, and those of pre were made.
Spliced(st, new, pre, k) ==
  /\ new \in Seq(Calls) /\ Len(new) = Len(pre) + Len(st) - k
  /\ \A i \in 1 .. Len(pre) : new[i] = pre[i]
  /\ \A i \in k + 1 .. Len(st) : new[i + Len(pre) - k] = st[i]
  /\ \A i \in Len(pre) + 1 .. Len(new) : new[i] = st[i - Len(pre) + k]

LEMMA Splice ==
  ASSUME NEW st \in Seq(Calls), NEW pre \in Seq(Calls), NEW k \in 0 .. Len(st),
         NEW new, new = pre \o SubSeq(st, k + 1, Len(st))
  PROVE  Spliced(st, new, pre, k)
<1> DEFINE r == SubSeq(st, k + 1, Len(st))
<1>0. Len(st) \in Nat /\ Len(pre) \in Nat /\ k \in Nat /\ k <= Len(st)
  OBVIOUS
<1>1. r \in Seq(Calls) /\ Len(r) = Len(st) - k /\ \A i \in 1 .. Len(st) - k : r[i] = st[k + i]
  BY <1>0
<1> HIDE DEF r
<1>2. /\ new \in Seq(Calls) /\ Len(new) = Len(pre) + Len(r)
      /\ \A i \in 1 .. Len(pre) + Len(r) :
           new[i] = IF i <= Len(pre) THEN pre[i] ELSE r[i - Len(pre)]
  <2>1. new = pre \o r
    BY DEF r
  <2>2. r \in Seq(Calls)
    BY <1>1
  <2>3. /\ pre \o r \in Seq(Calls) /\ Len(pre \o r) = Len(pre) + Len(r)
        /\ \A i \in 1 .. Len(pre) + Len(r) :
             (pre \o r)[i] = IF i <= Len(pre) THEN pre[i] ELSE r[i - Len(pre)]
    BY <2>2, ConcatProperties
  <2>4. QED
    BY <2>1, <2>3, Zenon
<1>3. \A i \in 1 .. Len(pre) : new[i] = pre[i]
  BY <1>0, <1>1, <1>2
<1>4. ASSUME NEW i \in k + 1 .. Len(st) PROVE new[i + Len(pre) - k] = st[i]
  <2>1. /\ i + Len(pre) - k \in 1 .. Len(pre) + Len(r) /\ ~(i + Len(pre) - k <= Len(pre))
        /\ i - k \in 1 .. Len(st) - k /\ i + Len(pre) - k - Len(pre) = i - k /\ k + (i - k) = i
    BY <1>0, <1>1
  <2>2. QED
    BY <1>1, <1>2, <2>1
<1>5. ASSUME NEW i \in Len(pre) + 1 .. Len(new) PROVE new[i] = st[i - Len(pre) + k]
  <2>1. /\ i \in 1 .. Len(pre) + Len(r) /\ ~(i <= Len(pre)) /\ i - Len(pre) \in 1 .. Len(st) - k
        /\ k + (i - Len(pre)) = i - Len(pre) + k
    BY <1>0, <1>1, <1>2, SMTT(40)
  <2>2. QED
    BY <1>1, <1>2, <2>1
<1>6. QED
  BY <1>0, <1>1, <1>2, <1>3, <1>4, <1>5 DEF Spliced

\* The forms that steps have.
LEMMA StackForms ==
  ASSUME NEW st \in Seq(Calls), st # << >>, NEW new
  PROVE  /\ st[1] \in Calls /\ Head(st) = st[1] /\ Len(st) \in Nat /\ Len(st) >= 1
         /\ new = Tail(st) => Spliced(st, new, << >>, 1)
         /\ \A f \in Calls : new = <<f>> \o Tail(st) => Spliced(st, new, <<f>>, 1)
         /\ \A fs \in Seq(Calls), f \in Calls :
              new = fs \o <<f>> \o Tail(st) =>
                Spliced(st, new, fs \o <<f>>, 1) /\ fs \o <<f>> \in Seq(Calls)
<1>1. st[1] \in Calls /\ Head(st) = st[1] /\ Len(st) \in Nat /\ Len(st) >= 1 /\ 1 \in 0 .. Len(st)
  OBVIOUS
<1>2. Tail(st) = SubSeq(st, 1 + 1, Len(st))
  OBVIOUS
<1>3. ASSUME new = Tail(st) PROVE Spliced(st, new, << >>, 1)
  <2>1. new = << >> \o SubSeq(st, 1 + 1, Len(st)) /\ << >> \in Seq(Calls)
    BY <1>1, <1>3
  <2>2. QED
    BY <1>1, <2>1, Splice
<1>4. ASSUME NEW f \in Calls, new = <<f>> \o Tail(st) PROVE Spliced(st, new, <<f>>, 1)
  <2>1. <<f>> \in Seq(Calls)
    OBVIOUS
  <2>2. QED
    BY <1>1, <1>2, <1>4, <2>1, Splice
<1>5. ASSUME NEW fs \in Seq(Calls), NEW f \in Calls, new = fs \o <<f>> \o Tail(st)
      PROVE  Spliced(st, new, fs \o <<f>>, 1) /\ fs \o <<f>> \in Seq(Calls)
  <2>1. <<f>> \in Seq(Calls)
    OBVIOUS
  <2>2. fs \o <<f>> \in Seq(Calls)
    BY <2>1
  <2>3. QED
    BY <1>1, <1>2, <1>5, <2>2, Splice
<1>6. QED
  BY <1>1, <1>3, <1>4, <1>5

LEMMA CallKinds ==
  ASSUME NEW c \in Calls
  PROVE  /\ c.at = "send" => c \in SendCalls
         /\ c.at = "resolve" => c \in ResolveCalls
         /\ c.at = "polled" => c \in PolledCalls
         /\ c.at \in {"fin", "fin_sent"} => c \in FinCalls
         /\ c.at = "icmp" => c \in IcmpCalls
         /\ c.at = "close" => c \in CloseCalls
         /\ c.at \in {"connect", "connect_look", "accept", "accept_look"} => c \in WaitCalls
         /\ c.at = "sendto" => c \in SendtoCalls
         /\ c.at \in {"recv", "recv_look"} => c \in RecvCalls
         /\ c.at \in {"poll_look", "poll_wait"} => c \in PollCalls
         /\ c \in CutCalls <=> c.at \in Cuts
<1>1. c \in CutCalls => c.at \in Cuts
  BY DEF CutCalls, RxCutCalls, QueueCutCalls, TcpCutCalls, BytesCutCalls, ArpCutCalls, FinCutCalls,
         PolledCutCalls, Cuts
<1>2. CASE c \in WholeCalls
  BY <1>1, <1>2 DEF WholeCalls, SendCalls, ResolveCalls, PolledCalls, FinCalls, IcmpCalls, CloseCalls, WaitCalls,
         SendtoCalls, RecvCalls, PollCalls, Cuts
<1>3. CASE c \in CutCalls
  BY <1>1, <1>3 DEF Cuts
<1>4. QED
  BY <1>2, <1>3 DEF Calls

LEMMA CutKinds ==
  ASSUME NEW c \in Calls
  PROVE  /\ c.at = "rx_cut" => c \in RxCutCalls
         /\ c.at = "queue_cut" => c \in QueueCutCalls
         /\ c.at = "tcp_cut" => c \in TcpCutCalls
         /\ c.at = "bytes_cut" => c \in BytesCutCalls
         /\ c.at = "arp_cut" => c \in ArpCutCalls
         /\ c.at = "fin_cut" => c \in FinCutCalls
         /\ c.at = "polled_cut" => c \in PolledCutCalls
<1>1. c.at \in Cuts => c \in CutCalls
  BY CallKinds
<1>2. CASE c \in CutCalls
  BY <1>2 DEF CutCalls, RxCutCalls, QueueCutCalls, TcpCutCalls, BytesCutCalls, ArpCutCalls, FinCutCalls,
         PolledCutCalls
<1>3. QED
  BY <1>1, <1>2 DEF Cuts

LEMMA MadeCalls ==
  /\ Poll \in Calls /\ [at |-> "irq"] \in Calls
  /\ \A a \in Nat \ {0} : [at |-> "icmp", from |-> a] \in Calls
  /\ \A ip \in Addresses : Send(ip) \in Calls
  /\ \A s \in GoodSocks : s.tcp_state = SYN_SENT => SendSyn(s) \in Calls
  /\ \A cur \in Desc : [at |-> "polled", cur |-> cur] \in Calls
  /\ \A i \in Slot : [at |-> "fin", slot |-> i] \in Calls /\ [at |-> "fin_sent", slot |-> i] \in Calls
<1>0. WholeCalls \subseteq Calls
  BY Zenon DEF Calls, WholeCalls
<1>1. /\ Poll \in Calls /\ [at |-> "irq"] \in Calls
  BY <1>0 DEF Poll, WholeCalls
<1>7. ASSUME NEW a \in Nat \ {0} PROVE [at |-> "icmp", from |-> a] \in Calls
  <2>1. [at |-> "icmp", from |-> a] \in IcmpCalls
    BY DEF IcmpCalls
  <2>2. QED
    BY <2>1, Zenon DEF Calls, WholeCalls
<1>2. ASSUME NEW ip \in Addresses PROVE Send(ip) \in Calls
  <2>1. Send(ip) \in SendCalls
    BY DEF SendCalls, Send
  <2>2. QED
    BY <2>1, Zenon DEF Calls, WholeCalls
<1>3. ASSUME NEW s \in GoodSocks, s.tcp_state = SYN_SENT PROVE SendSyn(s) \in Calls
  <2>1. s.remote_ip \in Hosts /\ s.remote_ip \in Addresses /\ s.conn \in 1 .. MaxConns /\ s.local_port \in Nat
    BY <1>3, GoodFact
  <2>2. <<s.local_port, s.remote_ip, s.conn>> \in Syns
    BY <2>1 DEF Syns
  <2> DEFINE x == <<s.local_port, s.remote_ip, s.conn>>
  <2> HIDE DEF x
  <2>3. [at |-> "send", ip |-> s.remote_ip, syn |-> x] \in SendCalls
    BY <2>1, <2>2 DEF SendCalls, x
  <2>4. QED
    BY <2>3, Zenon DEF Calls, WholeCalls, SendSyn, x
<1>4. ASSUME NEW cur \in Desc PROVE [at |-> "polled", cur |-> cur] \in Calls
  <2>1. [at |-> "polled", cur |-> cur] \in PolledCalls
    BY DEF PolledCalls
  <2>2. QED
    BY <2>1, Zenon DEF Calls, WholeCalls
<1>5. ASSUME NEW i \in Slot
      PROVE  [at |-> "fin", slot |-> i] \in Calls /\ [at |-> "fin_sent", slot |-> i] \in Calls
  <2>1. [at |-> "fin", slot |-> i] \in FinCalls /\ [at |-> "fin_sent", slot |-> i] \in FinCalls
    BY DEF FinCalls
  <2>2. QED
    BY <2>1, Zenon DEF Calls, WholeCalls
<1>6. QED
  BY <1>1, <1>2, <1>3, <1>4, <1>5, <1>7

---------------------------------------------------------------------------
(* How calls follow one another *)

\* The SYN that a call sends, if it sends one, comes from the call it follows.
SynFrom(c) ==
  \/ c.syn = << >>
  \/ stack[1].at \in {"send", "resolve"} /\ c.syn = stack[1].syn
  \/ /\ stack[1].at = "connect_look" /\ sockets[stack[1].slot].tcp_state = SYN_SENT
     /\ c = SendSyn(sockets[stack[1].slot])

Moves(pre, k) ==
  /\ Spliced(stack, stack', pre, k)
  /\ k = 2 => stack[1].at = "resolve" /\ stack[2].at = "sendto"
  /\ \A i \in 1 .. Len(pre) :
       /\ pre[i].at \in UserCalls =>
            i = Len(pre) /\ (stack = << >> \/ (k = 1 /\ stack[1].at \in UserCalls))
       /\ pre[i].at \in {"fin", "fin_sent", "icmp"} =>
            \/ k = 1 /\ stack[1].at = "fin"
            \/ pre[Len(pre)].at = "polled" /\ i < Len(pre)
       /\ pre[i].at = "polled" =>
            /\ i = Len(pre) /\ pre[i].cur = s_rx_cur /\ descs[s_rx_cur] # NoFrame
            /\ k = 1 /\ stack[1].at = "poll"
            /\ reentered' \/ Handling = {}
            /\ descs' = descs /\ s_rx_cur' = s_rx_cur
       /\ pre[i].at = "close" => stack = << >>
       /\ pre[i].at \notin Cuts
       /\ pre[i].at \in {"send", "resolve"} => stack = << >> \/ (k = 1 /\ SynFrom(pre[i]))

Moving == \E pre \in Seq(Calls), k \in 0 .. 2 : k <= Len(stack) /\ Moves(pre, k)

LEMMA MovingTyped == ASSUME Moving PROVE stack' \in Seq(Calls)
BY DEF Moving, Moves, Spliced

\* A call that goes on after others have returned.
Plain(f) == f.at \notin {"fin", "fin_sent", "icmp", "polled"} \cup Cuts
Goes(f) ==
  /\ f \in Calls
  /\ Plain(f) \/ (f.at = "fin_sent" /\ stack[1].at = "fin")
  /\ f.at \in UserCalls => stack[1].at \in UserCalls
  /\ f.at # "close"
  /\ f.at \in {"send", "resolve"} => SynFrom(f)

LEMMA Stays ==
  ASSUME stack \in Seq(Calls), UNCHANGED stack
  PROVE  Moving
<1>1. << >> \in Seq(Calls) /\ 0 \in 0 .. 2 /\ 0 <= Len(stack) /\ Len(<< >>) = 0 /\ 0 \in 0 .. Len(stack)
  OBVIOUS
<1>2. stack' = << >> \o SubSeq(stack, 0 + 1, Len(stack))
  OBVIOUS
<1>3. Spliced(stack, stack', << >>, 0)
  BY <1>1, <1>2, Splice
<1>4. Moves(<< >>, 0)
  BY <1>1, <1>3 DEF Moves
<1>5. QED
  BY <1>1, <1>4 DEF Moving

LEMMA Ends ==
  ASSUME stack \in Seq(Calls), stack # << >>, Return
  PROVE  Moving
<1>1. << >> \in Seq(Calls) /\ 1 \in 0 .. 2 /\ 1 <= Len(stack) /\ Len(<< >>) = 0
  OBVIOUS
<1>2. Spliced(stack, stack', << >>, 1)
  BY StackForms DEF Return
<1>3. Moves(<< >>, 1)
  BY <1>1, <1>2 DEF Moves
<1>4. QED
  BY <1>1, <1>3 DEF Moving

LEMMA GoesOn ==
  ASSUME stack \in Seq(Calls), stack # << >>, NEW f, Goes(f), Plain(f), Become(f)
  PROVE  Moving
<1>1. <<f>> \in Seq(Calls) /\ 1 \in 0 .. 2 /\ 1 <= Len(stack) /\ Len(<<f>>) = 1 /\ <<f>>[1] = f
  BY DEF Goes
<1>2. Spliced(stack, stack', <<f>>, 1)
  BY StackForms DEF Become, Goes
<1> DEFINE pre == <<f>>
<1> HIDE DEF pre
<1>3. /\ pre \in Seq(Calls) /\ Len(pre) = 1 /\ pre[1] = f /\ Spliced(stack, stack', pre, 1)
  BY <1>1, <1>2 DEF pre
<1>4. ASSUME NEW i \in 1 .. Len(pre) PROVE i = 1
  BY <1>3
<1>5. Moves(pre, 1)
  BY <1>3, <1>4 DEF Moves, Goes, Plain
<1>6. QED
  BY <1>1, <1>3, <1>5 DEF Moving

LEMMA CallsAnd ==
  ASSUME stack \in Seq(Calls), stack # << >>, NEW f, Goes(f), NEW g \in Calls, g.at \in {"poll", "send"},
         g.at = "send" => SynFrom(g), Call(<<g>>, f)
  PROVE  Moving
<1> DEFINE pre == <<g>> \o <<f>>
<1>1. <<g>> \in Seq(Calls) /\ f \in Calls /\ 1 \in 0 .. 2 /\ 1 <= Len(stack)
  BY DEF Goes
<1>2. pre \in Seq(Calls) /\ Len(pre) = 2 /\ pre[1] = g /\ pre[2] = f
  BY <1>1
<1>3. Spliced(stack, stack', pre, 1)
  BY <1>1, StackForms DEF Call
<1> HIDE DEF pre
<1>4. ASSUME NEW i \in 1 .. Len(pre) PROVE i = 1 \/ i = 2
  BY <1>2
<1>5. g.at \notin UserCalls /\ Plain(g)
  BY DEF UserCalls, Plain, Cuts
<1>6. Moves(pre, 1)
  <2>1. ASSUME NEW i \in 1 .. Len(pre)
        PROVE  /\ pre[i].at \in UserCalls => i = Len(pre) /\ stack[1].at \in UserCalls
               /\ pre[i].at \in {"fin", "fin_sent", "icmp"} => stack[1].at = "fin"
               /\ pre[i].at # "polled" /\ pre[i].at # "close" /\ pre[i].at \notin Cuts
               /\ pre[i].at \in {"send", "resolve"} => SynFrom(pre[i])
    BY <1>2, <1>4, <1>5 DEF Plain, Goes, Cuts
  <2>2. QED
    BY <1>3, <2>1 DEF Moves
<1>7. QED
  BY <1>1, <1>2, <1>6 DEF Moving

\* A call of the program.
LEMMA Begins ==
  ASSUME stack = << >>, NEW f \in Calls, f.at \in UserCalls, NEW g \in Calls, g.at = "send",
         stack' = <<f>> \/ stack' = <<g, f>>
  PROVE  Moving
<1>0. stack \in Seq(Calls) /\ Len(stack) = 0 /\ SubSeq(stack, 1, Len(stack)) = << >>
  OBVIOUS
<1>1. PICK pre \in Seq(Calls) : /\ stack' = pre
                                /\ \/ Len(pre) = 1 /\ pre[1] = f
                                   \/ Len(pre) = 2 /\ pre[1] = g /\ pre[2] = f
  <2>1. <<f>> \in Seq(Calls) /\ <<g, f>> \in Seq(Calls)
    OBVIOUS
  <2>2. Len(<<f>>) = 1 /\ <<f>>[1] = f /\ Len(<<g, f>>) = 2 /\ <<g, f>>[1] = g /\ <<g, f>>[2] = f
    OBVIOUS
  <2>3. QED
    BY <2>1, <2>2
<1>2. stack' = pre \o SubSeq(stack, 0 + 1, Len(stack)) /\ 0 \in 0 .. Len(stack)
  BY <1>0, <1>1
<1>3. Spliced(stack, stack', pre, 0)
  BY <1>0, <1>2, Splice
<1>4. g.at \notin UserCalls /\ Plain(g) /\ Plain(f)
  BY DEF UserCalls, Plain, Cuts
<1>5. ASSUME NEW i \in 1 .. Len(pre)
      PROVE  Plain(pre[i]) /\ (pre[i].at \in UserCalls => i = Len(pre))
  <2>1. CASE Len(pre) = 1 /\ pre[1] = f
    BY <1>4, <2>1
  <2>2. CASE Len(pre) = 2 /\ pre[1] = g /\ pre[2] = f
    <3>1. i = 1 \/ i = 2
      BY <2>2
    <3>2. QED
      BY <1>4, <2>2, <3>1
  <2>3. QED
    BY <1>1, <2>1, <2>2, Zenon
<1>6. Moves(pre, 0)
  BY <1>3, <1>5 DEF Moves, Plain
<1>7. QED
  BY <1>0, <1>6 DEF Moving

\* What a waiting call becomes.
LEMMA KindsOfCalls ==
  /\ \A c \in WaitCalls : c \in Calls
  /\ \A c \in SendtoCalls : c \in Calls
  /\ \A c \in ResolveCalls : c \in Calls
  /\ \A c \in RecvCalls : c \in Calls
  /\ \A c \in PollCalls : c \in Calls
BY Zenon DEF Calls, WholeCalls

LEMMA AgainWait ==
  ASSUME NEW c \in WaitCalls, NEW a \in {"connect", "connect_look", "accept", "accept_look"}
  PROVE  /\ [c EXCEPT !.at = a] \in Calls /\ [c EXCEPT !.at = a].at = a
         /\ [c EXCEPT !.at = a, !.timeout = @ - 1] \in Calls
         /\ [c EXCEPT !.at = a, !.timeout = @ - 1].at = a
<1>1. [c EXCEPT !.at = a] \in WaitCalls /\ [c EXCEPT !.at = a].at = a
  BY DEF WaitCalls
<1> DEFINE t == c.timeout - 1
           d == [c EXCEPT !.at = a, !.timeout = t]
<1>2. t \in Int
  BY DEF WaitCalls
<1> HIDE DEF t
<1>3. d \in WaitCalls /\ d.at = a
  BY <1>2 DEF WaitCalls
<1>4. [c EXCEPT !.at = a, !.timeout = @ - 1] = d
  BY Zenon DEF t
<1>5. QED
  BY <1>1, <1>3, <1>4, KindsOfCalls, Zenon

LEMMA AgainSend ==
  /\ \A c \in SendtoCalls : /\ [c EXCEPT !.left = @ - 1] \in Calls
                            /\ [c EXCEPT !.left = @ - 1].at = "sendto"
  /\ \A c \in ResolveCalls : /\ [c EXCEPT !.retry = @ - 1] \in Calls
                             /\ [c EXCEPT !.retry = @ - 1].at = "resolve"
<1>1. ASSUME NEW c \in SendtoCalls
      PROVE  [c EXCEPT !.left = @ - 1] \in SendtoCalls /\ [c EXCEPT !.left = @ - 1].at = "sendto"
  BY DEF SendtoCalls
<1>2. ASSUME NEW c \in ResolveCalls
      PROVE  [c EXCEPT !.retry = @ - 1] \in ResolveCalls /\ [c EXCEPT !.retry = @ - 1].at = "resolve"
  BY DEF ResolveCalls
<1>3. QED
  BY <1>1, <1>2, KindsOfCalls, Zenon

LEMMA AgainRecv ==
  ASSUME NEW c \in RecvCalls, NEW a \in {"recv", "recv_look"}, NEW t \in Int
  PROVE  /\ [c EXCEPT !.at = a, !.timeout = t] \in Calls /\ [c EXCEPT !.at = a, !.timeout = t].at = a
         /\ [c EXCEPT !.at = a] \in Calls /\ [c EXCEPT !.at = a].at = a
<1>1. /\ [c EXCEPT !.at = a, !.timeout = t] \in RecvCalls /\ [c EXCEPT !.at = a, !.timeout = t].at = a
      /\ [c EXCEPT !.at = a] \in RecvCalls /\ [c EXCEPT !.at = a].at = a
  BY DEF RecvCalls
<1>2. QED
  BY <1>1, KindsOfCalls, Zenon

LEMMA AgainPoll ==
  ASSUME NEW c \in PollCalls, NEW a \in {"poll_look", "poll_wait"}
  PROVE  /\ [c EXCEPT !.at = a] \in Calls /\ [c EXCEPT !.at = a].at = a
         /\ [c EXCEPT !.at = a, !.timeout = @ - 1, !.sti = TRUE] \in Calls
         /\ [c EXCEPT !.at = a, !.timeout = @ - 1, !.sti = TRUE].at = a
<1>1. [c EXCEPT !.at = a] \in PollCalls /\ [c EXCEPT !.at = a].at = a
  BY DEF PollCalls
<1> DEFINE t == c.timeout - 1
           d == [c EXCEPT !.at = a, !.timeout = t, !.sti = TRUE]
<1>2. t \in Int /\ TRUE \in BOOLEAN
  BY DEF PollCalls
<1> HIDE DEF t
<1>3. d \in PollCalls /\ d.at = a
  BY <1>2 DEF PollCalls
<1>4. [c EXCEPT !.at = a, !.timeout = @ - 1, !.sti = TRUE] = d
  BY Zenon DEF t
<1>5. QED
  BY <1>1, <1>3, <1>4, KindsOfCalls, Zenon

---------------------------------------------------------------------------
(* Types are kept *)

LEMMA SameTables ==
  ASSUME TablesTyped,
         UNCHANGED <<arp_table, descs, bufs, s_rx_cur, rdh, rdt, syns, flow, types, fds, s_ephemeral_port,
                     made, conns, ports>>
  PROVE  TablesTyped'
BY Zenon DEF TablesTyped

LEMMA StepTables ==
  ASSUME TablesTyped, SocketStep
  PROVE  TablesTyped'
BY SameTables DEF SocketStep, cardVars, hostVars, userVars

LEMMA TopFacts ==
  ASSUME NetTyped, stack # << >>
  PROVE  /\ Top \in Calls /\ Top = stack[1] /\ stack \in Seq(Calls)
         /\ Len(stack) \in Nat /\ Len(stack) >= 1
         /\ Top.at = "send" => Top \in SendCalls
         /\ Top.at = "resolve" => Top \in ResolveCalls
         /\ Top.at = "polled" => Top \in PolledCalls
         /\ Top.at = "sendto" => Top \in SendtoCalls
         /\ Top.at \in {"recv", "recv_look"} => Top \in RecvCalls
         /\ Top.at \in {"poll_look", "poll_wait"} => Top \in PollCalls
         /\ Top.at \in {"connect", "connect_look", "accept", "accept_look"} => Top \in WaitCalls
         /\ Top.at = "close" => Top \in CloseCalls
         /\ Top.at \in {"fin", "fin_sent"} => Top \in FinCalls
         /\ Top.at = "icmp" => Top \in IcmpCalls
<1>1. /\ Top \in Calls /\ Top = stack[1] /\ stack \in Seq(Calls)
      /\ Len(stack) \in Nat /\ Len(stack) >= 1
  BY StackForms DEF NetTyped, Top
<1>2. QED
  BY <1>1, CallKinds

LEMMA TopSlot ==
  ASSUME NetTyped, stack # << >>,
         Top.at \in {"recv", "recv_look", "poll_look", "poll_wait", "connect", "connect_look", "accept",
                     "accept_look", "close", "fin", "fin_sent"}
  PROVE  Top.slot \in Slot /\ sockets[Top.slot] \in GoodSocks
<1>1. Top.slot \in Slot
  <2>1. Top \in RecvCalls \cup PollCalls \cup WaitCalls \cup CloseCalls \cup FinCalls
    BY TopFacts
  <2>2. QED
    BY <2>1 DEF RecvCalls, PollCalls, WaitCalls, CloseCalls, FinCalls
<1>2. QED
  BY <1>1 DEF NetTyped

\* A step that sets one slot and the stack.
LEMMA SlotStep ==
  ASSUME NetTyped, SocketStep, Moving, NEW i \in Slot, NEW t \in GoodSocks,
         sockets' = sockets \/ sockets' = [sockets EXCEPT ![i] = t]
  PROVE  NetTyped'
<1>1. TablesTyped' /\ stack' \in Seq(Calls)
  BY StepTables, MovingTyped DEF NetTyped
<1>2. sockets' \in [Slot -> GoodSocks]
  BY DEF NetTyped
<1>3. QED
  BY <1>1, <1>2 DEF NetTyped

LEMMA StackStep ==
  ASSUME NetTyped, SocketStep, Moving, UNCHANGED sockets
  PROVE  NetTyped'
<1>1. TablesTyped' /\ stack' \in Seq(Calls)
  BY StepTables, MovingTyped DEF NetTyped
<1>2. QED
  BY <1>1 DEF NetTyped

LEMMA EndStep ==
  ASSUME NetTyped, stack # << >>, Return, SocketStep, UNCHANGED sockets
  PROVE  Moving /\ NetTyped'
<1>1. Moving
  BY Ends DEF NetTyped
<1>2. QED
  BY <1>1, StackStep

LEMMA GoStep ==
  ASSUME NetTyped, stack # << >>, NEW f \in Calls, f.at \in UserCalls \ {"close"}, Top.at \in UserCalls,
         Become(f) \/ Call(<<Poll>>, f), SocketStep, UNCHANGED sockets
  PROVE  Moving /\ NetTyped'
<1>1. Goes(f) /\ Plain(f)
  BY TopFacts DEF Goes, Plain, UserCalls, Cuts
<1>2. Poll \in Calls /\ Poll.at = "poll"
  BY MadeCalls DEF Poll
<1>3. Moving
  BY <1>1, <1>2, GoesOn, CallsAnd DEF NetTyped
<1>4. QED
  BY <1>3, StackStep

LEMMA ReturnsTyped ==
  ASSUME NetTyped, IrqReturn
  PROVE  Moving /\ NetTyped'
BY EndStep DEF IrqReturn, At

LEMMA AcceptWaitsTyped ==
  ASSUME NetTyped, AcceptWaits
  PROVE  Moving /\ NetTyped'
<1>1. stack # << >> /\ Top.at \in {"accept", "accept_look"} /\ SocketStep /\ UNCHANGED sockets
  BY DEF AcceptWaits, At
<1>2. Top \in WaitCalls /\ Top.at \in UserCalls
  BY <1>1, TopFacts DEF UserCalls
<1> DEFINE f == [Top EXCEPT !.at = "accept_look"]
           g == [Top EXCEPT !.at = "accept", !.timeout = @ - 1]
<1>3. f \in Calls /\ f.at = "accept_look" /\ g \in Calls /\ g.at = "accept"
  BY <1>2, AgainWait
<1>4. Return \/ Call(<<Poll>>, f) \/ Become(g)
  BY DEF AcceptWaits
<1> HIDE DEF f, g
<1>5. f.at \in UserCalls \ {"close"} /\ g.at \in UserCalls \ {"close"}
  BY <1>3 DEF UserCalls
<1>6. QED
  BY <1>1, <1>2, <1>3, <1>4, <1>5, EndStep, GoStep

LEMMA RecvLooksTyped ==
  ASSUME NetTyped, RecvLooks
  PROVE  Moving /\ NetTyped'
<1>1. stack # << >> /\ Top.at = "recv_look" /\ SocketStep /\ UNCHANGED sockets
  BY DEF RecvLooks, At
<1>2. Top \in RecvCalls /\ Top.at \in UserCalls
  BY <1>1, TopFacts DEF UserCalls
<1> DEFINE e == Empty(sockets[Top.slot])
           t == IF e THEN Top.timeout - 1 ELSE Top.timeout
           f == [Top EXCEPT !.at = "recv", !.timeout = t]
<1>3. Return \/ Become(f)
  BY Zenon DEF RecvLooks
<1> HIDE DEF e
<1>4. t \in Int
  BY <1>2 DEF RecvCalls
<1> HIDE DEF t
<1>5. f \in Calls /\ f.at = "recv"
  BY <1>2, <1>4, AgainRecv
<1> HIDE DEF f
<1>6. f.at \in UserCalls \ {"close"}
  BY <1>5 DEF UserCalls
<1>7. QED
  BY <1>1, <1>2, <1>3, <1>5, <1>6, EndStep, GoStep

LEMMA SysPollWaitsTyped ==
  ASSUME NetTyped, SysPollWaits
  PROVE  Moving /\ NetTyped'
<1>1. stack # << >> /\ Top.at \in {"poll_look", "poll_wait"} /\ SocketStep /\ UNCHANGED sockets
  BY DEF SysPollWaits, At
<1>2. Top \in PollCalls /\ Top.at \in UserCalls
  BY <1>1, TopFacts DEF UserCalls
<1> DEFINE f == [Top EXCEPT !.at = "poll_wait"]
           g == [Top EXCEPT !.at = "poll_look", !.timeout = @ - 1, !.sti = TRUE]
<1>3. f \in Calls /\ f.at = "poll_wait" /\ g \in Calls /\ g.at = "poll_look"
  BY <1>2, AgainPoll
<1>4. Return \/ Call(<<Poll>>, f) \/ Become(g)
  BY Zenon DEF SysPollWaits
<1> HIDE DEF f, g
<1>5. f.at \in UserCalls \ {"close"} /\ g.at \in UserCalls \ {"close"}
  BY <1>3 DEF UserCalls
<1>6. QED
  BY <1>1, <1>2, <1>3, <1>4, <1>5, EndStep, GoStep

LEMMA SendtoChunkTyped ==
  ASSUME NetTyped, SendtoChunk
  PROVE  Moving /\ NetTyped'
<1>1. stack # << >> /\ Top.at = "sendto" /\ SocketStep /\ UNCHANGED sockets
  BY DEF SendtoChunk, At
<1>2. Top \in SendtoCalls /\ Top.at \in UserCalls
  BY <1>1, TopFacts DEF UserCalls
<1> DEFINE f == [Top EXCEPT !.left = @ - 1]
           g == Send(Top.ip)
<1>3. f \in Calls /\ f.at = "sendto"
  BY <1>2, AgainSend
<1>4. g \in Calls /\ g.at = "send" /\ g.syn = << >>
  BY <1>2, MadeCalls DEF SendtoCalls, Send
<1>5. Return \/ Call(<<g>>, f)
  BY DEF SendtoChunk
<1> HIDE DEF f, g
<1>6. CASE Return
  BY <1>1, <1>6, EndStep
<1>7. CASE Call(<<g>>, f)
  <2>1. Goes(f)
    BY <1>2, <1>3, TopFacts, <1>1 DEF Goes, Plain, UserCalls, Cuts
  <2>2. Moving
    BY <1>1, <1>4, <1>7, <2>1, CallsAnd DEF NetTyped, SynFrom
  <2>3. QED
    BY <1>1, <2>2, StackStep
<1>8. QED
  BY <1>5, <1>6, <1>7

LEMMA RecvWaitsTyped ==
  ASSUME NetTyped, RecvWaits
  PROVE  Moving /\ NetTyped'
<1>1. stack # << >> /\ Top.at = "recv" /\ SocketStep
  BY DEF RecvWaits, At
<1>2. Top \in RecvCalls /\ Top.at \in UserCalls /\ Top.slot \in Slot /\ sockets[Top.slot] \in GoodSocks
  BY <1>1, TopFacts, TopSlot DEF UserCalls
<1> DEFINE f == [Top EXCEPT !.at = "recv_look"]
<1>3. f \in Calls /\ f.at = "recv_look"
  <2>1. 0 \in Int /\ "recv_look" \in {"recv", "recv_look"}
    OBVIOUS
  <2>2. QED
    BY <1>2, <2>1, AgainRecv
<1>4. f.at \in UserCalls \ {"close"}
  BY <1>3 DEF UserCalls
<1> DEFINE t == received(sockets[Top.slot], Top.n)
<1>5. \/ ~Empty(sockets[Top.slot]) /\ sockets' = [sockets EXCEPT ![Top.slot] = t] /\ Return
      \/ UNCHANGED sockets /\ (Return \/ Call(<<Poll>>, f))
  BY DEF RecvWaits
<1>6. CASE ~Empty(sockets[Top.slot]) /\ sockets' = [sockets EXCEPT ![Top.slot] = t] /\ Return
  <2>1. Top.n \in Nat
    BY <1>2 DEF RecvCalls
  <2>2. t \in GoodSocks
    BY <1>2, <1>6, <2>1, ReceivedGood
  <2> HIDE DEF t
  <2>3. Moving
    BY <1>1, <1>6, Ends DEF NetTyped
  <2>4. QED
    BY <1>1, <1>2, <1>6, <2>2, <2>3, SlotStep
<1> HIDE DEF f, t
<1>7. CASE UNCHANGED sockets /\ (Return \/ Call(<<Poll>>, f))
  BY <1>1, <1>2, <1>3, <1>4, <1>7, EndStep, GoStep
<1>8. QED
  BY <1>5, <1>6, <1>7

LEMMA ConnectLooksTyped ==
  ASSUME NetTyped, ConnectLooks
  PROVE  Moving /\ NetTyped'
<1>1. stack # << >> /\ Top.at = "connect_look" /\ SocketStep /\ UNCHANGED sockets
  BY DEF ConnectLooks, At
<1>2. Top \in WaitCalls /\ Top.at \in UserCalls /\ Top.slot \in Slot /\ sockets[Top.slot] \in GoodSocks
  BY <1>1, TopFacts, TopSlot DEF UserCalls
<1> DEFINE f == [Top EXCEPT !.at = "connect", !.timeout = @ - 1]
           g == SendSyn(sockets[Top.slot])
<1>3. f \in Calls /\ f.at = "connect"
  BY <1>2, AgainWait
<1>4. f.at \in UserCalls \ {"close"}
  BY <1>3 DEF UserCalls
<1>5. \/ Return
      \/ sockets[Top.slot].tcp_state = SYN_SENT /\ Call(<<g>>, f)
      \/ Become(f)
  BY Zenon DEF ConnectLooks
<1>6. CASE sockets[Top.slot].tcp_state = SYN_SENT /\ Call(<<g>>, f)
  <2>1. g \in Calls /\ g.at = "send"
    BY <1>2, <1>6, MadeCalls DEF SendSyn
  <2>5. SynFrom(g)
    BY <1>1, <1>6, TopFacts DEF SynFrom
  <2> HIDE DEF f, g
  <2>2. Goes(f)
    BY <1>1, <1>2, <1>3, TopFacts DEF Goes, Plain, UserCalls, Cuts
  <2>3. Moving
    BY <1>1, <1>6, <2>1, <2>2, <2>5, CallsAnd DEF NetTyped
  <2>4. QED
    BY <1>1, <2>3, StackStep
<1> HIDE DEF f, g
<1>7. CASE Return \/ Become(f)
  BY <1>1, <1>2, <1>3, <1>4, <1>7, EndStep, GoStep
<1>8. QED
  BY <1>5, <1>6, <1>7

LEMMA ConnectWaitsTyped ==
  ASSUME NetTyped, ConnectWaits
  PROVE  Moving /\ NetTyped'
<1>1. stack # << >> /\ Top.at = "connect" /\ SocketStep
  BY DEF ConnectWaits, At
<1>2. Top \in WaitCalls /\ Top.at \in UserCalls /\ Top.slot \in Slot /\ sockets[Top.slot] \in GoodSocks
  BY <1>1, TopFacts, TopSlot DEF UserCalls
<1> DEFINE f == [Top EXCEPT !.at = "connect_look"]
           t == timed_out(sockets[Top.slot])
<1>3. f \in Calls /\ f.at = "connect_look"
  BY <1>2, AgainWait
<1>4. f.at \in UserCalls \ {"close"}
  BY <1>3 DEF UserCalls
<1>5. t \in GoodSocks
  BY <1>2, TimedOutGood
<1>6. \/ Call(<<Poll>>, f) /\ UNCHANGED sockets
      \/ Return /\ (sockets' = sockets \/ sockets' = [sockets EXCEPT ![Top.slot] = t])
  BY Zenon DEF ConnectWaits
<1> HIDE DEF f, t
<1>7. CASE Call(<<Poll>>, f) /\ UNCHANGED sockets
  BY <1>1, <1>2, <1>3, <1>4, <1>7, GoStep
<1>8. CASE Return /\ (sockets' = sockets \/ sockets' = [sockets EXCEPT ![Top.slot] = t])
  <2>1. Moving
    BY <1>1, <1>8, Ends DEF NetTyped
  <2>2. QED
    BY <1>1, <1>2, <1>5, <1>8, <2>1, SlotStep
<1>9. QED
  BY <1>6, <1>7, <1>8

LEMMA ClosedTyped ==
  ASSUME NetTyped, Closed
  PROVE  Moving /\ NetTyped'
<1>1. stack # << >> /\ Top.at = "close" /\ SocketStep /\ Return
  BY DEF Closed, At
<1>2. Top.slot \in Slot /\ sockets[Top.slot] \in GoodSocks
  BY <1>1, TopSlot
<1> DEFINE t == sock_close(sockets[Top.slot], Top.fin)
<1>3. sockets' = [sockets EXCEPT ![Top.slot] = t]
  BY DEF Closed
<1>4. t \in GoodSocks
  BY <1>2, CloseGood
<1> HIDE DEF t
<1>5. Moving
  BY <1>1, Ends DEF NetTyped
<1>6. QED
  BY <1>1, <1>2, <1>3, <1>4, <1>5, SlotStep

LEMMA FinSentTyped ==
  ASSUME NetTyped, FinSent
  PROVE  Moving /\ NetTyped'
<1>1. stack # << >> /\ Top.at = "fin_sent" /\ SocketStep /\ Return
  BY DEF FinSent, At
<1>2. Top.slot \in Slot /\ sockets[Top.slot] \in GoodSocks
  BY <1>1, TopSlot
<1> DEFINE t == fin_state(sockets[Top.slot])
<1>3. sockets' = [sockets EXCEPT ![Top.slot] = t]
  BY DEF FinSent
<1>4. t \in GoodSocks
  BY <1>2, FinGood
<1> HIDE DEF t
<1>5. Moving
  BY <1>1, Ends DEF NetTyped
<1>6. QED
  BY <1>1, <1>2, <1>3, <1>4, <1>5, SlotStep

LEMMA FinInputTyped ==
  ASSUME NetTyped, FinInput
  PROVE  Moving /\ NetTyped'
<1>1. stack # << >> /\ Top.at = "fin" /\ SocketStep
  BY DEF FinInput, At
<1>2. Top.slot \in Slot /\ sockets[Top.slot] \in GoodSocks
  BY <1>1, TopSlot
<1> DEFINE t == fin_input(sockets[Top.slot])
           g == Send(sockets[Top.slot].remote_ip)
           f == [at |-> "fin_sent", slot |-> Top.slot]
<1>3. sockets' = [sockets EXCEPT ![Top.slot] = t] /\ Call(<<g>>, f)
  BY DEF FinInput
<1>4. t \in GoodSocks
  BY <1>2, FinGood
<1>5. g \in Calls /\ g.at = "send" /\ g.syn = << >>
  BY <1>2, MadeCalls, GoodFact DEF Send
<1>6. f \in Calls /\ f.at = "fin_sent"
  BY <1>2, MadeCalls
<1> HIDE DEF t, g, f
<1>7. Goes(f)
  BY <1>1, <1>6, TopFacts DEF Goes, UserCalls
<1>8. Moving
  BY <1>1, <1>3, <1>5, <1>7, CallsAnd DEF NetTyped, SynFrom
<1>9. QED
  BY <1>1, <1>2, <1>3, <1>4, <1>8, SlotStep

LEMMA IcmpInputTyped ==
  ASSUME NetTyped, IcmpInput
  PROVE  Moving /\ NetTyped'
<1>1. /\ stack # << >> /\ SocketStep /\ Return
      /\ sockets' = socket_icmp_input(sockets, Top.from, MAX_SOCKETS)
  BY DEF IcmpInput, At
<1>2. \A i \in Slot : queued(sockets[i]) \in GoodSocks /\ sockets[i] \in GoodSocks
  BY QueuedGood DEF NetTyped
<1>3. sockets' \in [Slot -> GoodSocks]
  BY <1>1, <1>2 DEF socket_icmp_input
<1>4. Moving
  BY <1>1, Ends DEF NetTyped
<1>5. QED
  BY <1>1, <1>3, <1>4, StepTables, MovingTyped DEF NetTyped

\* What goes out may be a SYN.
LEMMA TransmitTyped ==
  ASSUME syns \subseteq Syns, NEW x, x \in Syns \cup {<< >>}, Transmit(x)
  PROVE  syns' \subseteq Syns
BY DEF Transmit

LEMMA SynsTables ==
  ASSUME TablesTyped, syns' \subseteq Syns,
         UNCHANGED <<arp_table, descs, bufs, s_rx_cur, rdh, rdt, flow, types, fds, s_ephemeral_port,
                     made, conns, ports>>
  PROVE  TablesTyped'
BY Zenon DEF TablesTyped

LEMMA SendPacketTyped ==
  ASSUME NetTyped, SendPacket
  PROVE  Moving /\ NetTyped'
<1>1. /\ stack # << >> /\ Top.at = "send" /\ UNCHANGED sockets
      /\ UNCHANGED <<arp_table, descs, bufs, s_rx_cur, rdh, rdt, flow, types, fds, s_ephemeral_port,
                     made, conns, ports>>
  BY DEF SendPacket, At, cardVars, userVars
<1>2. Top \in SendCalls
  BY <1>1, TopFacts
<1> DEFINE f == [at |-> "resolve", ip |-> Top.ip, syn |-> Top.syn, retry |-> ARP_RETRIES]
<1>3. f \in Calls /\ f.at = "resolve" /\ f.syn = Top.syn
  <2>1. f \in ResolveCalls
    BY <1>2, NetAssumption DEF SendCalls, ResolveCalls
  <2>2. QED
    BY <2>1, KindsOfCalls
<1>4. (Transmit(Top.syn) /\ Return) \/ (Become(f) /\ UNCHANGED syns)
  BY DEF SendPacket
<1> HIDE DEF f
<1>5. syns' \subseteq Syns
  <2>1. syns \subseteq Syns
    BY DEF NetTyped, TablesTyped
  <2>2. Top.syn \in Syns \cup {<< >>}
    BY <1>2 DEF SendCalls
  <2>3. QED
    BY <1>4, <2>1, <2>2, TransmitTyped
<1>6. Moving
  <2>1. Goes(f) /\ Plain(f)
    BY <1>1, <1>3, TopFacts DEF Goes, Plain, UserCalls, Cuts, SynFrom
  <2>2. QED
    BY <1>1, <1>4, <2>1, Ends, GoesOn DEF NetTyped
<1>7. TablesTyped' /\ stack' \in Seq(Calls)
  BY <1>1, <1>5, <1>6, SynsTables, MovingTyped DEF NetTyped
<1>8. QED
  BY <1>1, <1>6, <1>7 DEF NetTyped

LEMMA GivesUp ==
  ASSUME NetTyped, stack # << >>, Top.at = "resolve",
         stack' = SubSeq(stack, IF Len(stack) > 1 /\ stack[2].at = "sendto" THEN 3 ELSE 2, Len(stack))
  PROVE  Moving
<1>0. stack \in Seq(Calls) /\ stack[1].at = "resolve" /\ Len(stack) \in Nat /\ Len(stack) >= 1
  BY TopFacts
<1>1. PICK k \in 1 .. 2 : /\ stack' = SubSeq(stack, k + 1, Len(stack)) /\ k <= Len(stack)
                          /\ k = 2 => stack[2].at = "sendto"
  <2>1. CASE Len(stack) > 1 /\ stack[2].at = "sendto"
    <3>1. stack' = SubSeq(stack, 2 + 1, Len(stack)) /\ 2 <= Len(stack) /\ 2 \in 1 .. 2
      BY <1>0, <2>1
    <3>2. QED
      BY <2>1, <3>1
  <2>2. CASE ~(Len(stack) > 1 /\ stack[2].at = "sendto")
    <3>1. stack' = SubSeq(stack, 1 + 1, Len(stack)) /\ 1 <= Len(stack) /\ 1 \in 1 .. 2 /\ 1 # 2
      BY <1>0, <2>2
    <3>2. QED
      BY <3>1
  <2>3. QED
    BY <2>1, <2>2
<1>2. k \in 0 .. Len(stack) /\ k \in 0 .. 2
  BY <1>0, <1>1
<1>3. << >> \in Seq(Calls) /\ Len(<< >>) = 0
  OBVIOUS
<1>4. stack' = << >> \o SubSeq(stack, k + 1, Len(stack))
  BY <1>0, <1>1, <1>2
<1>5. Spliced(stack, stack', << >>, k)
  BY <1>0, <1>2, <1>3, <1>4, Splice
<1>6. Moves(<< >>, k)
  BY <1>0, <1>1, <1>3, <1>5 DEF Moves
<1>7. QED
  BY <1>1, <1>2, <1>3, <1>6 DEF Moving

LEMMA ResolveTyped ==
  ASSUME NetTyped, Resolve
  PROVE  Moving /\ NetTyped'
<1>1. /\ stack # << >> /\ Top.at = "resolve" /\ UNCHANGED sockets
      /\ UNCHANGED <<arp_table, descs, bufs, s_rx_cur, rdh, rdt, flow, types, fds, s_ephemeral_port,
                     made, conns, ports>>
  BY DEF Resolve, At, cardVars, userVars
<1>2. Top \in ResolveCalls
  BY <1>1, TopFacts
<1> DEFINE f == [Top EXCEPT !.retry = @ - 1]
           n == IF Len(stack) > 1 /\ stack[2].at = "sendto" THEN 3 ELSE 2
<1>3. f \in Calls /\ f.at = "resolve" /\ f.syn = Top.syn
  BY <1>2, AgainSend DEF ResolveCalls
<1>4. \/ Transmit(Top.syn) /\ Return
      \/ Call(<<Poll>>, f) /\ UNCHANGED syns
      \/ stack' = SubSeq(stack, n, Len(stack)) /\ UNCHANGED syns
  BY Zenon DEF Resolve
<1> HIDE DEF f
<1>5. syns' \subseteq Syns
  <2>1. syns \subseteq Syns
    BY DEF NetTyped, TablesTyped
  <2>2. Top.syn \in Syns \cup {<< >>}
    BY <1>2 DEF ResolveCalls
  <2>3. (Transmit(Top.syn)) \/ UNCHANGED syns
    BY <1>4
  <2>4. QED
    BY <2>1, <2>2, <2>3, TransmitTyped
<1>6. Moving
  <2>1. Goes(f)
    BY <1>1, <1>3, TopFacts DEF Goes, Plain, UserCalls, Cuts, SynFrom
  <2>2. Poll \in Calls /\ Poll.at = "poll"
    BY MadeCalls DEF Poll
  <2>3. CASE Return
    BY <1>1, <2>3, Ends DEF NetTyped
  <2>4. CASE Call(<<Poll>>, f)
    BY <1>1, <2>1, <2>2, <2>4, CallsAnd DEF NetTyped
  <2>5. CASE stack' = SubSeq(stack, n, Len(stack))
    BY <1>1, <2>5, GivesUp
  <2>6. QED
    BY <1>4, <2>3, <2>4, <2>5
<1>7. TablesTyped' /\ stack' \in Seq(Calls)
  BY <1>1, <1>5, <1>6, SynsTables, MovingTyped DEF NetTyped
<1>8. QED
  BY <1>1, <1>6, <1>7 DEF NetTyped

\* The next place in the ring.
LEMMA NextDesc ==
  ASSUME NEW d \in Desc
  PROVE  /\ (d + 1) % NUM_RX_DESC \in Desc
         /\ (d + 1) % NUM_RX_DESC = IF d + 1 = NUM_RX_DESC THEN 0 ELSE d + 1
<1>1. NUM_RX_DESC \in Nat /\ NUM_RX_DESC > 1 /\ d \in Nat /\ d < NUM_RX_DESC
  BY Consts DEF Desc
<1>2. CASE d + 1 = NUM_RX_DESC
  BY <1>1, <1>2 DEF Desc
<1>3. CASE d + 1 < NUM_RX_DESC
  <2>1. (d + 1) % NUM_RX_DESC = d + 1
    BY <1>1, <1>3
  <2>2. QED
    BY <1>1, <1>3, <2>1 DEF Desc
<1>4. QED
  BY <1>1, <1>2, <1>3

LEMMA PolledRxTyped ==
  ASSUME NetTyped, PolledRx
  PROVE  Moving /\ NetTyped'
<1>1. /\ stack # << >> /\ Top.at = "polled" /\ UNCHANGED sockets /\ Become(Poll)
      /\ UNCHANGED <<arp_table, bufs, rdh, syns, flow, types, fds, s_ephemeral_port, made, conns, ports>>
      /\ descs' = [descs EXCEPT ![Top.cur] = NoFrame] /\ s_rx_cur' = (Top.cur + 1) % NUM_RX_DESC
      /\ rdt' = Top.cur
  BY DEF PolledRx, At, hostVars, userVars, new_tail
<1>2. Top.cur \in Desc
  BY <1>1, TopFacts DEF PolledCalls
<1>3. s_rx_cur' \in Desc /\ rdt' \in Desc
  BY <1>1, <1>2, NextDesc
<1>4. NoFrame \in Frames /\ descs \in [Desc -> Frames]
  BY Zenon DEF Frames, NetTyped, TablesTyped
<1>5. descs' \in [Desc -> Frames]
  BY <1>1, <1>2, <1>4
<1>6. TablesTyped'
  BY <1>1, <1>3, <1>5, Zenon DEF NetTyped, TablesTyped
<1>7. Moving
  <2>1. Goes(Poll) /\ Plain(Poll)
    BY MadeCalls DEF Goes, Plain, UserCalls, Cuts, Poll
  <2>2. QED
    BY <1>1, <2>1, GoesOn DEF NetTyped
<1>8. QED
  BY <1>1, <1>6, <1>7, MovingTyped DEF NetTyped

---------------------------------------------------------------------------
(* A packet is received *)

LEMMA FirstFact ==
  ASSUME NEW S \in SUBSET Nat, S # {}
  PROVE  First(S) \in S /\ \A j \in S : First(S) <= j
BY LeastExists DEF First

LEMMA TargetFact ==
  ASSUME NEW f, Matches(f)
  PROVE  /\ f.kind = "tcp" /\ Target(f) \in Slot
         /\ sockets[Target(f)].ref_count # 0 /\ sockets[Target(f)].type = STREAM
         /\ sockets[Target(f)].local_port = f.port
         /\ sockets[Target(f)].remote_ip \in {NoHost, f.from}
<1> DEFINE S == tcp_match(sockets, f)
<1>1. S \in SUBSET Slot /\ S # {} /\ f.kind = "tcp"
  BY DEF Matches, tcp_match
<1>2. S \in SUBSET Nat
  BY <1>1 DEF Slot
<1>3. Target(f) \in S
  <2> HIDE DEF S
  <2>1. First(S) \in S
    BY <1>1, <1>2, FirstFact
  <2>2. QED
    BY <2>1, Zenon DEF Target, S
<1>4. QED
  BY <1>1, <1>3 DEF tcp_match

LEMMA FrameKinds ==
  ASSUME NEW f \in Frames
  PROVE  /\ f.kind \in {"none", "arp", "udp", "icmp", "tcp"}
         /\ f.kind = "none" => f = NoFrame
         /\ f.kind = "arp" => f.from \in Neighbours
         /\ f.kind = "udp" => f.port \in Nat
         /\ f.kind = "icmp" => f.from \in Hosts
         /\ f.kind = "tcp" => f \in Segments
BY DEF Frames, NoFrame, Segments

\* The calls that a packet leads to.
RxCalls(f, cs) ==
  /\ cs \in Seq(Calls)
  /\ \A i \in 1 .. Len(cs) :
       \/ cs[i].at = "send" /\ cs[i].syn = << >>
       \/ cs[i].at = "icmp"
       \/ /\ cs[i].at = "fin" /\ Matches(f) /\ cs[i].slot = Target(f)
          /\ tcp_fin(sockets[Target(f)], f)
  /\ \A i, j \in 1 .. Len(cs) : cs[i].at = "fin" /\ cs[j].at = "fin" => i = j

LEMMA RxCallsFact ==
  ASSUME NetTyped, NEW f \in Frames
  PROVE  RxCalls(f, rx_calls(f))
<1>0. << >> \in Seq(Calls) /\ Len(<< >>) = 0
  OBVIOUS
<1>1. CASE f.kind = "icmp"
  <2> DEFINE g == Send(f.from)
             e == [at |-> "icmp", from |-> 1]
  <2>1. g \in Calls /\ g.at = "send" /\ g.syn = << >>
    BY <1>1, FrameKinds, MadeCalls DEF Send, Addresses
  <2>2. e \in Calls /\ e.at = "icmp"
    BY MadeCalls
  <2>4. ~Matches(f)
    BY <1>1 DEF Matches
  <2>3. rx_calls(f) = (IF f.echo THEN <<g>> ELSE << >>) \o <<e>>
    BY <1>1, <2>4, Zenon DEF rx_calls
  <2> HIDE DEF g, e
  <2>5. CASE f.echo
    <3> DEFINE cs == <<g>> \o <<e>>
    <3>1. cs \in Seq(Calls) /\ Len(cs) = 2 /\ cs[1] = g /\ cs[2] = e
      BY <2>1, <2>2
    <3>2. rx_calls(f) = cs
      BY <2>3, <2>5
    <3> HIDE DEF cs
    <3>3. \A i \in 1 .. Len(cs) : i = 1 \/ i = 2
      BY <3>1
    <3>4. QED
      BY <2>1, <2>2, <2>4, <3>1, <3>2, <3>3 DEF RxCalls
  <2>6. CASE ~f.echo
    <3> DEFINE cs == << >> \o <<e>>
    <3>1. cs \in Seq(Calls) /\ Len(cs) = 1 /\ cs[1] = e
      BY <2>2
    <3>2. rx_calls(f) = cs
      BY <2>3, <2>6
    <3> HIDE DEF cs
    <3>3. \A i \in 1 .. Len(cs) : i = 1
      BY <3>1
    <3>4. QED
      BY <2>2, <2>4, <3>1, <3>2, <3>3 DEF RxCalls
  <2>7. QED
    BY <2>5, <2>6
<1>2. CASE f.kind # "icmp" /\ ~Matches(f)
  <2>1. rx_calls(f) = << >>
    BY <1>2, Zenon DEF rx_calls
  <2>2. QED
    BY <1>0, <1>2, <2>1 DEF RxCalls
<1>3. CASE f.kind # "icmp" /\ Matches(f)
  <2> DEFINE t == Target(f)
             s == sockets[t]
             g == Send(s.remote_ip)
             e == [at |-> "fin", slot |-> t]
  <2>0. t \in Slot /\ s \in GoodSocks
    BY <1>3, TargetFact DEF NetTyped
  <2>1. g \in Calls /\ g.at = "send" /\ g.syn = << >>
    BY <2>0, GoodFact, MadeCalls DEF Send
  <2>2. e \in Calls /\ e.at = "fin" /\ e.slot = t
    BY <2>0, MadeCalls
  <2>3. rx_calls(f) = (IF tcp_acks(s, f) THEN <<g>> ELSE << >>)
                      \o (IF tcp_fin(s, f) THEN <<e>> ELSE << >>)
    BY <1>3, Zenon DEF rx_calls, tcp_calls
  <2> HIDE DEF g, e
  <2>4. CASE tcp_acks(s, f) /\ tcp_fin(s, f)
    <3> DEFINE cs == <<g>> \o <<e>>
    <3>1. cs \in Seq(Calls) /\ Len(cs) = 2 /\ cs[1] = g /\ cs[2] = e
      BY <2>1, <2>2
    <3>2. rx_calls(f) = cs
      BY <2>3, <2>4
    <3> HIDE DEF cs, t
    <3>3. (\A i \in 1 .. Len(cs) : i = 1 \/ i = 2) /\ 2 \in 1 .. Len(cs)
      BY <3>1
    <3>4. QED
      BY <1>3, <2>1, <2>2, <2>4, <3>1, <3>2, <3>3 DEF RxCalls, t
  <2>5. CASE tcp_acks(s, f) /\ ~tcp_fin(s, f)
    <3> DEFINE cs == <<g>> \o << >>
    <3>1. cs \in Seq(Calls) /\ Len(cs) = 1 /\ cs[1] = g
      BY <2>1
    <3>2. rx_calls(f) = cs
      BY <2>3, <2>5
    <3> HIDE DEF cs, t
    <3>3. \A i \in 1 .. Len(cs) : i = 1
      BY <3>1
    <3>4. QED
      BY <2>1, <2>5, <3>1, <3>2, <3>3 DEF RxCalls, t
  <2>6. CASE ~tcp_acks(s, f) /\ tcp_fin(s, f)
    <3> DEFINE cs == << >> \o <<e>>
    <3>1. cs \in Seq(Calls) /\ Len(cs) = 1 /\ cs[1] = e
      BY <2>2
    <3>2. rx_calls(f) = cs
      BY <2>3, <2>6
    <3> HIDE DEF cs, t
    <3>3. (\A i \in 1 .. Len(cs) : i = 1) /\ 1 \in 1 .. Len(cs)
      BY <3>1
    <3>4. QED
      BY <1>3, <2>2, <2>6, <3>1, <3>2, <3>3 DEF RxCalls, t
  <2>7. CASE ~tcp_acks(s, f) /\ ~tcp_fin(s, f)
    <3>1. rx_calls(f) = << >>
      BY <2>3, <2>7
    <3>2. QED
      BY <1>0, <2>7, <3>1 DEF RxCalls, t
  <2>8. QED
    BY <2>4, <2>5, <2>6, <2>7
<1>4. QED
  BY <1>1, <1>2, <1>3

LEMMA RxSockets ==
  ASSUME NetTyped, NEW f \in Frames
  PROVE  rx_sockets(f) \in [Slot -> GoodSocks]
<1>0. sockets \in [Slot -> GoodSocks]
  BY DEF NetTyped
<1>1. CASE f.kind = "udp"
  <2> DEFINE S == udp_match(sockets, f)
             i == First(S)
  <2>0. ~Matches(f)
    BY <1>1 DEF Matches
  <2>1. rx_sockets(f) = IF S = {} THEN sockets ELSE [sockets EXCEPT ![i] = queued(sockets[i])]
    BY <1>1, <2>0, Zenon DEF rx_sockets, socket_udp_input
  <2>2. S \in SUBSET Slot
    BY DEF udp_match
  <2> HIDE DEF S
  <2>3. S \in SUBSET Nat
    BY <2>2 DEF Slot
  <2>4. CASE S # {}
    <3>1. i \in Slot
      BY <2>2, <2>3, <2>4, FirstFact
    <3> HIDE DEF i
    <3>2. queued(sockets[i]) \in GoodSocks
      BY <1>0, <3>1, QueuedGood
    <3>3. QED
      BY <1>0, <2>1, <2>4, <3>1, <3>2
  <2>5. QED
    BY <1>0, <2>1, <2>4
<1>2. CASE f.kind # "udp" /\ Matches(f)
  <2> DEFINE i == Target(f)
             t == tcp_input(sockets[i], f)
  <2>1. i \in Slot /\ f \in Segments
    BY <1>2, TargetFact, FrameKinds
  <2>2. t \in GoodSocks
    BY <1>0, <2>1, TcpInputGood
  <2>3. rx_sockets(f) = [sockets EXCEPT ![i] = t]
    BY <1>2, Zenon DEF rx_sockets
  <2> HIDE DEF i, t
  <2>4. QED
    BY <1>0, <2>1, <2>2, <2>3
<1>3. CASE f.kind # "udp" /\ ~Matches(f)
  <2>1. rx_sockets(f) = sockets
    BY <1>3, Zenon DEF rx_sockets
  <2>2. QED
    BY <1>0, <2>1
<1>4. QED
  BY <1>1, <1>2, <1>3

\* An address enters the table once, and while there is room.
ArpOK(t) == t \in Seq(Neighbours) /\ Len(t) <= ARP_TABLE_SIZE
ArpOnce(t) == Cardinality(ToSet(t)) = Len(t)

LEMMA RxArp ==
  ASSUME NetTyped, NEW f \in Frames
  PROVE  ArpOK(rx_arp(f)) /\ (ArpOnce(arp_table) => ArpOnce(rx_arp(f)))
<1>0. ArpOK(arp_table)
  BY DEF NetTyped, TablesTyped, ArpOK
<1>1. CASE f.kind = "arp" /\ ~Cached(f.from) /\ Len(arp_table) # ARP_TABLE_SIZE
  <2> DEFINE h == f.from
             t == Append(arp_table, h)
  <2>1. h \in Neighbours /\ h \notin ToSet(arp_table)
    BY <1>1, FrameKinds DEF Cached
  <2>2. rx_arp(f) = t
    BY <1>1, Zenon DEF rx_arp, arp_add_entry
  <2>3. arp_table \in Seq(Neighbours) /\ Len(arp_table) \in Nat /\ Len(arp_table) <= ARP_TABLE_SIZE
    BY <1>0 DEF ArpOK
  <2> HIDE DEF h
  <2>4. t \in Seq(Neighbours) /\ Len(t) = Len(arp_table) + 1
    BY <2>1, <2>3
  <2>5. ToSet(t) = ToSet(arp_table) \cup {h}
    <3>1. /\ DOMAIN arp_table = 1 .. Len(arp_table) /\ DOMAIN t = 1 .. Len(arp_table) + 1
          /\ t[Len(arp_table) + 1] = h /\ \A i \in 1 .. Len(arp_table) : t[i] = arp_table[i]
      BY <2>3, <2>4
    <3> HIDE DEF t
    <3> DEFINE n == Len(arp_table)
    <3>2. n \in Nat /\ \A i \in 1 .. n + 1 : i = n + 1 \/ i \in 1 .. n
      BY <2>3
    <3>3. n + 1 \in 1 .. n + 1 /\ \A i \in 1 .. n : i \in 1 .. n + 1
      BY <2>3
    <3> HIDE DEF n
    <3>4. ASSUME NEW x \in ToSet(t) PROVE x \in ToSet(arp_table) \cup {h}
      BY <3>1, <3>2 DEF ToSet, n
    <3>5. ASSUME NEW x \in ToSet(arp_table) \cup {h} PROVE x \in ToSet(t)
      BY <3>1, <3>3 DEF ToSet, n
    <3>6. QED
      BY <3>4, <3>5
  <2>6. Cardinality(ToSet(arp_table) \cup {h}) = Cardinality(ToSet(arp_table)) + 1
    <3>1. IsFiniteSet(ToSet(arp_table))
      <4>1. arp_table \in Surjection(1 .. Len(arp_table), ToSet(arp_table))
        <5>1. DOMAIN arp_table = 1 .. Len(arp_table)
          BY <2>3
        <5>2. arp_table \in [1 .. Len(arp_table) -> ToSet(arp_table)]
          BY <2>3, <5>1 DEF ToSet
        <5>3. \A x \in ToSet(arp_table) : \E i \in 1 .. Len(arp_table) : arp_table[i] = x
          BY <5>1 DEF ToSet
        <5>4. QED
          BY <5>2, <5>3 DEF Surjection
      <4>2. IsFiniteSet(1 .. Len(arp_table))
        BY <2>3, FS_Interval
      <4>3. QED
        BY <4>1, <4>2, FS_Surjection
    <3>2. QED
      BY <2>1, <3>1, FS_AddElement
  <2> HIDE DEF t
  <2>7. QED
    BY <1>1, <2>2, <2>3, <2>4, <2>5, <2>6, Consts DEF ArpOK, ArpOnce
<1>2. CASE ~(f.kind = "arp" /\ ~Cached(f.from) /\ Len(arp_table) # ARP_TABLE_SIZE)
  <2>1. rx_arp(f) = arp_table
    BY <1>2, Zenon DEF rx_arp, arp_add_entry
  <2>2. QED
    BY <1>0, <2>1
<1>3. QED
  BY <1>1, <1>2

LEMMA ArpTables ==
  ASSUME TablesTyped, ArpOK(arp_table)',
         UNCHANGED <<descs, bufs, s_rx_cur, rdh, rdt, syns, flow, types, fds, s_ephemeral_port,
                     made, conns, ports>>
  PROVE  TablesTyped'
BY Zenon DEF TablesTyped, ArpOK

LEMMA PollRxMoves ==
  ASSUME NetTyped, stack # << >>, Top.at = "poll", descs[s_rx_cur] # NoFrame, NEW cs, RxCalls(descs[s_rx_cur], cs),
         Call(cs, [at |-> "polled", cur |-> s_rx_cur]), reentered' \/ Handling = {},
         UNCHANGED <<descs, s_rx_cur>>
  PROVE  Moving
<1> DEFINE p == [at |-> "polled", cur |-> s_rx_cur]
           pre == cs \o <<p>>
<1>1. s_rx_cur \in Desc /\ stack \in Seq(Calls) /\ stack[1].at = "poll"
  BY TopFacts DEF NetTyped, TablesTyped
<1>2. p \in Calls /\ p.at = "polled" /\ p.cur = s_rx_cur
  BY <1>1, MadeCalls
<1>3. cs \in Seq(Calls) /\ \A i \in 1 .. Len(cs) : /\ cs[i].at \in {"send", "icmp", "fin"}
                                                   /\ cs[i].at = "send" => cs[i].syn = << >>
  BY DEF RxCalls
<1>4. Spliced(stack, stack', pre, 1) /\ pre \in Seq(Calls) /\ 1 <= Len(stack)
  <2>1. stack' = cs \o <<p>> \o Tail(stack)
    BY DEF Call
  <2> HIDE DEF p
  <2>2. cs \in Seq(Calls)
    BY <1>3
  <2>3. QED
    BY <1>1, <1>2, <2>1, <2>2, StackForms
<1> HIDE DEF p
<1>5. /\ Len(cs) \in Nat /\ Len(pre) = Len(cs) + 1 /\ pre[Len(cs) + 1] = p
      /\ \A i \in 1 .. Len(cs) : pre[i] = cs[i]
  <2> DEFINE q == <<p>>
  <2>1. q \in Seq(Calls) /\ Len(q) = 1 /\ q[1] = p
    BY <1>2
  <2>2. cs \in Seq(Calls) /\ Len(cs) \in Nat
    BY <1>3
  <2> HIDE DEF q
  <2>3. pre = cs \o q
    BY DEF q
  <2>4. QED
    BY <2>1, <2>2, <2>3
<1> HIDE DEF pre
<1>6. ASSUME NEW i \in 1 .. Len(pre)
      PROVE  \/ /\ i < Len(pre) /\ pre[i].at \in {"send", "icmp", "fin"}
                /\ pre[i].at = "send" => pre[i].syn = << >>
             \/ i = Len(pre) /\ pre[i] = p
  <2>1. CASE i = Len(cs) + 1
    BY <1>5, <2>1
  <2>2. CASE i # Len(cs) + 1
    <3>1. i \in 1 .. Len(cs) /\ i < Len(pre)
      BY <1>5, <2>2
    <3>2. QED
      BY <1>3, <1>5, <3>1
  <2>3. QED
    BY <2>1, <2>2
<1>7. pre[Len(pre)] = p
  BY <1>5
<1>8. Moves(pre, 1)
  <2>1. ASSUME NEW i \in 1 .. Len(pre)
        PROVE  /\ pre[i].at \notin UserCalls
               /\ pre[i].at \in {"fin", "fin_sent", "icmp"} => i < Len(pre) /\ pre[Len(pre)].at = "polled"
               /\ pre[i].at = "polled" => i = Len(pre) /\ pre[i].cur = s_rx_cur
               /\ pre[i].at # "close" /\ pre[i].at \notin Cuts
               /\ pre[i].at \in {"send", "resolve"} => SynFrom(pre[i])
    BY <1>2, <1>6, <1>7 DEF UserCalls, SynFrom, Cuts
  <2>2. QED
    BY <1>1, <1>4, <2>1 DEF Moves
<1>9. QED
  BY <1>4, <1>8 DEF Moving

LEMMA PollRxTyped ==
  ASSUME NetTyped, PollRx
  PROVE  Moving /\ NetTyped'
<1> DEFINE f == descs[s_rx_cur]
<1>1. /\ stack # << >> /\ Top.at = "poll"
      /\ UNCHANGED <<descs, bufs, s_rx_cur, rdh, rdt, syns, flow, types, fds, s_ephemeral_port,
                     made, conns, ports>>
  BY DEF PollRx, At, cardVars, hostVars, userVars
<1>2. f \in Frames
  BY DEF NetTyped, TablesTyped
<1>3. CASE f = NoFrame
  <2>1. Return /\ UNCHANGED <<sockets, arp_table>>
    BY <1>3 DEF PollRx
  <2>2. Moving
    BY <1>1, <2>1, Ends DEF NetTyped
  <2>3. TablesTyped'
    BY <1>1, <2>1, SameTables DEF NetTyped
  <2>4. QED
    BY <2>1, <2>2, <2>3, MovingTyped DEF NetTyped
<1>4. CASE f # NoFrame
  <2>1. /\ Call(rx_calls(f), [at |-> "polled", cur |-> s_rx_cur])
        /\ sockets' = rx_sockets(f)
        /\ arp_table' = rx_arp(f)
        /\ reentered' = (reentered \/ Handling # {})
    BY <1>4 DEF PollRx
  <2>2. PICK cs : cs = rx_calls(f)
    OBVIOUS
  <2>3. RxCalls(f, cs)
    BY <1>2, <2>2, RxCallsFact
  <2>4. reentered' \/ Handling = {}
    BY <2>1, Zenon
  <2>5. Moving
    BY <1>1, <1>4, <2>1, <2>2, <2>3, <2>4, PollRxMoves
  <2>6. sockets' \in [Slot -> GoodSocks]
    BY <1>2, <2>1, RxSockets
  <2>7. ArpOK(arp_table)'
    <3>1. ArpOK(arp_table')
      BY <1>2, <2>1, RxArp
    <3>2. QED
      BY <3>1 DEF ArpOK
  <2>8. TablesTyped'
    BY <1>1, <2>7, ArpTables DEF NetTyped
  <2>9. QED
    BY <2>5, <2>6, <2>8, MovingTyped DEF NetTyped
<1>5. QED
  BY <1>3, <1>4

LEMMA IrqTyped ==
  ASSUME NetTyped, Irq
  PROVE  Moving /\ NetTyped'
<1>1. /\ stack' = <<Poll, [at |-> "irq"]>> \o stack /\ UNCHANGED sockets
      /\ UNCHANGED <<arp_table, descs, bufs, s_rx_cur, rdh, rdt, syns, flow, types, fds, s_ephemeral_port,
                     made, conns, ports>>
  BY DEF Irq, hostVars, userVars
<1> DEFINE e == [at |-> "irq"]
           pre == <<Poll, e>>
<1>2. Poll \in Calls /\ Poll.at = "poll" /\ e \in Calls /\ e.at = "irq" /\ stack \in Seq(Calls)
  BY MadeCalls DEF Poll, NetTyped
<1> HIDE DEF e
<1>3. pre \in Seq(Calls) /\ Len(pre) = 2 /\ pre[1] = Poll /\ pre[2] = e
  BY <1>2
<1>4. stack' = pre \o SubSeq(stack, 0 + 1, Len(stack)) /\ 0 \in 0 .. Len(stack) /\ 0 <= Len(stack)
  <2>1. SubSeq(stack, 0 + 1, Len(stack)) = stack
    BY <1>2
  <2>2. QED
    BY <1>1, <1>2, <2>1 DEF e
<1> HIDE DEF pre
<1>5. Spliced(stack, stack', pre, 0)
  BY <1>2, <1>3, <1>4, Splice
<1>6. ASSUME NEW i \in 1 .. Len(pre) PROVE pre[i].at \in {"poll", "irq"}
  <2>1. i = 1 \/ i = 2
    BY <1>3
  <2>2. QED
    BY <1>2, <1>3, <2>1
<1>7. Moves(pre, 0)
  BY <1>5, <1>6 DEF Moves, UserCalls, Cuts
<1>8. Moving
  BY <1>3, <1>4, <1>7 DEF Moving
<1>9. QED
  BY <1>1, <1>8, MovingTyped, SameTables DEF NetTyped

---------------------------------------------------------------------------
(* Calls of the program, packets and the whole *)

LEMMA HasFact ==
  ASSUME NetTyped, NEW fd \in 1 .. MAX_FDS, Has(fd)
  PROVE  /\ stack = << >> /\ fds[fd] \in Slot /\ Sock(fd) \in GoodSocks /\ Sock(fd) = sockets[fds[fd]]
<1>1. fds[fd] \in 0 .. MAX_SOCKETS /\ fds[fd] # 0 /\ stack = << >>
  BY DEF NetTyped, TablesTyped, Has, InUser
<1>2. fds[fd] \in Slot
  BY <1>1, Consts DEF Slot
<1>3. QED
  BY <1>1, <1>2 DEF Sock, NetTyped

LEMMA SomeSend == Send(NoHost) \in Calls /\ Send(NoHost).at = "send"
BY MadeCalls DEF Send, Addresses

LEMMA TwoCalls ==
  ASSUME NEW g \in Calls, NEW f \in Calls
  PROVE  <<g>> \o <<f>> = <<g, f>>
<1> DEFINE a == <<g>> \o <<f>>
           b == <<g, f>>
<1>1. <<g>> \in Seq(Calls) /\ <<f>> \in Seq(Calls) /\ b \in Seq(Calls) /\ Len(b) = 2
  OBVIOUS
<1>2. a \in Seq(Calls) /\ Len(a) = 2 /\ a[1] = g /\ a[2] = f
  OBVIOUS
<1>3. b[1] = g /\ b[2] = f
  OBVIOUS
<1> HIDE DEF a, b
<1>4. \A i \in 1 .. 2 : i = 1 \/ i = 2
  OBVIOUS
<1>5. \A i \in 1 .. Len(a) : a[i] = b[i]
  BY <1>1, <1>2, <1>3, <1>4
<1>6. a = b
  BY <1>1, <1>2, <1>5, SeqEqual
<1>7. QED
  BY <1>6 DEF a, b

\* A call that begins with nothing but a stack.
LEMMA BeginStep ==
  ASSUME NetTyped, stack = << >>, NEW f \in Calls, f.at \in UserCalls, stack' = <<f>>, SocketStep,
         UNCHANGED sockets
  PROVE  Moving /\ NetTyped'
<1>1. Moving
  BY SomeSend, Begins
<1>2. QED
  BY <1>1, StackStep

LEMMA AcceptTyped ==
  ASSUME NetTyped, NEW fd \in 1 .. MAX_FDS, Accept(fd)
  PROVE  Moving /\ NetTyped'
<1> DEFINE f == [at |-> "accept", slot |-> fds[fd], timeout |-> WAIT_POLLS]
<1>1. stack = << >> /\ fds[fd] \in Slot
  BY HasFact DEF Accept
<1>2. f \in WaitCalls
  BY <1>1, NetAssumption DEF WaitCalls
<1>3. f \in Calls /\ f.at \in UserCalls
  BY <1>2, KindsOfCalls DEF UserCalls
<1>4. stack' = <<f>> /\ SocketStep /\ UNCHANGED sockets
  BY DEF Accept
<1> HIDE DEF f
<1>5. QED
  BY <1>1, <1>3, <1>4, BeginStep

LEMMA SendtoTyped ==
  ASSUME NetTyped, NEW fd \in 1 .. MAX_FDS, NEW ip \in Hosts \cup {NoHost}, NEW n \in Chunks, Sendto(fd, ip, n)
  PROVE  Moving /\ NetTyped'
<1> DEFINE s == Sock(fd)
           to == IF s.type = STREAM \/ ip = NoHost THEN s.remote_ip ELSE ip
           left == IF s.type = STREAM THEN n ELSE 1
           f == [at |-> "sendto", ip |-> to, left |-> left]
<1>1. stack = << >> /\ s \in GoodSocks
  BY HasFact DEF Sendto
<1>2. stack' = <<f>> /\ SocketStep /\ UNCHANGED sockets
  BY Zenon DEF Sendto
<1>3. to \in Addresses
  BY <1>1, GoodFact DEF Addresses
<1>4. left \in Int
  BY NetAssumption
<1> HIDE DEF to, left
<1>5. f \in SendtoCalls /\ f.at = "sendto"
  BY <1>3, <1>4 DEF SendtoCalls
<1> HIDE DEF f
<1>6. f \in Calls /\ f.at \in UserCalls
  BY <1>5, KindsOfCalls DEF UserCalls
<1>7. QED
  BY <1>1, <1>2, <1>6, BeginStep

LEMMA RecvTyped ==
  ASSUME NetTyped, NEW fd \in 1 .. MAX_FDS, NEW n \in Counts, Recv(fd, n)
  PROVE  Moving /\ NetTyped'
<1> DEFINE f == [at |-> "recv", slot |-> fds[fd], n |-> n, timeout |-> WAIT_POLLS]
<1>1. stack = << >> /\ fds[fd] \in Slot
  BY HasFact DEF Recv
<1>2. f \in RecvCalls
  BY <1>1, NetAssumption DEF RecvCalls
<1>3. f \in Calls /\ f.at \in UserCalls
  BY <1>2, KindsOfCalls DEF UserCalls
<1>4. stack' = <<f>> /\ SocketStep /\ UNCHANGED sockets
  BY DEF Recv
<1> HIDE DEF f
<1>5. QED
  BY <1>1, <1>3, <1>4, BeginStep

LEMMA SysPollTyped ==
  ASSUME NetTyped, NEW fd \in 1 .. MAX_FDS, NEW n \in POLL_ROUNDS, SysPoll(fd, n)
  PROVE  Moving /\ NetTyped'
<1> DEFINE f == [at |-> "poll_look", slot |-> fds[fd], timeout |-> n, sti |-> FALSE]
<1>1. stack = << >> /\ fds[fd] \in Slot
  BY HasFact DEF SysPoll
<1>2. n \in Int /\ FALSE \in BOOLEAN
  BY NetAssumption
<1>3. f \in PollCalls /\ f.at = "poll_look"
  BY <1>1, <1>2 DEF PollCalls
<1>4. stack' = <<f>> /\ SocketStep /\ UNCHANGED sockets
  BY Zenon DEF SysPoll
<1> HIDE DEF f
<1>5. f \in Calls /\ f.at \in UserCalls
  BY <1>3, KindsOfCalls DEF UserCalls
<1>6. QED
  BY <1>1, <1>4, <1>5, BeginStep

LEMMA OptionTyped ==
  ASSUME NetTyped, NEW fd \in 1 .. MAX_FDS, Option(fd)
  PROVE  Moving /\ NetTyped'
<1>1. fds[fd] \in Slot /\ Sock(fd) \in GoodSocks /\ Sock(fd) = sockets[fds[fd]]
  BY HasFact DEF Option
<1>2. SocketStep /\ UNCHANGED stack
  BY DEF Option
<1>3. Moving
  BY <1>2, Stays DEF NetTyped
<1>4. \E t \in GoodSocks : sockets' = [sockets EXCEPT ![fds[fd]] = t]
  <2> DEFINE s == sockets[fds[fd]]
  <2>1. \/ sockets' = [sockets EXCEPT ![fds[fd]] = [s EXCEPT !.tcp_state = LISTEN]]
        \/ \E nb \in BOOLEAN : sockets' = [sockets EXCEPT ![fds[fd]] = [s EXCEPT !.nonblocking = nb]]
        \/ sockets' = [sockets EXCEPT ![fds[fd]] = [s EXCEPT !.error = 0]]
    BY Zenon DEF Option
  <2>2. LISTEN \in TcpStates /\ LISTEN # SYN_SENT /\ s \in GoodSocks
    BY <1>1, StateFacts
  <2> HIDE DEF s
  <2>3. QED
    BY <2>1, <2>2, SetFields
<1>5. QED
  BY <1>1, <1>2, <1>3, <1>4, SlotStep

LEMMA BindTyped ==
  ASSUME NetTyped, NEW fd \in 1 .. MAX_FDS, NEW port \in BindPorts, Bind(fd, port)
  PROVE  Moving /\ NetTyped'
<1>1. fds[fd] \in Slot /\ sockets[fds[fd]] \in GoodSocks
  BY HasFact DEF Bind
<1>2. /\ UNCHANGED <<stack, arp_table, descs, bufs, s_rx_cur, rdh, rdt, syns, flow, types, fds,
                     s_ephemeral_port, made, conns>>
      /\ sockets' = [sockets EXCEPT ![fds[fd]] = [sockets[fds[fd]] EXCEPT !.local_port = port]]
      /\ ports' = ports \cup {port}
  BY Zenon DEF Bind, cardVars, hostVars
<1>3. Moving
  BY <1>2, Stays DEF NetTyped
<1>4. port \in Nat /\ ports' \subseteq Nat
  BY <1>2, NetAssumption DEF NetTyped, TablesTyped
<1>5. [sockets[fds[fd]] EXCEPT !.local_port = port] \in GoodSocks
  BY <1>1, <1>4, SetFields
<1>6. sockets' \in [Slot -> GoodSocks]
  BY <1>1, <1>2, <1>5 DEF NetTyped
<1>7. TablesTyped'
  BY <1>2, <1>4, Zenon DEF NetTyped, TablesTyped
<1>8. QED
  BY <1>3, <1>6, <1>7, MovingTyped DEF NetTyped

LEMMA CloseTyped ==
  ASSUME NetTyped, NEW fd \in 1 .. MAX_FDS, NEW shutdown \in BOOLEAN, Close(fd, shutdown)
  PROVE  Moving /\ NetTyped'
<1>1. stack = << >> /\ fds[fd] \in Slot /\ Sock(fd) \in GoodSocks
  BY HasFact DEF Close
<1> DEFINE fin == CloseSendsFin(Sock(fd))
           g == Send(Sock(fd).remote_ip)
           f == [at |-> "close", slot |-> fds[fd], fin |-> fin]
<1>2. /\ stack' = (IF fin THEN <<g>> ELSE << >>) \o <<f>>
      /\ fds' = IF shutdown THEN fds ELSE [fds EXCEPT ![fd] = 0]
      /\ UNCHANGED <<sockets, arp_table, descs, bufs, s_rx_cur, rdh, rdt, syns, flow, types,
                     s_ephemeral_port, made, conns, ports>>
  BY Zenon DEF Close, cardVars, hostVars
<1>3. fin \in BOOLEAN
  BY DEF CloseSendsFin
<1>4. g \in Calls /\ g.at = "send"
  BY <1>1, GoodFact, MadeCalls DEF Send
<1> HIDE DEF fin, g
<1>5. f \in CloseCalls /\ f.at = "close"
  BY <1>1, <1>3 DEF CloseCalls
<1> HIDE DEF f
<1>6. f \in Calls /\ f.at \in UserCalls
  BY <1>5, Zenon DEF UserCalls, Calls, WholeCalls
<1>7. stack' = <<f>> \/ stack' = <<g, f>>
  <2>1. << >> \o <<f>> = <<f>>
    <3>1. <<f>> \in Seq(Calls)
      BY <1>6
    <3>2. QED
      BY <3>1, ConcatEmptySeq
  <2>4. <<g>> \o <<f>> = <<g, f>>
    BY <1>4, <1>6, TwoCalls
  <2>2. (stack' = << >> \o <<f>>) \/ (stack' = <<g>> \o <<f>>)
    BY <1>2, Zenon
  <2>3. QED
    BY <2>1, <2>2, <2>4, Zenon
<1>8. Moving
  BY <1>1, <1>4, <1>6, <1>7, Begins
<1>9. fds' \in [1 .. MAX_FDS -> 0 .. MAX_SOCKETS]
  <2>1. 0 \in 0 .. MAX_SOCKETS /\ fds \in [1 .. MAX_FDS -> 0 .. MAX_SOCKETS]
    BY Consts DEF NetTyped, TablesTyped
  <2>2. QED
    BY <1>2, <2>1
<1>10. TablesTyped'
  BY <1>2, <1>9, Zenon DEF NetTyped, TablesTyped
<1>11. QED
  BY <1>2, <1>8, <1>10, MovingTyped DEF NetTyped

LEMMA ConnectTyped ==
  ASSUME NetTyped, NEW fd \in 1 .. MAX_FDS, NEW ip \in Hosts, Connect(fd, ip)
  PROVE  Moving /\ NetTyped'
<1> DEFINE s == connecting(Sock(fd), ip, conns + 1)
           f == [at |-> "connect", slot |-> fds[fd], timeout |-> CONNECT_POLLS]
           g == SendSyn(s)
<1>1. stack = << >> /\ fds[fd] \in Slot /\ Sock(fd) \in GoodSocks
  BY HasFact DEF Connect
<1>2. /\ s.type = STREAM => conns < MaxConns
      /\ sockets' = [sockets EXCEPT ![fds[fd]] = s]
      /\ stack' = IF s.type = STREAM THEN <<g, f>> ELSE << >>
      /\ conns' = conns + (IF s.type = STREAM THEN 1 ELSE 0)
      /\ UNCHANGED <<arp_table, descs, bufs, s_rx_cur, rdh, rdt, syns, flow, types, fds,
                     s_ephemeral_port, made, ports>>
  BY Zenon DEF Connect, cardVars, hostVars
<1>3. s.type = Sock(fd).type /\ (s.type = STREAM => s.tcp_state = SYN_SENT)
  <2> DEFINE r == Sock(fd)
  <2>1. r \in Socks
    BY <1>1, GoodFact
  <2>2. s = connecting(r, ip, conns + 1)
    OBVIOUS
  <2> HIDE DEF r, s
  <2>3. s.type = r.type /\ (s.type = STREAM => s.tcp_state = SYN_SENT)
    BY <2>1, <2>2 DEF connecting, Socks
  <2>4. QED
    BY <2>3 DEF r
<1>4. conns \in 0 .. MaxConns /\ conns \in Nat /\ MaxConns \in Nat
  BY Consts DEF NetTyped, TablesTyped
<1>5. conns' \in 0 .. MaxConns /\ (s.type = STREAM => conns + 1 \in 1 .. MaxConns) /\ conns + 1 \in Nat
  <2> HIDE DEF s
  <2>1. QED
    BY <1>2, <1>4
<1>6. s \in GoodSocks
  BY <1>1, <1>3, <1>5, ConnectingGood
<1> HIDE DEF s
<1>7. s.type = STREAM => g \in Calls /\ g.at = "send"
  BY <1>3, <1>6, MadeCalls DEF SendSyn
<1>8. f \in WaitCalls /\ f.at = "connect"
  BY <1>1, NetAssumption DEF WaitCalls
<1> HIDE DEF f, g
<1>9. f \in Calls /\ f.at \in UserCalls
  BY <1>8, KindsOfCalls DEF UserCalls
<1>10. Moving
  <2>1. CASE s.type = STREAM
    BY <1>1, <1>2, <1>7, <1>9, <2>1, Begins
  <2>2. CASE s.type # STREAM
    <3>1. UNCHANGED stack
      BY <1>1, <1>2, <2>2
    <3>2. QED
      BY <3>1, Stays DEF NetTyped
  <2>3. QED
    BY <2>1, <2>2
<1>11. sockets' \in [Slot -> GoodSocks]
  BY <1>1, <1>2, <1>6 DEF NetTyped
<1>12. TablesTyped'
  BY <1>2, <1>5, Zenon DEF NetTyped, TablesTyped
<1>13. QED
  BY <1>10, <1>11, <1>12, MovingTyped DEF NetTyped

LEMMA SocketTyped ==
  ASSUME NetTyped, NEW type \in types, Socket(type)
  PROVE  Moving /\ NetTyped'
<1> DEFINE i == FirstFree(sockets)
           new == sock_create(sockets[i], type, s_ephemeral_port, made + 1)
<1>1. /\ stack = << >> /\ FreeSlots(sockets) # {}
      /\ \/ FreeFds = {} /\ sockets' = [sockets EXCEPT ![i] = sock_destroy(new)] /\ UNCHANGED fds
         \/ /\ FreeFds # {} /\ sockets' = [sockets EXCEPT ![i] = new]
            /\ fds' = [fds EXCEPT ![First(FreeFds)] = i]
      /\ s_ephemeral_port' = NextPort(s_ephemeral_port) /\ made' = made + 1
      /\ ports' = ports \cup {s_ephemeral_port}
      /\ UNCHANGED <<stack, arp_table, descs, bufs, s_rx_cur, rdh, rdt, syns, flow, types, conns>>
  BY Zenon DEF Socket, InUser, cardVars, hostVars
<1>2. /\ type \in Types /\ s_ephemeral_port \in FirstPort .. LastPort /\ made \in Nat /\ ports \subseteq Nat
      /\ fds \in [1 .. MAX_FDS -> 0 .. MAX_SOCKETS]
  BY DEF NetTyped, TablesTyped
<1>3. s_ephemeral_port \in Nat /\ s_ephemeral_port' \in FirstPort .. LastPort /\ made + 1 \in Nat
  BY <1>1, <1>2, Consts, SMTT(40) DEF NextPort
<1>4. i \in Slot
  <2> DEFINE S == FreeSlots(sockets)
  <2>1. S \in SUBSET Slot /\ S # {}
    BY <1>1 DEF FreeSlots
  <2> HIDE DEF S
  <2>2. S \in SUBSET Nat
    BY <2>1 DEF Slot
  <2>3. \E x \in S : \A j \in S : x <= j
    BY <2>1, <2>2, LeastExists
  <2>4. i \in S
    BY <2>3 DEF FirstFree, S
  <2>5. QED
    BY <2>1, <2>4
<1>5. new \in GoodSocks /\ sock_destroy(new) \in GoodSocks
  BY <1>2, <1>3, CreateGood
<1> HIDE DEF i, new
<1>6. sockets' \in [Slot -> GoodSocks]
  BY <1>1, <1>4, <1>5 DEF NetTyped
<1>7. fds' \in [1 .. MAX_FDS -> 0 .. MAX_SOCKETS]
  <2>1. i \in 0 .. MAX_SOCKETS
    BY <1>4, Consts DEF Slot
  <2>2. QED
    BY <1>1, <1>2, <2>1
<1>8. ports' \subseteq Nat /\ made' \in Nat
  BY <1>1, <1>2, <1>3
<1>9. TablesTyped'
  BY <1>1, <1>3, <1>7, <1>8, Zenon DEF NetTyped, TablesTyped
<1>10. Moving
  BY <1>1, Stays DEF NetTyped
<1>11. QED
  BY <1>6, <1>9, <1>10, MovingTyped DEF NetTyped

LEMMA ArriveTyped ==
  ASSUME NetTyped, NEW f \in Frames, Arrive(f),
         flow' \in [1 .. MaxConns -> [open : BOOLEAN, sent : Nat, fin : BOOLEAN]]
  PROVE  Moving /\ NetTyped'
<1>1. /\ UNCHANGED <<sockets, stack, arp_table, s_rx_cur, rdt, syns, types, fds, s_ephemeral_port, made,
                     conns, ports>>
      /\ descs' = [descs EXCEPT ![rdh] = f] /\ bufs' = [bufs EXCEPT ![rdh] = f]
      /\ rdh' = (rdh + 1) % NUM_RX_DESC
  BY DEF Arrive, userVars
<1>2. rdh \in Desc /\ descs \in [Desc -> Frames] /\ bufs \in [Desc -> Frames]
  BY DEF NetTyped, TablesTyped
<1>3. rdh' \in Desc /\ descs' \in [Desc -> Frames] /\ bufs' \in [Desc -> Frames]
  BY <1>1, <1>2, NextDesc
<1>4. TablesTyped'
  BY <1>1, <1>3, Zenon DEF NetTyped, TablesTyped
<1>5. Moving
  BY <1>1, Stays DEF NetTyped
<1>6. QED
  BY <1>1, <1>4, <1>5 DEF NetTyped

\* The packets of a connection.
LEMMA SegmentFact ==
  ASSUME NEW syn \in Syns, NEW flag \in {"synack", "rst", "data"}, NEW m \in Nat, NEW n \in Nat,
         NEW fin \in BOOLEAN
  PROVE  /\ syn[1] \in Nat /\ syn[2] \in Hosts /\ syn[3] \in 1 .. MaxConns
         /\ syn = <<syn[1], syn[2], syn[3]>>
         /\ Segment(syn, flag) \in Segments
         /\ [Segment(syn, flag) EXCEPT !.first = m + 1, !.len = n, !.fin = fin] \in Segments
<1>1. syn[1] \in Nat /\ syn[2] \in Hosts /\ syn[3] \in 1 .. MaxConns /\ syn = <<syn[1], syn[2], syn[3]>>
  BY DEF Syns
<1>2. 1 \in Nat \ {0} /\ 0 \in Nat /\ FALSE \in BOOLEAN /\ m + 1 \in Nat \ {0}
  OBVIOUS
<1>3. Segment(syn, flag) \in Segments
  BY <1>1, <1>2 DEF Segment, Segments
<1> DEFINE k == m + 1
<1> HIDE DEF k
<1>4. [Segment(syn, flag) EXCEPT !.first = k, !.len = n, !.fin = fin] \in Segments
  <2>1. k \in Nat \ {0}
    BY <1>2 DEF k
  <2>2. QED
    BY <1>3, <2>1 DEF Segments
<1>5. QED
  BY <1>1, <1>3, <1>4 DEF k

LEMMA WorldTyped ==
  ASSUME NetTyped, World
  PROVE  Moving /\ NetTyped'
<1> DEFINE F == [open : BOOLEAN, sent : Nat, fin : BOOLEAN]
<1>0. flow \in [1 .. MaxConns -> F] /\ syns \subseteq Syns /\ ports \subseteq Nat
  BY DEF NetTyped, TablesTyped
<1>1. ASSUME NEW syn \in syns, Answer(syn) PROVE Moving /\ NetTyped'
  <2>1. syn \in Syns /\ syn[3] \in 1 .. MaxConns
    BY <1>0, SegmentFact DEF Syns
  <2>2. PICK b \in BOOLEAN, g \in {"synack", "rst"} :
          flow' = [flow EXCEPT ![syn[3]] = [flow[syn[3]] EXCEPT !.open = b]] /\ Arrive(Segment(syn, g))
    <3>1. TRUE \in BOOLEAN /\ FALSE \in BOOLEAN
      OBVIOUS
    <3>2. QED
      BY <1>1, <3>1, Zenon DEF Answer
  <2>3. [flow[syn[3]] EXCEPT !.open = b] \in F
    BY <1>0, <2>1
  <2> HIDE DEF F
  <2>4. flow' \in [1 .. MaxConns -> F]
    BY <1>0, <2>1, <2>2, <2>3
  <2>5. Segment(syn, g) \in Segments
    BY <2>1, SegmentFact
  <2>6. Segment(syn, g) \in Frames
    BY <2>5, Zenon DEF Frames
  <2>7. QED
    BY <2>2, <2>4, <2>6, ArriveTyped DEF F
<1>2. ASSUME NEW syn \in syns, NEW n \in 0 .. MaxBytes, NEW fin \in BOOLEAN, Data(syn, n, fin)
      PROVE  Moving /\ NetTyped'
  <2>1. syn \in Syns /\ syn[3] \in 1 .. MaxConns /\ n \in Nat
    <3>1. n \in Nat
      BY Consts
    <3>2. QED
      BY <1>0, <3>1 DEF Syns
  <2> DEFINE c == flow[syn[3]]
             p == c.sent + n
             g == [Segment(syn, "data") EXCEPT !.first = c.sent + 1, !.len = n, !.fin = fin]
             b == ~fin
             d == [[[c EXCEPT !.sent = p] EXCEPT !.fin = fin] EXCEPT !.open = b]
  <2>2. flow' = [flow EXCEPT ![syn[3]].sent = @ + n, ![syn[3]].fin = fin, ![syn[3]].open = ~fin] /\ Arrive(g)
    BY <1>2, Zenon DEF Data
  <2>3. c \in F /\ c.sent \in Nat /\ p \in Nat /\ b \in BOOLEAN
    BY <1>0, <2>1
  <2>4. g \in Frames
    <3>1. g \in Segments
      BY <2>1, <2>3, SegmentFact
    <3>2. QED
      BY <3>1, Zenon DEF Frames
  <2> HIDE DEF g, p, b
  <2>5. d \in F
    BY <2>3
  <2>6. flow' = [flow EXCEPT ![syn[3]] = d]
    <3> DEFINE k == syn[3]
    <3> HIDE DEF F
    <3>1. k \in 1 .. MaxConns /\ flow \in [1 .. MaxConns -> F]
      BY <1>0, <2>1
    <3>2. flow' = [flow EXCEPT ![k].sent = @ + n, ![k].fin = fin, ![k].open = ~fin]
      BY <2>2
    <3> HIDE DEF k
    <3>3. [flow EXCEPT ![k].sent = @ + n, ![k].fin = fin, ![k].open = ~fin]
          = [flow EXCEPT ![k] = [[[flow[k] EXCEPT !.sent = flow[k].sent + n] EXCEPT !.fin = fin]
                                 EXCEPT !.open = ~fin]]
      BY <3>1
    <3>4. QED
      BY <3>2, <3>3 DEF p, b, k
  <2> HIDE DEF d, F
  <2>7. flow' \in [1 .. MaxConns -> F]
    BY <1>0, <2>1, <2>5, <2>6
  <2>8. QED
    BY <2>2, <2>4, <2>7, ArriveTyped DEF F
<1>3. CASE Packet
  <2>1. PICK f : /\ Arrive(f) /\ UNCHANGED flow
                 /\ \/ \E h \in Neighbours : f = [kind |-> "arp", from |-> h]
                    \/ \E p \in ports : f = [kind |-> "udp", port |-> p]
                    \/ \E h \in Hosts, e \in BOOLEAN : f = [kind |-> "icmp", from |-> h, echo |-> e]
    BY <1>3, Zenon DEF Packet
  <2>2. f \in Frames
    BY <1>0, <2>1 DEF Frames
  <2>3. QED
    BY <1>0, <2>1, <2>2, ArriveTyped
<1>4. QED
  BY <1>1, <1>2, <1>3 DEF World

LEMMA SameVars ==
  ASSUME UNCHANGED vars
  PROVE  UNCHANGED <<sockets, arp_table, descs, bufs, s_rx_cur, rdh, rdt, icr, stack, syns, flow, frames, types,
                     fds, s_ephemeral_port, made, conns, ports, reused, shut, reentered, torn, overrun>>
BY DEF vars, cardVars, hostVars, userVars

LEMMA KernelTyped ==
  ASSUME NetTyped, Kernel
  PROVE  Moving /\ NetTyped'
BY SendPacketTyped, ResolveTyped, PollRxTyped, PolledRxTyped, IcmpInputTyped, FinInputTyped,
   FinSentTyped, ReturnsTyped, ClosedTyped, ConnectWaitsTyped, ConnectLooksTyped, AcceptWaitsTyped,
   SendtoChunkTyped, RecvWaitsTyped, RecvLooksTyped, SysPollWaitsTyped, Zenon DEF Kernel

LEMMA ProgramTyped ==
  ASSUME NetTyped, Program
  PROVE  Moving /\ NetTyped'
BY SocketTyped, BindTyped, OptionTyped, CloseTyped, ConnectTyped, AcceptTyped, SendtoTyped,
   RecvTyped, SysPollTyped, Zenon DEF Program

\* A step that no interrupt divides, and that is not the rest of one that was divided.
Whole == Program \/ Compute \/ Kernel \/ StackFull \/ Irq \/ World

LEMMA WholeTyped ==
  ASSUME NetTyped, [Whole]_vars
  PROVE  Moving /\ NetTyped'
<1>1. CASE UNCHANGED vars
  <2>1. UNCHANGED <<sockets, stack>> /\ TablesTyped'
    BY <1>1, SameVars, SameTables DEF NetTyped
  <2>2. QED
    BY <2>1, Stays DEF NetTyped
<1>2. CASE Whole
  BY <1>1, <1>2, KernelTyped, ProgramTyped, WorldTyped, IrqTyped, Zenon DEF Whole, Compute, StackFull
<1>3. QED
  BY <1>1, <1>2

LEMMA InitTyped ==
  ASSUME Init
  PROVE  NetTyped
<1>1. sockets \in [Slot -> GoodSocks]
  BY UnusedGood DEF Init
<1>2. stack \in Seq(Calls)
  BY DEF Init
<1>3. arp_table \in Seq(Neighbours) /\ Len(arp_table) <= ARP_TABLE_SIZE
  BY Consts DEF Init
<1>4. descs \in [Desc -> Frames] /\ bufs \in [Desc -> Frames] /\ s_rx_cur \in Desc /\ rdh \in Desc /\ rdt \in Desc
  <2>1. NoFrame \in Frames
    BY Zenon DEF Frames
  <2>2. descs \in [Desc -> Frames] /\ bufs \in [Desc -> Frames]
    BY <2>1 DEF Init
  <2>3. s_rx_cur = 0 /\ rdh = 0 /\ rdt = NUM_RX_DESC - 1
    BY DEF Init
  <2>4. s_rx_cur \in Desc /\ rdh \in Desc /\ rdt \in Desc
    BY <2>3, Consts DEF Desc
  <2>5. QED
    BY <2>2, <2>4
<1>5. flow \in [1 .. MaxConns -> [open : BOOLEAN, sent : Nat, fin : BOOLEAN]]
  BY DEF Init
<1>6. /\ fds \in [1 .. MAX_FDS -> 0 .. MAX_SOCKETS] /\ s_ephemeral_port \in FirstPort .. LastPort
      /\ syns \subseteq Syns /\ made \in Nat /\ conns \in 0 .. MaxConns /\ ports \subseteq Nat
  BY Consts DEF Init
<1>7. types \subseteq Types
  BY NetAssumption DEF Init, Types
<1>8. QED
  BY <1>1, <1>2, <1>3, <1>4, <1>5, <1>6, <1>7 DEF NetTyped, TablesTyped

---------------------------------------------------------------------------
(* Calls nest *)

\* Where a call that is on the stack after a step comes from.
LEMMA SplicedFact ==
  ASSUME NetTyped, NEW pre \in Seq(Calls), NEW k \in 0 .. 2, k <= Len(stack), Spliced(stack, stack', pre, k)
  PROVE  /\ Len(stack) \in Nat /\ Len(pre) \in Nat /\ Len(stack') \in Nat
         /\ Len(stack') = Len(pre) + Len(stack) - k
         /\ \A i \in 1 .. Len(stack') :
              \/ i \in 1 .. Len(pre) /\ stack'[i] = pre[i]
              \/ /\ i > Len(pre) /\ i - Len(pre) + k \in k + 1 .. Len(stack)
                 /\ i - Len(pre) + k \in 1 .. Len(stack)
                 /\ stack'[i] = stack[i - Len(pre) + k]
         /\ \A i \in 1 .. Len(stack) : i > k =>
              /\ i + Len(pre) - k \in 1 .. Len(stack') /\ i + Len(pre) - k > Len(pre)
              /\ stack'[i + Len(pre) - k] = stack[i]
         /\ \A i \in 1 .. Len(pre) : i \in 1 .. Len(stack') /\ stack'[i] = pre[i]
<1> DEFINE p == Len(pre)
           n == Len(stack)
           m == Len(stack')
<1>1. n \in Nat /\ p \in Nat /\ m \in Nat /\ m = p + n - k /\ k \in Nat /\ k <= n
  BY DEF NetTyped, Spliced
<1>2. /\ \A i \in 1 .. p : stack'[i] = pre[i]
      /\ \A i \in k + 1 .. n : stack'[i + p - k] = stack[i]
      /\ \A i \in p + 1 .. m : stack'[i] = stack[i - p + k]
  BY DEF Spliced
<1> HIDE DEF p, n, m
<1>3. ASSUME NEW i \in 1 .. m
      PROVE  \/ i \in 1 .. p /\ stack'[i] = pre[i]
             \/ i > p /\ i - p + k \in k + 1 .. n /\ i - p + k \in 1 .. n /\ stack'[i] = stack[i - p + k]
  <2>1. CASE i <= p
    <3>1. i \in 1 .. p
      BY <1>1, <2>1
    <3>2. QED
      BY <1>2, <3>1
  <2>2. CASE i > p
    <3>1. i \in p + 1 .. m /\ i - p + k \in k + 1 .. n /\ i - p + k \in 1 .. n
      BY <1>1, <2>2
    <3>2. QED
      BY <1>2, <2>2, <3>1
  <2>3. QED
    BY <1>1, <2>1, <2>2
<1>4. ASSUME NEW i \in 1 .. n, i > k
      PROVE  i + p - k \in 1 .. m /\ i + p - k > p /\ stack'[i + p - k] = stack[i]
  <2>1. i \in k + 1 .. n /\ i + p - k \in 1 .. m /\ i + p - k > p
    BY <1>1, <1>4
  <2>2. QED
    BY <1>2, <2>1
<1>5. ASSUME NEW i \in 1 .. p PROVE i \in 1 .. m /\ stack'[i] = pre[i]
  <2>1. i \in 1 .. m
    BY <1>1
  <2>2. QED
    BY <1>2, <2>1
<1>6. QED
  BY <1>1, <1>3, <1>4, <1>5 DEF p, n, m

LEMMA BottomKept ==
  ASSUME NetTyped, BottomOK, Moving
  PROVE  BottomOK'
<1>1. PICK pre \in Seq(Calls), k \in 0 .. 2 : k <= Len(stack) /\ Moves(pre, k)
  BY DEF Moving
<1>2. Spliced(stack, stack', pre, k)
  BY <1>1 DEF Moves
<1> DEFINE p == Len(pre)
           n == Len(stack)
           m == Len(stack')
<1>3. /\ n \in Nat /\ p \in Nat /\ m \in Nat /\ m = p + n - k /\ k \in Nat /\ k <= n
      /\ \A i \in 1 .. m : \/ i \in 1 .. p /\ stack'[i] = pre[i]
                           \/ /\ i > p /\ i - p + k \in k + 1 .. n /\ i - p + k \in 1 .. n
                              /\ stack'[i] = stack[i - p + k]
      /\ \A i \in 1 .. n : i > k =>
           i + p - k \in 1 .. m /\ i + p - k > p /\ stack'[i + p - k] = stack[i]
      /\ \A i \in 1 .. p : i \in 1 .. m /\ stack'[i] = pre[i]
  <2>1. k \in Nat /\ k <= Len(stack)
    BY <1>1
  <2>2. QED
    BY <1>2, <2>1, SplicedFact, Zenon
<1>4. ASSUME NEW i \in 1 .. p
      PROVE  pre[i].at \in UserCalls =>
               i = p /\ (stack = << >> \/ (k = 1 /\ stack[1].at \in UserCalls))
  BY <1>1 DEF Moves
<1>5. \A i \in 1 .. n : stack[i].at \in UserCalls => i = n
  BY DEF BottomOK
<1>6. stack = << >> => n = 0
  OBVIOUS
<1> HIDE DEF p, n, m
<1>7. ASSUME NEW i \in 1 .. m, stack'[i].at \in UserCalls PROVE i = m
  <2>1. CASE i \in 1 .. p /\ stack'[i] = pre[i]
    <3>1. i = p /\ (stack = << >> \/ (k = 1 /\ stack[1].at \in UserCalls))
      BY <1>4, <1>7, <2>1
    <3>2. CASE stack = << >>
      BY <1>3, <1>6, <3>1, <3>2
    <3>3. CASE k = 1 /\ stack[1].at \in UserCalls
      <4>1. 1 \in 1 .. n
        BY <1>3, <3>3
      <4>2. 1 = n
        BY <1>5, <3>3, <4>1
      <4>3. QED
        BY <1>3, <3>1, <3>3, <4>2
    <3>4. QED
      BY <3>1, <3>2, <3>3
  <2>2. CASE i > p /\ i - p + k \in 1 .. n /\ stack'[i] = stack[i - p + k]
    <3>1. i - p + k = n
      BY <1>5, <1>7, <2>2
    <3>2. QED
      BY <1>3, <3>1
  <2>3. QED
    BY <1>3, <2>1, <2>2
<1>8. QED
  BY <1>7 DEF BottomOK, m

LEMMA NestKept ==
  ASSUME NetTyped, NestOK, Moving, NetTyped', reentered => reentered'
  PROVE  NestOK'
<1>1. PICK pre \in Seq(Calls), k \in 0 .. 2 : k <= Len(stack) /\ Moves(pre, k)
  BY DEF Moving
<1>2. Spliced(stack, stack', pre, k)
  BY <1>1 DEF Moves
<1> DEFINE p == Len(pre)
           n == Len(stack)
           m == Len(stack')
<1>3. /\ n \in Nat /\ p \in Nat /\ m \in Nat /\ m = p + n - k /\ k \in Nat /\ k <= n
      /\ \A i \in 1 .. m : \/ i \in 1 .. p /\ stack'[i] = pre[i]
                           \/ /\ i > p /\ i - p + k \in k + 1 .. n /\ i - p + k \in 1 .. n
                              /\ stack'[i] = stack[i - p + k]
      /\ \A i \in 1 .. n : i > k =>
           i + p - k \in 1 .. m /\ i + p - k > p /\ stack'[i + p - k] = stack[i]
      /\ \A i \in 1 .. p : i \in 1 .. m /\ stack'[i] = pre[i]
  <2>1. k \in Nat /\ k <= Len(stack)
    BY <1>1
  <2>2. QED
    BY <1>2, <2>1, SplicedFact, Zenon
<1>4. ASSUME NEW i \in 1 .. p
      PROVE  /\ pre[i].at \in UserCalls =>
                  i = p /\ (stack = << >> \/ (k = 1 /\ stack[1].at \in UserCalls))
             /\ pre[i].at \in {"fin", "fin_sent", "icmp"} =>
                  \/ k = 1 /\ stack[1].at = "fin"
                  \/ pre[p].at = "polled" /\ i < p
             /\ pre[i].at = "polled" => i = p /\ (reentered' \/ Handling = {})
  BY <1>1 DEF Moves
<1>5. /\ \A i \in 1 .. n : stack[i].at \in UserCalls => i = n
      /\ \A i \in 1 .. n : stack[i].at \in {"fin", "fin_sent", "icmp"} =>
           \E j \in 1 .. n : j > i /\ stack[j].at = "polled"
      /\ ~reentered => \A i, j \in Handling : i = j
  BY DEF NestOK
<1>6. stack = << >> => n = 0
  OBVIOUS
<1>7. Handling = {i \in 1 .. n : stack[i].at = "polled"}
  BY DEF NetTyped, Handling
<1>8. Handling' = {i \in 1 .. m : stack'[i].at = "polled"}
  BY DEF NetTyped, Handling
<1> HIDE DEF p, n, m
<1>9. \A i \in 1 .. m : stack'[i].at \in UserCalls => i = m
  <2>1. BottomOK
    BY DEF NestOK, BottomOK
  <2>2. QED
    BY <2>1, BottomKept DEF BottomOK, m
<1>10. ASSUME NEW i \in 1 .. m, stack'[i].at \in {"fin", "fin_sent", "icmp"}
       PROVE  \E j \in 1 .. m : j > i /\ stack'[j].at = "polled"
  <2>1. ASSUME NEW o \in 1 .. n, o >= k, stack[o].at \in {"fin", "fin_sent", "icmp"}, i <= o + p - k
        PROVE  \E j \in 1 .. m : j > i /\ stack'[j].at = "polled"
    <3>1. PICK j \in 1 .. n : j > o /\ stack[j].at = "polled"
      BY <1>5, <2>1
    <3>2. j > k /\ j + p - k > i
      BY <1>3, <2>1, <3>1, SMTT(40)
    <3>3. j + p - k \in 1 .. m /\ stack'[j + p - k] = stack[j]
      BY <1>3, <3>2
    <3>4. QED
      BY <3>1, <3>2, <3>3
  <2>2. CASE i \in 1 .. p /\ stack'[i] = pre[i]
    <3>1. CASE k = 1 /\ stack[1].at = "fin"
      <4>1. 1 \in 1 .. n /\ 1 >= k /\ i <= 1 + p - k
        BY <1>3, <2>2, <3>1
      <4>2. QED
        BY <2>1, <3>1, <4>1
    <3>2. CASE pre[p].at = "polled" /\ i < p
      <4>1. p \in 1 .. p
        BY <1>3, <2>2
      <4>2. p \in 1 .. m /\ stack'[p] = pre[p]
        BY <1>3, <4>1
      <4>3. QED
        BY <3>2, <4>2
    <3>3. QED
      BY <1>4, <1>10, <2>2, <3>1, <3>2
  <2>3. CASE i > p /\ i - p + k \in k + 1 .. n /\ i - p + k \in 1 .. n /\ stack'[i] = stack[i - p + k]
    <3>1. i - p + k >= k /\ i <= (i - p + k) + p - k
      BY <1>3, <2>3
    <3>2. QED
      BY <1>10, <2>1, <2>3, <3>1
  <2>4. QED
    BY <1>3, <2>2, <2>3
<1>11. ASSUME ~reentered', NEW i \in 1 .. m, NEW j \in 1 .. m,
              stack'[i].at = "polled", stack'[j].at = "polled"
       PROVE  i = j
  <2>1. ASSUME NEW x \in 1 .. m, stack'[x].at = "polled"
        PROVE  \/ x = p /\ Handling = {}
               \/ x - p + k \in Handling
    <3>1. CASE x \in 1 .. p /\ stack'[x] = pre[x]
      BY <1>4, <1>11, <2>1, <3>1
    <3>2. CASE x - p + k \in 1 .. n /\ stack'[x] = stack[x - p + k]
      BY <1>7, <2>1, <3>2
    <3>3. QED
      BY <1>3, <3>1, <3>2
  <2>2. \A a, b \in Handling : a = b
    BY <1>5, <1>11
  <2>3. \/ i = p /\ Handling = {}
        \/ i - p + k \in Handling
    BY <1>11, <2>1
  <2>4. \/ j = p /\ Handling = {}
        \/ j - p + k \in Handling
    BY <1>11, <2>1
  <2>5. i = j \/ i - p + k = j - p + k
    BY <2>2, <2>3, <2>4
  <2>6. QED
    BY <1>3, <2>5
<1>12. ~reentered' => \A i, j \in Handling' : i = j
  BY <1>8, <1>11
<1>13. QED
  BY <1>9, <1>10, <1>12 DEF NestOK, m

---------------------------------------------------------------------------
(* What a socket keeps *)

\* Only socket, bind and connect change the name of a socket, and only connect makes
\* one wait for an answer.
Same(s, t) ==
  /\ t.type = s.type /\ t.local_port = s.local_port /\ t.remote_ip = s.remote_ip
  /\ t.conn = s.conn /\ t.born = s.born
  /\ t.tcp_state = SYN_SENT => s.tcp_state = SYN_SENT /\ t.error = s.error

SameRef(s, t) == Same(s, t) /\ t.ref_count = s.ref_count

LEMMA Sames ==
  ASSUME NEW s \in GoodSocks
  PROVE  /\ SameRef(s, s) /\ SameRef(s, queued(s)) /\ SameRef(s, fin_input(s)) /\ SameRef(s, fin_state(s))
         /\ SameRef(s, timed_out(s))
         /\ \A n \in Nat : SameRef(s, received(s, n))
         /\ \A fin \in BOOLEAN : Same(s, sock_close(s, fin)) /\ sock_close(s, fin).ref_count = 0
         /\ \A f \in Segments : SameRef(s, tcp_input(s, f))
<1>0. s \in Socks
  BY GoodFact
<1>1. SameRef(s, s)
  BY DEF Same, SameRef
<1>2. SameRef(s, queued(s))
  BY <1>0 DEF Same, SameRef, queued, Socks
<1>3. SameRef(s, fin_input(s))
  BY <1>0 DEF Same, SameRef, fin_input, Socks
<1>4. SameRef(s, fin_state(s))
  BY <1>0, StateFacts DEF Same, SameRef, fin_state, Socks
<1>5. SameRef(s, timed_out(s))
  BY <1>0, StateFacts DEF Same, SameRef, timed_out, Socks
<1>6. ASSUME NEW n \in Nat PROVE SameRef(s, received(s, n))
  BY <1>0 DEF Same, SameRef, received, Socks
<1>7. ASSUME NEW fin \in BOOLEAN PROVE Same(s, sock_close(s, fin)) /\ sock_close(s, fin).ref_count = 0
  BY <1>0, StateFacts DEF Same, sock_close, Socks
<1>8. ASSUME NEW f \in Segments PROVE SameRef(s, tcp_input(s, f))
  <2> DEFINE r1 == [s EXCEPT !.tcp_state = CLOSED, !.error = 104]
             r2 == [s EXCEPT !.tcp_state = ESTABLISHED, !.remote_seq = 0]
  <2>1. tcp_input(s, f) \in {r1, r2, stored(s, f), s}
    BY DEF tcp_input
  <2>2. SameRef(s, r1) /\ SameRef(s, r2)
    BY <1>0, StateFacts DEF Same, SameRef, Socks
  <2>3. SameRef(s, stored(s, f))
    BY <1>0 DEF Same, SameRef, stored, Socks
  <2>4. QED
    BY <1>1, <2>1, <2>2, <2>3
<1>9. QED
  BY <1>1, <1>2, <1>3, <1>4, <1>5, <1>6, <1>7, <1>8

Keeps == \A i \in Slot : SameRef(sockets[i], sockets'[i])

LEMMA SlotKeeps ==
  ASSUME NetTyped, NEW i \in Slot, NEW t, SameRef(sockets[i], t), sockets' = [sockets EXCEPT ![i] = t]
  PROVE  Keeps
<1>1. \A j \in Slot : sockets[j] \in GoodSocks /\ SameRef(sockets[j], sockets[j])
  BY Sames DEF NetTyped
<1>2. \A j \in Slot : sockets'[j] = IF j = i THEN t ELSE sockets[j]
  BY DEF NetTyped
<1>3. QED
  BY <1>1, <1>2, Zenon DEF Keeps

LEMMA AllKeep ==
  ASSUME NetTyped, UNCHANGED sockets
  PROVE  Keeps
<1>1. \A j \in Slot : SameRef(sockets[j], sockets[j])
  BY Sames DEF NetTyped
<1>2. QED
  BY <1>1 DEF Keeps

LEMMA RxKeeps ==
  ASSUME NetTyped, NEW f \in Frames, sockets' = rx_sockets(f)
  PROVE  Keeps
<1>0. \A j \in Slot : sockets[j] \in GoodSocks
  BY DEF NetTyped
<1>1. CASE f.kind = "udp"
  <2> DEFINE S == udp_match(sockets, f)
             i == First(S)
  <2>0. ~Matches(f)
    BY <1>1 DEF Matches
  <2>1. sockets' = IF S = {} THEN sockets ELSE [sockets EXCEPT ![i] = queued(sockets[i])]
    BY <1>1, <2>0, Zenon DEF rx_sockets, socket_udp_input
  <2>2. S \in SUBSET Slot
    BY DEF udp_match
  <2> HIDE DEF S
  <2>3. S \in SUBSET Nat
    BY <2>2 DEF Slot
  <2>4. CASE S # {}
    <3>1. i \in Slot
      BY <2>2, <2>3, <2>4, FirstFact
    <3> HIDE DEF i
    <3>2. SameRef(sockets[i], queued(sockets[i]))
      BY <1>0, <3>1, Sames
    <3>3. QED
      BY <2>1, <2>4, <3>1, <3>2, SlotKeeps
  <2>5. QED
    BY <2>1, <2>4, AllKeep
<1>2. CASE f.kind # "udp" /\ Matches(f)
  <2> DEFINE i == Target(f)
             t == tcp_input(sockets[i], f)
  <2>1. i \in Slot /\ f \in Segments
    BY <1>2, TargetFact, FrameKinds
  <2>2. SameRef(sockets[i], t)
    BY <1>0, <2>1, Sames
  <2>3. sockets' = [sockets EXCEPT ![i] = t]
    BY <1>2, Zenon DEF rx_sockets
  <2> HIDE DEF i, t
  <2>4. QED
    BY <2>1, <2>2, <2>3, SlotKeeps
<1>3. CASE f.kind # "udp" /\ ~Matches(f)
  <2>1. sockets' = sockets
    BY <1>3, Zenon DEF rx_sockets
  <2>2. QED
    BY <2>1, AllKeep
<1>4. QED
  BY <1>1, <1>2, <1>3

LEMMA KernelKeeps ==
  ASSUME NetTyped, Kernel, ~Closed
  PROVE  Keeps
<1>0. \A j \in Slot : sockets[j] \in GoodSocks
  BY DEF NetTyped
<1>1. CASE SendPacket \/ Resolve \/ PolledRx \/ IrqReturn \/ ConnectLooks \/ AcceptWaits
           \/ SendtoChunk \/ RecvLooks \/ SysPollWaits
  <2>1. UNCHANGED sockets
    BY <1>1 DEF SendPacket, Resolve, PolledRx, IrqReturn, ConnectLooks, AcceptWaits, SendtoChunk,
                RecvLooks, SysPollWaits
  <2>2. QED
    BY <2>1, AllKeep
<1>2. CASE PollRx
  <2> DEFINE f == descs[s_rx_cur]
  <2>1. UNCHANGED sockets \/ sockets' = rx_sockets(f)
    BY <1>2 DEF PollRx
  <2>2. f \in Frames
    BY DEF NetTyped, TablesTyped
  <2>3. QED
    BY <2>1, <2>2, AllKeep, RxKeeps
<1>3. CASE IcmpInput
  <2>1. sockets' = socket_icmp_input(sockets, Top.from, MAX_SOCKETS)
    BY <1>3 DEF IcmpInput
  <2>2. ASSUME NEW j \in Slot PROVE SameRef(sockets[j], sockets'[j])
    <3>1. SameRef(sockets[j], sockets[j]) /\ SameRef(sockets[j], queued(sockets[j]))
      BY <1>0, Sames
    <3>2. sockets'[j] = queued(sockets[j]) \/ sockets'[j] = sockets[j]
      BY <2>1 DEF socket_icmp_input
    <3>3. QED
      BY <3>1, <3>2
  <2>3. QED
    BY <2>2 DEF Keeps
<1>4. CASE FinInput
  <2>1. stack # << >> /\ Top.at = "fin" /\ sockets' = [sockets EXCEPT ![Top.slot] = fin_input(sockets[Top.slot])]
    BY <1>4 DEF FinInput, At
  <2>2. Top.slot \in Slot /\ SameRef(sockets[Top.slot], fin_input(sockets[Top.slot]))
    BY <2>1, TopSlot, Sames
  <2>3. QED
    BY <2>1, <2>2, SlotKeeps
<1>5. CASE FinSent
  <2>1. stack # << >> /\ Top.at = "fin_sent" /\ sockets' = [sockets EXCEPT ![Top.slot] = fin_state(sockets[Top.slot])]
    BY <1>5 DEF FinSent, At
  <2>2. Top.slot \in Slot /\ SameRef(sockets[Top.slot], fin_state(sockets[Top.slot]))
    BY <2>1, TopSlot, Sames
  <2>3. QED
    BY <2>1, <2>2, SlotKeeps
<1>6. CASE ConnectWaits
  <2>1. /\ stack # << >> /\ Top.at = "connect"
        /\ UNCHANGED sockets \/ sockets' = [sockets EXCEPT ![Top.slot] = timed_out(sockets[Top.slot])]
    BY <1>6, Zenon DEF ConnectWaits, At
  <2>2. Top.slot \in Slot /\ SameRef(sockets[Top.slot], timed_out(sockets[Top.slot]))
    BY <2>1, TopSlot, Sames
  <2>3. QED
    BY <2>1, <2>2, SlotKeeps, AllKeep
<1>7. CASE RecvWaits
  <2>1. /\ stack # << >> /\ Top.at = "recv"
        /\ UNCHANGED sockets \/ sockets' = [sockets EXCEPT ![Top.slot] = received(sockets[Top.slot], Top.n)]
    BY <1>7, Zenon DEF RecvWaits, At
  <2>2. Top.n \in Nat
    BY <2>1, TopFacts DEF RecvCalls
  <2>3. Top.slot \in Slot /\ SameRef(sockets[Top.slot], received(sockets[Top.slot], Top.n))
    BY <2>1, <2>2, TopSlot, Sames
  <2>4. QED
    BY <2>1, <2>3, SlotKeeps, AllKeep
<1>8. QED
  BY <1>1, <1>2, <1>3, <1>4, <1>5, <1>6, <1>7 DEF Kernel

---------------------------------------------------------------------------
(* Who waits for the answer to a SYN *)

ConnectCalls == {"connect", "connect_look"}
ElsewhereStep(kinds) ==
  \/ Top.at \notin kinds
  \/ stack' = <<Poll, [at |-> "irq"]>> \o stack
  \/ UNCHANGED stack

\* A step of another call leaves the outermost call alone.
LEMMA BottomStays ==
  ASSUME NetTyped, Moving, NEW kinds, "sendto" \notin kinds, stack # << >>, stack[Len(stack)].at \in kinds,
         ElsewhereStep(kinds)
  PROVE  stack' # << >> /\ stack'[Len(stack')] = stack[Len(stack)]
<1>0. Len(stack) \in Nat /\ Len(stack) >= 1 /\ Top = stack[1] /\ stack \in Seq(Calls)
  BY TopFacts
<1>1. CASE UNCHANGED stack
  BY <1>1
<1>2. CASE stack' = <<Poll, [at |-> "irq"]>> \o stack
  <2> DEFINE e == [at |-> "irq"]
             a == <<Poll, e>>
             b == stack'
  <2>1. e \in Calls /\ Poll \in Calls
    BY MadeCalls
  <2> HIDE DEF e
  <2>2. a \in Seq(Calls) /\ Len(a) = 2
    BY <2>1
  <2>3. b = a \o stack
    BY <1>2 DEF e
  <2> HIDE DEF a, b
  <2>4. b \in Seq(Calls) /\ Len(b) = 2 + Len(stack) /\ b[Len(b)] = stack[Len(stack)] /\ b # << >>
    <3>1. /\ a \o stack \in Seq(Calls) /\ Len(a \o stack) = Len(a) + Len(stack)
          /\ \A i \in 1 .. Len(a) + Len(stack) :
               (a \o stack)[i] = IF i <= Len(a) THEN a[i] ELSE stack[i - Len(a)]
      BY <1>0, <2>2, ConcatProperties
    <3> DEFINE n == Len(stack)
    <3>2. n + 2 \in 1 .. 2 + n /\ ~(n + 2 <= 2) /\ (n + 2) - 2 = n /\ n + 2 = 2 + n /\ n + 2 > 0
      BY <1>0
    <3> HIDE DEF n
    <3>3. b \in Seq(Calls) /\ Len(b) = 2 + n /\ b[2 + n] = stack[n]
      BY <2>2, <2>3, <3>1, <3>2 DEF n
    <3>4. b # << >>
      BY <3>2, <3>3
    <3>5. QED
      BY <3>3, <3>4 DEF n
  <2>5. QED
    BY <2>4 DEF b
<1>3. CASE Top.at \notin kinds
  <2>1. PICK pre \in Seq(Calls), k \in 0 .. 2 : k <= Len(stack) /\ Moves(pre, k)
    BY DEF Moving
  <2>2. Spliced(stack, stack', pre, k) /\ (k = 2 => stack[2].at = "sendto")
    BY <2>1 DEF Moves
  <2>3. Len(stack) # 1
    BY <1>0, <1>3
  <2>4. k < Len(stack)
    <3>1. PICK n : n = Len(stack)
      OBVIOUS
    <3>2. n \in Nat /\ n >= 1 /\ n # 1 /\ k <= n /\ k \in 0 .. 2
      BY <1>0, <2>1, <2>3, <3>1, Zenon
    <3>3. k = 2 => n # 2
      BY <2>2, <3>1
    <3>4. k < n
      BY <3>2, <3>3
    <3>5. QED
      BY <3>1, <3>4
  <2> DEFINE p == Len(pre)
             n == Len(stack)
             m == Len(stack')
  <2>5. /\ n \in Nat /\ p \in Nat /\ m \in Nat /\ m = p + n - k
        /\ \A i \in 1 .. n : i > k => i + p - k \in 1 .. m /\ stack'[i + p - k] = stack[i]
    BY <2>1, <2>2, SplicedFact, Zenon
  <2>6. n \in 1 .. n /\ n > k
    BY <1>0, <2>4
  <2>7. n + p - k \in 1 .. m /\ stack'[n + p - k] = stack[n] /\ n + p - k = m
    <3> HIDE DEF n, p, m
    <3>1. n + p - k \in 1 .. m /\ stack'[n + p - k] = stack[n]
      BY <2>5, <2>6
    <3>2. QED
      BY <2>5, <3>1
  <2>8. m \in 1 .. m /\ stack'[m] = stack[n]
    <3> HIDE DEF n, p, m
    <3>1. QED
      BY <2>7, Zenon
  <2>9. QED
    BY <2>8
<1>4. QED
  BY <1>1, <1>2, <1>3 DEF ElsewhereStep

LEMMA KernelSame ==
  ASSUME NetTyped, Kernel
  PROVE  \A i \in Slot : /\ Same(sockets[i], sockets'[i])
                         /\ sockets'[i].ref_count # 0 => sockets[i].ref_count # 0
<1>1. CASE Closed
  <2>1. /\ stack # << >> /\ Top.at = "close"
        /\ sockets' = [sockets EXCEPT ![Top.slot] = sock_close(sockets[Top.slot], Top.fin)]
    BY <1>1 DEF Closed, At
  <2>2. Top.slot \in Slot /\ Top.fin \in BOOLEAN
    BY <2>1, TopFacts DEF CloseCalls
  <2>3. \A j \in Slot : Same(sockets[j], sockets[j])
    BY Sames DEF NetTyped, SameRef
  <2>4. /\ Same(sockets[Top.slot], sock_close(sockets[Top.slot], Top.fin))
        /\ sock_close(sockets[Top.slot], Top.fin).ref_count = 0
    BY <2>2, Sames DEF NetTyped
  <2>5. \A j \in Slot : sockets'[j] = IF j = Top.slot THEN sock_close(sockets[Top.slot], Top.fin) ELSE sockets[j]
    BY <2>1, <2>2 DEF NetTyped
  <2>6. QED
    BY <2>3, <2>4, <2>5, Zenon
<1>2. CASE ~Closed
  BY <1>2, KernelKeeps DEF Keeps, SameRef
<1>3. QED
  BY <1>1, <1>2

\* The last call of a stack of one after Call or Become.
LEMMA LastCall ==
  ASSUME NetTyped, NestOK, stack # << >>, Top.at \in UserCalls, NEW f \in Calls, NEW g \in Calls,
         Call(<<g>>, f) \/ Become(f)
  PROVE  stack' # << >> /\ stack'[Len(stack')] = f
<1>1. Len(stack) = 1 /\ stack \in Seq(Calls)
  BY TopFacts DEF NestOK
<1>2. Tail(stack) = << >>
  <2>1. Tail(stack) \in Seq(Calls) /\ Len(Tail(stack)) = 0
    BY <1>1
  <2>2. QED
    BY <2>1, EmptySeq
<1> DEFINE a == <<g>> \o <<f>>
           b == <<f>>
<1>3. a \in Seq(Calls) /\ Len(a) = 2 /\ a[2] = f /\ b \in Seq(Calls) /\ Len(b) = 1 /\ b[1] = f
  OBVIOUS
<1>4. a \o << >> = a /\ b \o << >> = b
  BY <1>3, ConcatEmptySeq
<1>5. stack' = a \/ stack' = b
  BY <1>2, <1>4 DEF Call, Become
<1> HIDE DEF a, b
<1>6. a # << >> /\ b # << >>
  <2>1. Len(<< >>) = 0 /\ 2 # 0 /\ 1 # 0
    OBVIOUS
  <2>2. QED
    BY <1>3, <2>1, Zenon
<1>7. CASE stack' = a
  BY <1>3, <1>6, <1>7
<1>8. CASE stack' = b
  BY <1>3, <1>6, <1>8
<1>9. QED
  BY <1>5, <1>7, <1>8

LEMMA SynsWaitKernel ==
  ASSUME NetTyped, StackOK, Kernel, Moving
  PROVE  SynsWait'
<1> SUFFICES ASSUME NEW i \in Slot, sockets'[i].tcp_state = SYN_SENT PROVE Connecting(i)'
  BY DEF SynsWait
<1>1. Same(sockets[i], sockets'[i])
  BY KernelSame
<1>2. sockets[i].tcp_state = SYN_SENT /\ sockets'[i].error = sockets[i].error
  BY <1>1 DEF Same
<1>3. /\ stack # << >> /\ stack[Len(stack)].at \in {"connect", "connect_look"}
      /\ stack[Len(stack)].slot = i /\ sockets'[i].error = 0
  BY <1>2 DEF StackOK, SynsWait, Connecting
<1>4. CASE ConnectWaits
  <2>1. Top.at = "connect"
    BY <1>4 DEF ConnectWaits, At
  <2>2. Top \in WaitCalls /\ Top.at \in UserCalls /\ Top.slot \in Slot
    BY <1>3, <2>1, TopFacts, TopSlot DEF UserCalls
  <2>3. Top = stack[Len(stack)]
    BY <1>3, <2>2, TopFacts DEF StackOK, NestOK
  <2>4. Top.slot = i
    BY <1>3, <2>3
  <2> DEFINE f == [Top EXCEPT !.at = "connect_look"]
             s == sockets[Top.slot]
  <2>5. f \in Calls /\ f.at = "connect_look" /\ f.slot = Top.slot
    BY <2>2, AgainWait DEF WaitCalls
  <2>6. \/ Call(<<Poll>>, f)
        \/ sockets' = [sockets EXCEPT ![Top.slot] = timed_out(s)]
        \/ s.tcp_state = ESTABLISHED
    BY <1>4, Zenon DEF ConnectWaits
  <2> HIDE DEF f
  <2>7. s.tcp_state # ESTABLISHED
    BY <1>2, <2>4 DEF SYN_SENT, ESTABLISHED
  <2>8. sockets' # [sockets EXCEPT ![Top.slot] = timed_out(s)]
    <3>1. i \in DOMAIN sockets /\ s \in Socks
      BY <2>2, GoodFact DEF NetTyped
    <3>2. timed_out(s).tcp_state = CLOSED
      BY <3>1 DEF timed_out, Socks
    <3>3. QED
      BY <2>4, <3>1, <3>2 DEF CLOSED, SYN_SENT
  <2>9. Call(<<Poll>>, f)
    BY <2>6, <2>7, <2>8
  <2>10. Poll \in Calls
    BY MadeCalls
  <2>11. stack' # << >> /\ stack'[Len(stack')] = f
    BY <1>3, <2>2, <2>5, <2>9, <2>10, LastCall DEF StackOK
  <2>12. QED
    BY <1>3, <2>4, <2>5, <2>11 DEF Connecting
<1>5. CASE ConnectLooks
  <2>1. Top.at = "connect_look"
    BY <1>5 DEF ConnectLooks, At
  <2>2. Top \in WaitCalls /\ Top.at \in UserCalls /\ Top.slot \in Slot
    BY <1>3, <2>1, TopFacts, TopSlot DEF UserCalls
  <2>3. Top = stack[Len(stack)]
    BY <1>3, <2>2, TopFacts DEF StackOK, NestOK
  <2>4. Top.slot = i
    BY <1>3, <2>3
  <2> DEFINE f == [Top EXCEPT !.at = "connect", !.timeout = @ - 1]
             s == sockets[Top.slot]
             g == SendSyn(s)
  <2>5. f \in Calls /\ f.at = "connect" /\ f.slot = Top.slot
    BY <2>2, AgainWait DEF WaitCalls
  <2>6. s.tcp_state = ESTABLISHED \/ s.error # 0 \/ Call(<<g>>, f) \/ Become(f)
    BY <1>5, Zenon DEF ConnectLooks
  <2>7. s.tcp_state = SYN_SENT /\ s.error = 0
    BY <1>2, <1>3, <2>4
  <2>8. g \in Calls
    BY <2>2, <2>7, MadeCalls DEF NetTyped
  <2> HIDE DEF f, g
  <2>9. Call(<<g>>, f) \/ Become(f)
    BY <2>6, <2>7 DEF SYN_SENT, ESTABLISHED
  <2>10. stack' # << >> /\ stack'[Len(stack')] = f
    BY <1>3, <2>2, <2>5, <2>8, <2>9, LastCall DEF StackOK
  <2>11. QED
    BY <1>3, <2>4, <2>5, <2>10 DEF Connecting
<1>6. CASE ~ConnectWaits /\ ~ConnectLooks
  <2>1. Top.at \notin {"connect", "connect_look"}
    BY <1>6 DEF Kernel, At, SendPacket, Resolve, PollRx, PolledRx, IcmpInput, FinInput, FinSent,
         IrqReturn, Closed, AcceptWaits, SendtoChunk, RecvWaits, RecvLooks, SysPollWaits
  <2>2. stack' # << >> /\ stack'[Len(stack')] = stack[Len(stack)]
    BY <1>3, <2>1, BottomStays DEF StackOK, ElsewhereStep, ConnectCalls
  <2>3. QED
    BY <1>3, <2>2 DEF Connecting
<1>7. QED
  BY <1>4, <1>5, <1>6

---------------------------------------------------------------------------
(* What the calls of a program do to a slot *)

Fresh(new, type, port, n) ==
  /\ new.type = type /\ new.local_port = port /\ new.born = n /\ new.conn = 0
  /\ new.tcp_state = CLOSED /\ new.rx = << >> /\ new.got = << >> /\ new.dgrams = << >>
  /\ new.remote_ip = NoHost
  /\ ~new.fin_received

LEMMA SocketFact ==
  ASSUME NetTyped, NEW type \in types, Socket(type)
  PROVE  /\ stack = << >>
         /\ \E i \in Slot, new \in GoodSocks :
              /\ sockets[i].ref_count = 0 /\ sockets' = [sockets EXCEPT ![i] = new]
              /\ Fresh(new, type, s_ephemeral_port, made + 1)
              /\ \/ new.ref_count = 0 /\ UNCHANGED fds
                 \/ new.ref_count = 1 /\ \E fd \in 1 .. MAX_FDS : fds[fd] = 0 /\ fds' = [fds EXCEPT ![fd] = i]
         /\ made' = made + 1 /\ ports' = ports \cup {s_ephemeral_port}
         /\ reused' = (reused \/ s_ephemeral_port \in ports)
         /\ UNCHANGED <<stack, arp_table, descs, bufs, s_rx_cur, rdh, rdt, syns, flow, conns, shut, reentered, overrun>>
<1> DEFINE i == FirstFree(sockets)
           new == sock_create(sockets[i], type, s_ephemeral_port, made + 1)
<1>1. /\ stack = << >> /\ FreeSlots(sockets) # {}
      /\ \/ FreeFds = {} /\ sockets' = [sockets EXCEPT ![i] = sock_destroy(new)] /\ UNCHANGED fds
         \/ /\ FreeFds # {} /\ sockets' = [sockets EXCEPT ![i] = new]
            /\ fds' = [fds EXCEPT ![First(FreeFds)] = i]
      /\ made' = made + 1
      /\ ports' = ports \cup {s_ephemeral_port}
      /\ reused' = (reused \/ s_ephemeral_port \in ports)
      /\ UNCHANGED <<stack, arp_table, descs, bufs, s_rx_cur, rdh, rdt, syns, flow, conns, shut, reentered, overrun>>
  BY Zenon DEF Socket, InUser, cardVars, hostVars
<1>2. type \in Types /\ s_ephemeral_port \in Nat /\ made + 1 \in Nat
  BY Consts DEF NetTyped, TablesTyped
<1>3. i \in Slot /\ sockets[i].ref_count = 0
  <2> DEFINE S == FreeSlots(sockets)
  <2>1. S \in SUBSET Slot /\ S # {}
    BY <1>1 DEF FreeSlots
  <2> HIDE DEF S
  <2>2. S \in SUBSET Nat
    BY <2>1 DEF Slot
  <2>3. \E x \in S : \A j \in S : x <= j
    BY <2>1, <2>2, LeastExists
  <2>4. i \in S
    BY <2>3 DEF FirstFree, S
  <2>5. QED
    BY <2>4 DEF S, FreeSlots
<1>4. new \in GoodSocks /\ sock_destroy(new) \in GoodSocks
  BY <1>2, CreateGood
<1>5. Fresh(new, type, s_ephemeral_port, made + 1) /\ new.ref_count = 1
  BY DEF Fresh, sock_create, Unused
<1> HIDE DEF i, new
<1>6. Fresh(sock_destroy(new), type, s_ephemeral_port, made + 1) /\ sock_destroy(new).ref_count = 0
  BY <1>4, <1>5 DEF Fresh, sock_destroy, GoodSocks, Socks
<1>7. FreeFds # {} => First(FreeFds) \in 1 .. MAX_FDS /\ fds[First(FreeFds)] = 0
  <2> DEFINE S == FreeFds
  <2>1. S \in SUBSET Nat
    BY DEF FreeFds
  <2> HIDE DEF S
  <2>2. S # {} => First(S) \in S
    BY <2>1, FirstFact
  <2>3. QED
    BY <2>2 DEF S, FreeFds
<1>8. \E j \in Slot, n \in GoodSocks :
        /\ sockets[j].ref_count = 0 /\ sockets' = [sockets EXCEPT ![j] = n]
        /\ Fresh(n, type, s_ephemeral_port, made + 1)
        /\ \/ n.ref_count = 0 /\ UNCHANGED fds
           \/ n.ref_count = 1 /\ \E fd \in 1 .. MAX_FDS : fds[fd] = 0 /\ fds' = [fds EXCEPT ![fd] = j]
  <2>1. CASE FreeFds = {}
    BY <1>1, <1>3, <1>4, <1>6, <2>1, Zenon
  <2>2. CASE FreeFds # {}
    BY <1>1, <1>3, <1>4, <1>5, <1>7, <2>2, Zenon
  <2>3. QED
    BY <2>1, <2>2
<1>9. QED
  BY <1>1, <1>8, Zenon

Dialled(s, t, ip, c) ==
  /\ t.type = s.type /\ t.local_port = s.local_port /\ t.born = s.born /\ t.ref_count = s.ref_count
  /\ t.remote_ip = ip /\ t.rx = s.rx /\ t.dgrams = s.dgrams
  /\ s.type = STREAM =>
       /\ t.tcp_state = SYN_SENT /\ t.conn = c /\ t.got = << >> /\ t.remote_seq = 0
       /\ ~t.fin_received /\ t.error = 0
  /\ s.type # STREAM =>
       /\ t.tcp_state = s.tcp_state /\ t.conn = s.conn /\ t.got = s.got /\ t.remote_seq = s.remote_seq
       /\ (t.fin_received <=> s.fin_received) /\ t.error = s.error

LEMMA ConnectFact ==
  ASSUME NetTyped, NEW fd \in 1 .. MAX_FDS, NEW ip \in Hosts, Connect(fd, ip)
  PROVE  /\ stack = << >> /\ fds[fd] \in Slot
         /\ \E t \in GoodSocks :
              /\ sockets' = [sockets EXCEPT ![fds[fd]] = t]
              /\ Dialled(sockets[fds[fd]], t, ip, conns + 1)
              /\ t.type = STREAM =>
                   /\ conns < MaxConns /\ conns' = conns + 1
                   /\ stack' = <<SendSyn(t), [at |-> "connect", slot |-> fds[fd], timeout |-> CONNECT_POLLS]>>
                   /\ SendSyn(t) \in Calls
              /\ t.type # STREAM => conns' = conns /\ stack' = << >>
         /\ reused' = (reused \/ sockets[fds[fd]].conn # 0)
         /\ UNCHANGED <<arp_table, descs, bufs, s_rx_cur, rdh, rdt, syns, flow, fds, ports, shut, reentered, overrun>>
<1> DEFINE s == sockets[fds[fd]]
           t == connecting(s, ip, conns + 1)
<1>1. stack = << >> /\ fds[fd] \in Slot /\ s \in GoodSocks /\ s = Sock(fd)
  BY HasFact DEF Connect
<1>2. /\ t.type = STREAM => conns < MaxConns
      /\ sockets' = [sockets EXCEPT ![fds[fd]] = t]
      /\ stack' = IF t.type = STREAM
                  THEN <<SendSyn(t), [at |-> "connect", slot |-> fds[fd], timeout |-> CONNECT_POLLS]>>
                  ELSE << >>
      /\ conns' = conns + (IF t.type = STREAM THEN 1 ELSE 0)
      /\ reused' = (reused \/ s.conn # 0)
      /\ UNCHANGED <<arp_table, descs, bufs, s_rx_cur, rdh, rdt, syns, flow, fds, ports, shut, reentered, overrun>>
  BY Zenon DEF Connect, cardVars, hostVars, Sock
<1>3. s \in Socks
  BY <1>1, GoodFact
<1>4. conns \in Nat /\ conns \in 0 .. MaxConns
  BY Consts DEF NetTyped, TablesTyped
<1>5. Dialled(s, t, ip, conns + 1)
  <2> DEFINE c == conns + 1
  <2> HIDE DEF c, s
  <2>1. CASE s.type = STREAM
    <3>1. t = [s EXCEPT !.remote_ip = ip, !.tcp_state = SYN_SENT, !.remote_seq = 0,
                        !.error = 0, !.fin_received = FALSE, !.conn = c, !.got = << >>]
      BY <2>1, Zenon DEF connecting, c
    <3> HIDE DEF t
    <3>2. QED
      BY <1>3, <2>1, <3>1 DEF Dialled, Socks, c
  <2>2. CASE s.type # STREAM
    <3>1. t = [s EXCEPT !.remote_ip = ip]
      BY <2>2, Zenon DEF connecting
    <3> HIDE DEF t
    <3>2. QED
      BY <1>3, <2>2, <3>1 DEF Dialled, Socks
  <2>3. QED
    BY <2>1, <2>2
<1> HIDE DEF t, s
<1>6. t.type = s.type
  BY <1>5 DEF Dialled
<1>7. conns + 1 \in Nat /\ (s.type = STREAM => conns + 1 \in 1 .. MaxConns)
  <2>1. s.type = STREAM => conns < MaxConns
    BY <1>2, <1>6, Zenon
  <2>2. QED
    BY <1>4, <2>1, Consts
<1>8. t \in GoodSocks
  BY <1>1, <1>7, ConnectingGood DEF t
<1>9. t.type = STREAM => SendSyn(t) \in Calls
  BY <1>5, <1>6, <1>8, MadeCalls DEF Dialled
<1>10. (t.type = STREAM => conns' = conns + 1) /\ (t.type # STREAM => conns' = conns)
  BY <1>2, <1>4
<1>11. QED
  BY <1>1, <1>2, <1>5, <1>8, <1>9, <1>10, Zenon DEF s

LEMMA BindFact ==
  ASSUME NetTyped, NEW fd \in 1 .. MAX_FDS, NEW port \in BindPorts, Bind(fd, port)
  PROVE  /\ stack = << >> /\ fds[fd] \in Slot /\ port \in Nat
         /\ \E t \in GoodSocks : /\ sockets' = [sockets EXCEPT ![fds[fd]] = t]
                                 /\ t = [sockets[fds[fd]] EXCEPT !.local_port = port]
         /\ ports' = ports \cup {port}
         /\ reused' = (reused \/ port \in ports \ {sockets[fds[fd]].local_port})
         /\ UNCHANGED <<stack, arp_table, descs, bufs, s_rx_cur, rdh, rdt, syns, flow, fds, conns, made, shut,
                        reentered, overrun>>
<1>1. stack = << >> /\ fds[fd] \in Slot /\ sockets[fds[fd]] \in GoodSocks
  BY HasFact DEF Bind
<1>2. port \in Nat
  BY NetAssumption
<1>3. [sockets[fds[fd]] EXCEPT !.local_port = port] \in GoodSocks
  BY <1>1, <1>2, SetFields
<1>4. /\ sockets' = [sockets EXCEPT ![fds[fd]] = [sockets[fds[fd]] EXCEPT !.local_port = port]]
      /\ ports' = ports \cup {port}
      /\ reused' = (reused \/ port \in ports \ {sockets[fds[fd]].local_port})
      /\ UNCHANGED <<stack, arp_table, descs, bufs, s_rx_cur, rdh, rdt, syns, flow, fds, conns, made, shut,
                     reentered, overrun>>
  BY Zenon DEF Bind, Sock, cardVars, hostVars
<1>5. QED
  BY <1>1, <1>2, <1>3, <1>4, Zenon

\* listen, FIONBIO and SO_ERROR.
Opted(s, t) ==
  /\ t.type = s.type /\ t.local_port = s.local_port /\ t.remote_ip = s.remote_ip /\ t.conn = s.conn
  /\ t.born = s.born /\ t.ref_count = s.ref_count /\ t.rx = s.rx /\ t.got = s.got /\ t.dgrams = s.dgrams
  /\ t.remote_seq = s.remote_seq /\ (t.fin_received <=> s.fin_received)
  /\ t.tcp_state = s.tcp_state \/ t.tcp_state = LISTEN

LEMMA OptionFact ==
  ASSUME NetTyped, NEW fd \in 1 .. MAX_FDS, Option(fd)
  PROVE  /\ stack = << >> /\ fds[fd] \in Slot /\ SocketStep /\ UNCHANGED stack
         /\ \E t \in GoodSocks : /\ sockets' = [sockets EXCEPT ![fds[fd]] = t]
                                 /\ Opted(sockets[fds[fd]], t)
<1>1. /\ stack = << >> /\ fds[fd] \in Slot /\ sockets[fds[fd]] \in GoodSocks /\ SocketStep /\ UNCHANGED stack
  BY HasFact DEF Option
<1> DEFINE s == sockets[fds[fd]]
           t1 == [s EXCEPT !.tcp_state = LISTEN]
           t2(nb) == [s EXCEPT !.nonblocking = nb]
           t3 == [s EXCEPT !.error = 0]
<1>2. \/ sockets' = [sockets EXCEPT ![fds[fd]] = t1]
      \/ \E nb \in BOOLEAN : sockets' = [sockets EXCEPT ![fds[fd]] = t2(nb)]
      \/ sockets' = [sockets EXCEPT ![fds[fd]] = t3]
  BY Zenon DEF Option
<1>3. s \in GoodSocks /\ s \in Socks
  BY <1>1, GoodFact
<1>4. LISTEN \in TcpStates /\ LISTEN # SYN_SENT
  BY StateFacts
<1> HIDE DEF s
<1>5. t1 \in GoodSocks /\ t3 \in GoodSocks /\ \A nb \in BOOLEAN : t2(nb) \in GoodSocks
  BY <1>3, <1>4, SetFields
<1>6. Opted(s, t1) /\ Opted(s, t3)
  BY <1>3 DEF Opted, Socks
<1>7. ASSUME NEW nb \in BOOLEAN PROVE Opted(s, t2(nb))
  BY <1>3 DEF Opted, Socks
<1>8. \E t \in GoodSocks : sockets' = [sockets EXCEPT ![fds[fd]] = t] /\ Opted(s, t)
  <2> HIDE DEF t1, t2, t3
  <2>1. QED
    BY <1>2, <1>5, <1>6, <1>7, Zenon
<1>9. QED
  BY <1>1, <1>8 DEF s

LEMMA CloseFact ==
  ASSUME NetTyped, NEW fd \in 1 .. MAX_FDS, NEW shutdown \in BOOLEAN, Close(fd, shutdown)
  PROVE  /\ stack = << >> /\ fds[fd] \in Slot /\ fds[fd] # 0
         /\ \E f \in Calls, g \in Calls :
              /\ stack' = <<f>> \/ stack' = <<g, f>>
              /\ f.at = "close" /\ f.slot = fds[fd] /\ g.at = "send" /\ g.syn = << >>
         /\ fds' = IF shutdown THEN fds ELSE [fds EXCEPT ![fd] = 0]
         /\ shut' = (shut \/ shutdown)
         /\ UNCHANGED <<sockets, arp_table, descs, bufs, s_rx_cur, rdh, rdt, syns, flow, conns, ports, reused,
                        reentered, overrun>>
<1>1. stack = << >> /\ fds[fd] \in Slot /\ Sock(fd) \in GoodSocks /\ fds[fd] # 0
  BY HasFact DEF Close, Has
<1> DEFINE fin == CloseSendsFin(Sock(fd))
           g == Send(Sock(fd).remote_ip)
           f == [at |-> "close", slot |-> fds[fd], fin |-> fin]
<1>2. /\ stack' = (IF fin THEN <<g>> ELSE << >>) \o <<f>>
      /\ fds' = IF shutdown THEN fds ELSE [fds EXCEPT ![fd] = 0]
      /\ shut' = (shut \/ shutdown)
      /\ UNCHANGED <<sockets, arp_table, descs, bufs, s_rx_cur, rdh, rdt, syns, flow, conns, ports, reused,
                     reentered, overrun>>
  BY Zenon DEF Close, cardVars, hostVars
<1>3. fin \in BOOLEAN
  BY DEF CloseSendsFin
<1>4. g \in Calls /\ g.at = "send" /\ g.syn = << >>
  BY <1>1, GoodFact, MadeCalls DEF Send
<1> HIDE DEF fin, g
<1>5. f \in CloseCalls /\ f.at = "close" /\ f.slot = fds[fd]
  BY <1>1, <1>3 DEF CloseCalls
<1> HIDE DEF f
<1>6. f \in Calls
  BY <1>5, Zenon DEF Calls, WholeCalls
<1>7. stack' = <<f>> \/ stack' = <<g, f>>
  <2>1. << >> \o <<f>> = <<f>>
    <3>1. <<f>> \in Seq(Calls)
      BY <1>6
    <3>2. QED
      BY <3>1, ConcatEmptySeq
  <2>2. (stack' = << >> \o <<f>>) \/ (stack' = <<g>> \o <<f>>)
    BY <1>2, Zenon
  <2>3. <<g>> \o <<f>> = <<g, f>>
    BY <1>4, <1>6, TwoCalls
  <2>4. QED
    BY <2>1, <2>2, <2>3, Zenon
<1>8. QED
  BY <1>1, <1>2, <1>4, <1>5, <1>6, <1>7, Zenon

\* The network only touches what is on its side of the card.
LEMMA WorldKeeps ==
  ASSUME World
  PROVE  UNCHANGED <<sockets, stack, arp_table, syns, userVars, reentered, torn, overrun>>
<1>1. ASSUME NEW g, Arrive(g) PROVE UNCHANGED <<sockets, stack, arp_table, syns, userVars, reentered, torn, overrun>>
  BY <1>1, Zenon DEF Arrive
<1>2. \E g : Arrive(g)
  <2>1. CASE Packet
    BY <2>1, Zenon DEF Packet
  <2>2. ASSUME NEW syn \in syns, Answer(syn) PROVE \E g : Arrive(g)
    BY <2>2, Zenon DEF Answer
  <2>3. ASSUME NEW syn \in syns, NEW n \in 0 .. MaxBytes, NEW fin \in BOOLEAN, Data(syn, n, fin)
        PROVE  \E g : Arrive(g)
    BY <2>3, Zenon DEF Data
  <2>4. QED
    BY <2>1, <2>2, <2>3, Zenon DEF World
<1>3. QED
  BY <1>1, <1>2

\* Histories only ever become true.
LEMMA Flags ==
  ASSUME NetTyped, [Whole]_vars
  PROVE  /\ reentered => reentered'
         /\ reused => reused'
         /\ overrun => overrun'
         /\ shut => shut'
         /\ torn' = torn
<1>1. CASE UNCHANGED vars
  BY <1>1, SameVars
<1>2. CASE Kernel
  <2>1. /\ UNCHANGED <<reused, shut, torn>>
        /\ UNCHANGED <<reentered, overrun>> \/ PollRx
    BY <1>2 DEF Kernel, SocketStep, userVars, SendPacket, Resolve, PollRx, PolledRx, IcmpInput, FinInput,
         FinSent, IrqReturn, Closed, ConnectWaits, ConnectLooks, AcceptWaits, SendtoChunk, RecvWaits,
         RecvLooks, SysPollWaits
  <2>2. PollRx => (reentered => reentered') /\ (overrun => overrun')
    BY Zenon DEF PollRx
  <2>3. QED
    BY <2>1, <2>2
<1>3. CASE Irq \/ World
  <2>1. UNCHANGED <<reentered, overrun, torn, reused, shut>>
    BY <1>3, WorldKeeps DEF Irq, userVars
  <2>2. QED
    BY <2>1
<1>4. CASE Program
  <2>1. ASSUME NEW type \in types, Socket(type)
        PROVE  UNCHANGED <<reentered, overrun, torn, shut>> /\ reused' = (reused \/ s_ephemeral_port \in ports)
    BY <2>1, Zenon DEF Socket
  <2>2. ASSUME NEW fd \in 1 .. MAX_FDS, NEW port \in BindPorts, Bind(fd, port)
        PROVE  UNCHANGED <<reentered, overrun, torn, shut>> /\ (reused => reused')
    BY <2>2, Zenon DEF Bind
  <2>3. ASSUME NEW fd \in 1 .. MAX_FDS, NEW ip \in Hosts, Connect(fd, ip)
        PROVE  UNCHANGED <<reentered, overrun, torn, shut>> /\ (reused => reused')
    BY <2>3, Zenon DEF Connect
  <2>4. ASSUME NEW fd \in 1 .. MAX_FDS, NEW shutdown \in BOOLEAN, Close(fd, shutdown)
        PROVE  UNCHANGED <<reentered, overrun, torn, reused>> /\ (shut => shut')
    BY <2>4, Zenon DEF Close
  <2>5. ASSUME NEW fd \in 1 .. MAX_FDS,
               \/ Option(fd) \/ Accept(fd)
               \/ \E ip \in Hosts \cup {NoHost}, n \in Chunks : Sendto(fd, ip, n)
               \/ \E n \in Counts : Recv(fd, n)
               \/ \E n \in POLL_ROUNDS : SysPoll(fd, n)
        PROVE  UNCHANGED <<reentered, overrun, torn, reused, shut>>
    <3>1. SocketStep
      BY <2>5, Zenon DEF Option, Accept, Sendto, Recv, SysPoll
    <3>2. QED
      BY <3>1 DEF SocketStep, userVars
  <2>6. QED
    BY <1>4, <2>1, <2>2, <2>3, <2>4, <2>5, Zenon DEF Program
<1>5. QED
  BY <1>1, <1>2, <1>3, <1>4 DEF Whole, Compute, StackFull

LEMMA SynsWaitProgram ==
  ASSUME NetTyped, StackOK, Program
  PROVE  SynsWait'
<1>0. \A j \in Slot : sockets[j] \in GoodSocks
  BY DEF NetTyped
<1>1. stack = << >> => \A j \in Slot : sockets[j].tcp_state # SYN_SENT
  BY DEF StackOK, SynsWait, Connecting
\* A slot that is set, to anything but SYN_SENT.
<1>2. ASSUME stack = << >>, NEW i \in Slot, NEW t, sockets' = [sockets EXCEPT ![i] = t], t.tcp_state # SYN_SENT
      PROVE  SynsWait'
  <2>1. \A j \in Slot : sockets'[j] = IF j = i THEN t ELSE sockets[j]
    BY <1>2 DEF NetTyped
  <2>2. \A j \in Slot : sockets'[j].tcp_state # SYN_SENT
    BY <1>1, <1>2, <2>1
  <2>3. QED
    BY <2>2 DEF SynsWait
<1>3. ASSUME stack = << >>, UNCHANGED sockets PROVE SynsWait'
  BY <1>1, <1>3 DEF SynsWait
<1>4. ASSUME NEW type \in types, Socket(type) PROVE SynsWait'
  <2>1. PICK i \in Slot, new \in GoodSocks :
          sockets' = [sockets EXCEPT ![i] = new] /\ Fresh(new, type, s_ephemeral_port, made + 1)
    BY <1>4, SocketFact, Zenon
  <2>2. stack = << >>
    BY <1>4, SocketFact, Zenon
  <2>3. new.tcp_state # SYN_SENT
    BY <2>1, StateFacts DEF Fresh
  <2>4. QED
    BY <1>2, <2>1, <2>2, <2>3
<1>5. ASSUME NEW fd \in 1 .. MAX_FDS, NEW port \in BindPorts, Bind(fd, port) PROVE SynsWait'
  <2>1. PICK t \in GoodSocks : /\ sockets' = [sockets EXCEPT ![fds[fd]] = t]
                               /\ t = [sockets[fds[fd]] EXCEPT !.local_port = port]
    BY <1>5, BindFact, Zenon
  <2>2. stack = << >> /\ fds[fd] \in Slot
    BY <1>5, BindFact, Zenon
  <2>3. t.tcp_state = sockets[fds[fd]].tcp_state
    BY <1>0, <2>1, <2>2 DEF GoodSocks, Socks
  <2>4. QED
    BY <1>1, <1>2, <2>1, <2>2, <2>3
<1>6. ASSUME NEW fd \in 1 .. MAX_FDS, Option(fd) PROVE SynsWait'
  <2>1. PICK t \in GoodSocks : sockets' = [sockets EXCEPT ![fds[fd]] = t] /\ Opted(sockets[fds[fd]], t)
    BY <1>6, OptionFact, Zenon
  <2>2. stack = << >> /\ fds[fd] \in Slot
    BY <1>6, OptionFact, Zenon
  <2>3. t.tcp_state = sockets[fds[fd]].tcp_state \/ t.tcp_state = LISTEN
    BY <2>1 DEF Opted
  <2>4. QED
    BY <1>1, <1>2, <2>1, <2>2, <2>3, StateFacts
<1>7. ASSUME NEW fd \in 1 .. MAX_FDS, NEW shutdown \in BOOLEAN, Close(fd, shutdown) PROVE SynsWait'
  BY <1>3, <1>7, CloseFact
<1>8. ASSUME NEW fd \in 1 .. MAX_FDS, NEW ip \in Hosts, Connect(fd, ip) PROVE SynsWait'
  <2>1. PICK t \in GoodSocks :
          /\ sockets' = [sockets EXCEPT ![fds[fd]] = t]
          /\ Dialled(sockets[fds[fd]], t, ip, conns + 1)
          /\ t.type = STREAM =>
               stack' = <<SendSyn(t), [at |-> "connect", slot |-> fds[fd], timeout |-> CONNECT_POLLS]>>
    BY <1>8, ConnectFact, Zenon
  <2>2. stack = << >> /\ fds[fd] \in Slot
    BY <1>8, ConnectFact, Zenon
  <2>3. CASE t.type = STREAM
    <3> DEFINE f == [at |-> "connect", slot |-> fds[fd], timeout |-> CONNECT_POLLS]
               g == SendSyn(t)
    <3>1. stack' = <<g, f>> /\ f.at = "connect" /\ f.slot = fds[fd]
      BY <2>1, <2>3
    <3> HIDE DEF f, g
    <3>2. stack' # << >> /\ Len(stack') = 2 /\ stack'[2] = f
      BY <3>1
    <3>3. \A j \in Slot : sockets'[j] = IF j = fds[fd] THEN t ELSE sockets[j]
      BY <2>1, <2>2 DEF NetTyped
    <3>4. t.error = 0
      BY <2>1, <2>3 DEF Dialled
    <3>5. ASSUME NEW j \in Slot, sockets'[j].tcp_state = SYN_SENT PROVE Connecting(j)'
      <4>1. j = fds[fd]
        BY <1>1, <2>2, <3>3, <3>5
      <4>2. QED
        BY <3>1, <3>2, <3>3, <3>4, <4>1 DEF Connecting
    <3>6. QED
      BY <3>5 DEF SynsWait
  <2>4. CASE t.type # STREAM
    <3>1. t.tcp_state = sockets[fds[fd]].tcp_state
      BY <2>1, <2>4 DEF Dialled
    <3>2. QED
      BY <1>1, <1>2, <2>1, <2>2, <3>1
  <2>5. QED
    BY <2>3, <2>4
<1>9. ASSUME NEW fd \in 1 .. MAX_FDS,
             \/ Accept(fd)
             \/ \E ip \in Hosts \cup {NoHost}, n \in Chunks : Sendto(fd, ip, n)
             \/ \E n \in Counts : Recv(fd, n)
             \/ \E n \in POLL_ROUNDS : SysPoll(fd, n)
      PROVE  SynsWait'
  <2>1. UNCHANGED sockets /\ Has(fd)
    BY <1>9, Zenon DEF Accept, Sendto, Recv, SysPoll
  <2>2. QED
    BY <1>3, <2>1 DEF Has, InUser
<1>10. QED
  BY <1>4, <1>5, <1>6, <1>7, <1>8, <1>9, Zenon DEF Program

LEMMA StackKept ==
  ASSUME NetTyped, StackOK, [Whole]_vars
  PROVE  StackOK'
<1>1. Moving /\ NetTyped' /\ (reentered => reentered')
  BY WholeTyped, Flags
<1>2. NestOK'
  BY <1>1, NestKept DEF StackOK
<1>3. SynsWait'
  <2>1. ASSUME UNCHANGED sockets, ElsewhereStep(ConnectCalls) PROVE SynsWait'
    <3>1. ASSUME NEW i \in Slot, sockets'[i].tcp_state = SYN_SENT PROVE Connecting(i)'
      <4>1. Connecting(i)
        BY <2>1, <3>1 DEF StackOK, SynsWait
      <4>2. stack # << >> /\ stack[Len(stack)].at \in {"connect", "connect_look"}
        BY <4>1 DEF Connecting
      <4>3. stack' # << >> /\ stack'[Len(stack')] = stack[Len(stack)]
        BY <1>1, <2>1, <4>2, BottomStays DEF ConnectCalls
      <4>4. QED
        BY <2>1, <4>1, <4>3 DEF Connecting
    <3>2. QED
      BY <3>1 DEF SynsWait
  <2>2. CASE UNCHANGED vars
    BY <2>1, <2>2, SameVars DEF ElsewhereStep
  <2>3. CASE Irq
    BY <2>1, <2>3 DEF Irq, ElsewhereStep
  <2>4. CASE World
    <3>1. UNCHANGED <<sockets, stack>>
      BY <2>4, WorldKeeps
    <3>2. QED
      BY <2>1, <3>1 DEF ElsewhereStep
  <2>5. CASE Kernel
    BY <1>1, <2>5, SynsWaitKernel
  <2>6. CASE Program
    BY <2>6, SynsWaitProgram
  <2>7. QED
    BY <2>2, <2>3, <2>4, <2>5, <2>6 DEF Whole, Compute, StackFull
<1>4. QED
  BY <1>2, <1>3 DEF StackOK

LEMMA WholeBase ==
  ASSUME Base, [Whole]_vars
  PROVE  Base'
<1>1. /\ NetTyped /\ BottomOK /\ CutsOK /\ Moving /\ NetTyped'
      /\ reentered => reentered'
      /\ torn' = torn
  BY WholeTyped, Flags DEF Base
<1>2. BottomOK'
  BY <1>1, BottomKept
<1>3. PICK pre \in Seq(Calls), k \in 0 .. 2 : k <= Len(stack) /\ Moves(pre, k)
  BY <1>1 DEF Moving
<1>4. ASSUME NEW i \in 1 .. Len(stack')
      PROVE  (stack'[i].at \in Cuts => reentered') /\ (stack'[i].at \in TornCuts => torn')
  <2>1. \/ i \in 1 .. Len(pre) /\ stack'[i] = pre[i]
        \/ i - Len(pre) + k \in 1 .. Len(stack) /\ stack'[i] = stack[i - Len(pre) + k]
    <3>1. Spliced(stack, stack', pre, k)
      BY <1>3 DEF Moves
    <3>2. QED
      BY <1>1, <1>3, <3>1, SplicedFact, Zenon
  <2>2. ASSUME NEW j \in 1 .. Len(pre) PROVE pre[j].at \notin Cuts /\ pre[j].at \notin TornCuts
    BY <1>3 DEF Moves, Cuts, TornCuts
  <2>3. \A j \in 1 .. Len(stack) : (stack[j].at \in Cuts => reentered) /\ (stack[j].at \in TornCuts => torn)
    BY <1>1 DEF CutsOK
  <2>4. QED
    BY <1>1, <2>1, <2>2, <2>3
<1>5. QED
  BY <1>1, <1>2, <1>4 DEF Base, CutsOK

---------------------------------------------------------------------------
(* How much waits in a slot *)

Bounded(s) ==
  /\ Len(s.rx) <= SOCKET_RX_BUF_SIZE /\ Len(s.dgrams) <= MAX_DGRAM_QUEUE
  /\ \A k \in DOMAIN s.dgrams : s.dgrams[k] = s.born

\* The limits of the queues and of the ARP table, which hold until a change is divided.
BoundsOK == ~torn => (\A i \in Slot : Bounded(sockets[i])) /\ ArpOnce(arp_table)

Bounds(s, t) == Bounded(s) => Bounded(t)
KeepsBounds == /\ \A i \in Slot : Bounds(sockets[i], sockets'[i])
               /\ ArpOnce(arp_table) => ArpOnce(arp_table')

LEMMA SameBounds ==
  ASSUME NEW s, NEW t, t.rx = s.rx, t.dgrams = s.dgrams, t.born = s.born
  PROVE  Bounds(s, t)
BY Zenon DEF Bounds, Bounded

LEMMA QueuedBounds ==
  ASSUME NEW s \in GoodSocks
  PROVE  Bounds(s, queued(s))
<1>1. CASE Len(s.dgrams) < MAX_DGRAM_QUEUE
  <2> DEFINE q == Append(s.dgrams, s.born)
             t == [s EXCEPT !.dgrams = q]
  <2>1. s.dgrams \in Seq(Nat) /\ s.born \in Nat /\ s \in Socks
    BY GoodFact
  <2>2. /\ Len(s.dgrams) \in Nat /\ Len(q) = Len(s.dgrams) + 1 /\ DOMAIN q = 1 .. Len(s.dgrams) + 1
        /\ DOMAIN s.dgrams = 1 .. Len(s.dgrams) /\ q[Len(s.dgrams) + 1] = s.born
        /\ \A k \in 1 .. Len(s.dgrams) : q[k] = s.dgrams[k]
    BY <2>1
  <2> HIDE DEF q
  <2>3. t.rx = s.rx /\ t.dgrams = q /\ t.born = s.born
    BY <2>1 DEF Socks
  <2>4. queued(s) = t
    BY <1>1 DEF queued, q
  <2> HIDE DEF t
  <2> SUFFICES ASSUME Bounded(s) PROVE Bounded(t)
    BY <2>4 DEF Bounds
  <2>5. Len(q) <= MAX_DGRAM_QUEUE
    BY <1>1, <2>2, Consts
  <2>6. ASSUME NEW k \in DOMAIN q PROVE q[k] = s.born
    <3>1. k = Len(s.dgrams) + 1 \/ k \in 1 .. Len(s.dgrams)
      BY <2>2
    <3>2. QED
      BY <2>2, <3>1 DEF Bounded
  <2>7. QED
    BY <2>3, <2>5, <2>6, Zenon DEF Bounded
<1>2. CASE ~(Len(s.dgrams) < MAX_DGRAM_QUEUE)
  BY <1>2 DEF queued, Bounds
<1>3. QED
  BY <1>1, <1>2

LEMMA ReceivedBounds ==
  ASSUME NEW s \in GoodSocks, NEW n \in Nat, ~Empty(s)
  PROVE  Bounds(s, received(s, n))
<1>1. s.rx \in Seq(Items) /\ s.got \in Seq(Items) /\ s.dgrams \in Seq(Nat) /\ s \in Socks
  BY GoodFact
<1>2. CASE s.type = STREAM
  <2> DEFINE k == Lesser(n, Len(s.rx))
             r == SubSeq(s.rx, k + 1, Len(s.rx))
             g == s.got \o SubSeq(s.rx, 1, k)
             t == [s EXCEPT !.rx = r, !.got = g]
  <2>1. k \in Nat /\ k <= Len(s.rx)
    BY <1>1 DEF Lesser
  <2>2. received(s, n) = t
    BY <1>2, Zenon DEF received
  <2> HIDE DEF k
  <2>3. Len(r) \in Nat /\ Len(r) <= Len(s.rx) /\ Len(s.rx) \in Nat
    BY <1>1, <2>1
  <2> HIDE DEF r, g
  <2>4. t.rx = r /\ t.dgrams = s.dgrams /\ t.born = s.born
    BY <1>1 DEF Socks
  <2> HIDE DEF t
  <2>5. Len(s.rx) <= SOCKET_RX_BUF_SIZE => Len(r) <= SOCKET_RX_BUF_SIZE
    BY <2>3, Consts
  <2>6. QED
    BY <2>2, <2>4, <2>5, Zenon DEF Bounds, Bounded
<1>3. CASE s.type # STREAM
  <2> DEFINE q == Tail(s.dgrams)
             t == [s EXCEPT !.dgrams = q]
  <2>1. received(s, n) = t
    BY <1>3 DEF received
  <2>2. s.dgrams # << >>
    BY <1>3 DEF Empty
  <2>3. /\ Len(s.dgrams) \in Nat /\ Len(q) = Len(s.dgrams) - 1 /\ DOMAIN q = 1 .. Len(s.dgrams) - 1
        /\ DOMAIN s.dgrams = 1 .. Len(s.dgrams)
        /\ \A k \in 1 .. Len(s.dgrams) - 1 : q[k] = s.dgrams[k + 1]
    BY <1>1, <2>2
  <2> HIDE DEF q
  <2>4. t.rx = s.rx /\ t.dgrams = q /\ t.born = s.born
    BY <1>1 DEF Socks
  <2> HIDE DEF t
  <2> SUFFICES ASSUME Bounded(s) PROVE Bounded(t)
    BY <2>1 DEF Bounds
  <2>5. Len(q) <= MAX_DGRAM_QUEUE
    BY <2>3, Consts DEF Bounded
  <2>6. ASSUME NEW k \in DOMAIN q PROVE q[k] = s.born
    <3>1. k + 1 \in 1 .. Len(s.dgrams) /\ k \in 1 .. Len(s.dgrams) - 1
      BY <2>3
    <3>2. QED
      BY <2>3, <3>1 DEF Bounded
  <2>7. QED
    BY <2>4, <2>5, <2>6, Zenon DEF Bounded
<1>4. QED
  BY <1>2, <1>3

LEMMA TcpBounds ==
  ASSUME NEW s \in Socks, NEW f \in Segments
  PROVE  Bounds(s, tcp_input(s, f)) /\ tcp_input(s, f).ref_count = s.ref_count
<1> DEFINE r1 == [s EXCEPT !.tcp_state = CLOSED, !.error = 104]
           r2 == [s EXCEPT !.tcp_state = ESTABLISHED, !.remote_seq = 0]
<1>1. tcp_input(s, f) \in {r1, r2, stored(s, f), s}
  BY DEF tcp_input
<1>2. r1.ref_count = s.ref_count /\ r1.rx = s.rx /\ r1.dgrams = s.dgrams /\ r1.born = s.born
  BY DEF Socks
<1>3. r2.ref_count = s.ref_count /\ r2.rx = s.rx /\ r2.dgrams = s.dgrams /\ r2.born = s.born
  BY DEF Socks
<1>4. Bounds(s, stored(s, f)) /\ stored(s, f).ref_count = s.ref_count
  <2> DEFINE m == Lesser(f.len, Room(s))
             x == SubSeq(Bytes(f), 1, m)
             r == s.rx \o x
             q == s.remote_seq + f.len
             t == [s EXCEPT !.rx = r, !.remote_seq = q]
  <2>1. f.len \in Nat /\ s.rx \in Seq(Items) /\ Len(s.rx) \in Nat /\ s.remote_seq \in Nat
    BY BytesFact DEF Socks
  <2>2. /\ m \in Int /\ m <= f.len
        /\ Len(s.rx) <= SOCKET_RX_BUF_SIZE => m <= SOCKET_RX_BUF_SIZE - Len(s.rx)
    BY <2>1, Consts DEF Lesser, Room
  <2>3. stored(s, f) = t
    BY Zenon DEF stored
  <2> HIDE DEF m
  <2>4. x \in Seq(Items) /\ Len(x) = IF 1 <= m THEN m - 1 + 1 ELSE 0
    BY <2>2, SomeBytes
  <2> HIDE DEF x
  <2>5. Len(r) = Len(s.rx) + Len(x)
    BY <2>1, <2>4
  <2> HIDE DEF r, q
  <2>6. Len(s.rx) <= SOCKET_RX_BUF_SIZE => Len(r) <= SOCKET_RX_BUF_SIZE
    <3> DEFINE a == Len(s.rx)
    <3>1. /\ a \in Nat /\ m \in Int /\ SOCKET_RX_BUF_SIZE \in Nat
          /\ a <= SOCKET_RX_BUF_SIZE => m <= SOCKET_RX_BUF_SIZE - a
          /\ Len(r) = a + (IF 1 <= m THEN m - 1 + 1 ELSE 0)
      BY <2>1, <2>2, <2>4, <2>5, Consts, Zenon
    <3> HIDE DEF a
    <3>2. a <= SOCKET_RX_BUF_SIZE => Len(r) <= SOCKET_RX_BUF_SIZE
      BY <3>1
    <3>3. QED
      BY <3>2 DEF a
  <2>7. t.rx = r /\ t.dgrams = s.dgrams /\ t.born = s.born /\ t.ref_count = s.ref_count
    BY DEF Socks
  <2> HIDE DEF t
  <2>8. QED
    BY <2>3, <2>6, <2>7, Zenon DEF Bounds, Bounded
<1> HIDE DEF r1, r2
<1>5. Bounds(s, r1) /\ Bounds(s, r2) /\ Bounds(s, s)
  BY <1>2, <1>3, SameBounds
<1>6. QED
  BY <1>1, <1>2, <1>3, <1>4, <1>5

LEMMA OtherBounds ==
  ASSUME NEW s \in GoodSocks
  PROVE  /\ Bounds(s, s) /\ Bounds(s, fin_input(s)) /\ Bounds(s, fin_state(s)) /\ Bounds(s, timed_out(s))
         /\ \A fin \in BOOLEAN : Bounds(s, sock_close(s, fin))
         /\ \A x \in TcpStates : Bounds(s, [s EXCEPT !.tcp_state = x])
<1>0. s \in Socks
  BY GoodFact
<1>1. fin_input(s).rx = s.rx /\ fin_input(s).dgrams = s.dgrams /\ fin_input(s).born = s.born
  BY <1>0 DEF fin_input, Socks
<1>2. fin_state(s).rx = s.rx /\ fin_state(s).dgrams = s.dgrams /\ fin_state(s).born = s.born
  BY <1>0 DEF fin_state, Socks
<1>3. timed_out(s).rx = s.rx /\ timed_out(s).dgrams = s.dgrams /\ timed_out(s).born = s.born
  BY <1>0 DEF timed_out, Socks
<1>4. ASSUME NEW fin \in BOOLEAN PROVE Bounds(s, sock_close(s, fin))
  <2>1. LET t == sock_close(s, fin) IN t.rx = s.rx /\ t.dgrams = s.dgrams /\ t.born = s.born
    BY <1>0 DEF sock_close, Socks
  <2>2. QED
    BY <2>1, SameBounds
<1>5. ASSUME NEW x \in TcpStates PROVE Bounds(s, [s EXCEPT !.tcp_state = x])
  <2> DEFINE t == [s EXCEPT !.tcp_state = x]
  <2>1. t.rx = s.rx /\ t.dgrams = s.dgrams /\ t.born = s.born
    BY <1>0 DEF Socks
  <2> HIDE DEF t
  <2>2. Bounds(s, t)
    BY <2>1, SameBounds
  <2>3. QED
    BY <2>2 DEF t
<1>6. QED
  BY <1>1, <1>2, <1>3, <1>4, <1>5, SameBounds

LEMMA SlotBounds ==
  ASSUME NetTyped, NEW i \in Slot, NEW t, Bounds(sockets[i], t), sockets' = [sockets EXCEPT ![i] = t]
  PROVE  \A j \in Slot : Bounds(sockets[j], sockets'[j])
<1>1. \A j \in Slot : sockets'[j] = IF j = i THEN t ELSE sockets[j]
  BY DEF NetTyped
<1>2. QED
  BY <1>1, Zenon DEF Bounds

LEMMA RxBounds ==
  ASSUME NetTyped, NEW f \in Frames, sockets' = rx_sockets(f)
  PROVE  \A j \in Slot : Bounds(sockets[j], sockets'[j])
<1>0. \A j \in Slot : sockets[j] \in GoodSocks
  BY DEF NetTyped
<1>1. CASE f.kind = "udp"
  <2> DEFINE S == udp_match(sockets, f)
             i == First(S)
  <2>0. ~Matches(f)
    BY <1>1 DEF Matches
  <2>1. sockets' = IF S = {} THEN sockets ELSE [sockets EXCEPT ![i] = queued(sockets[i])]
    BY <1>1, <2>0, Zenon DEF rx_sockets, socket_udp_input
  <2>2. S \in SUBSET Slot
    BY DEF udp_match
  <2> HIDE DEF S
  <2>3. S \in SUBSET Nat
    BY <2>2 DEF Slot
  <2>4. CASE S # {}
    <3>1. i \in Slot
      BY <2>2, <2>3, <2>4, FirstFact
    <3> HIDE DEF i
    <3>2. Bounds(sockets[i], queued(sockets[i]))
      BY <1>0, <3>1, QueuedBounds
    <3>3. QED
      BY <2>1, <2>4, <3>1, <3>2, SlotBounds
  <2>5. QED
    BY <2>1, <2>4 DEF Bounds
<1>2. CASE f.kind # "udp" /\ Matches(f)
  <2> DEFINE i == Target(f)
             t == tcp_input(sockets[i], f)
  <2>1. i \in Slot /\ f \in Segments
    BY <1>2, TargetFact, FrameKinds
  <2>2. sockets[i] \in Socks
    BY <1>0, <2>1, GoodFact
  <2>3. Bounds(sockets[i], t)
    BY <2>1, <2>2, TcpBounds
  <2>4. sockets' = [sockets EXCEPT ![i] = t]
    BY <1>2, Zenon DEF rx_sockets
  <2> HIDE DEF i, t
  <2>5. QED
    BY <2>1, <2>3, <2>4, SlotBounds
<1>3. CASE f.kind # "udp" /\ ~Matches(f)
  <2>1. sockets' = sockets
    BY <1>3, Zenon DEF rx_sockets
  <2>2. QED
    BY <2>1 DEF Bounds
<1>4. QED
  BY <1>1, <1>2, <1>3

LEMMA IcmpBounds ==
  ASSUME NetTyped, NEW a, NEW b, sockets' = socket_icmp_input(sockets, a, b)
  PROVE  \A j \in Slot : Bounds(sockets[j], sockets'[j])
<1> TAKE j \in Slot
<1>1. sockets[j] \in GoodSocks
  BY DEF NetTyped
<1>2. Bounds(sockets[j], queued(sockets[j])) /\ Bounds(sockets[j], sockets[j])
  BY <1>1, QueuedBounds, OtherBounds
<1>3. sockets'[j] = queued(sockets[j]) \/ sockets'[j] = sockets[j]
  BY DEF socket_icmp_input
<1>4. QED
  BY <1>2, <1>3

LEMMA SameKeepsBounds ==
  ASSUME UNCHANGED <<sockets, arp_table>>
  PROVE  KeepsBounds
BY DEF KeepsBounds, Bounds

LEMMA KernelBounds ==
  ASSUME NetTyped, Kernel
  PROVE  KeepsBounds
<1>0. \A j \in Slot : sockets[j] \in GoodSocks
  BY DEF NetTyped
<1>1. CASE SendPacket \/ Resolve \/ PolledRx \/ IrqReturn \/ ConnectLooks \/ AcceptWaits
           \/ SendtoChunk \/ RecvLooks \/ SysPollWaits
  <2>1. UNCHANGED <<sockets, arp_table>>
    BY <1>1 DEF SendPacket, Resolve, PolledRx, IrqReturn, ConnectLooks, AcceptWaits, SendtoChunk,
                RecvLooks, SysPollWaits, SocketStep
  <2>2. QED
    BY <2>1, SameKeepsBounds
<1>2. CASE PollRx
  <2> DEFINE f == descs[s_rx_cur]
  <2>1. UNCHANGED <<sockets, arp_table>> \/ (sockets' = rx_sockets(f) /\ arp_table' = rx_arp(f))
    BY <1>2 DEF PollRx
  <2>2. f \in Frames
    BY DEF NetTyped, TablesTyped
  <2> HIDE DEF f
  <2>3. ArpOnce(arp_table) => ArpOnce(rx_arp(f))
    BY <2>2, RxArp
  <2>4. CASE sockets' = rx_sockets(f) /\ arp_table' = rx_arp(f)
    BY <2>2, <2>3, <2>4, RxBounds DEF KeepsBounds
  <2>5. QED
    BY <2>1, <2>4, SameKeepsBounds
<1>3. ASSUME UNCHANGED arp_table, \A j \in Slot : Bounds(sockets[j], sockets'[j]) PROVE KeepsBounds
  BY <1>3 DEF KeepsBounds
<1>4. CASE IcmpInput
  <2>1. sockets' = socket_icmp_input(sockets, Top.from, MAX_SOCKETS) /\ UNCHANGED arp_table
    BY <1>4 DEF IcmpInput, SocketStep
  <2>2. QED
    BY <1>3, <2>1, IcmpBounds
<1>5. CASE FinInput
  <2>1. /\ stack # << >> /\ Top.at = "fin" /\ UNCHANGED arp_table
        /\ sockets' = [sockets EXCEPT ![Top.slot] = fin_input(sockets[Top.slot])]
    BY <1>5 DEF FinInput, At, SocketStep
  <2>2. Top.slot \in Slot /\ Bounds(sockets[Top.slot], fin_input(sockets[Top.slot]))
    BY <2>1, TopSlot, OtherBounds
  <2>3. QED
    BY <1>3, <2>1, <2>2, SlotBounds
<1>6. CASE FinSent
  <2>1. /\ stack # << >> /\ Top.at = "fin_sent" /\ UNCHANGED arp_table
        /\ sockets' = [sockets EXCEPT ![Top.slot] = fin_state(sockets[Top.slot])]
    BY <1>6 DEF FinSent, At, SocketStep
  <2>2. Top.slot \in Slot /\ Bounds(sockets[Top.slot], fin_state(sockets[Top.slot]))
    BY <2>1, TopSlot, OtherBounds
  <2>3. QED
    BY <1>3, <2>1, <2>2, SlotBounds
<1>7. CASE Closed
  <2>1. /\ stack # << >> /\ Top.at = "close" /\ UNCHANGED arp_table
        /\ sockets' = [sockets EXCEPT ![Top.slot] = sock_close(sockets[Top.slot], Top.fin)]
    BY <1>7 DEF Closed, At, SocketStep
  <2>2. Top.fin \in BOOLEAN
    BY <2>1, TopFacts DEF CloseCalls
  <2>3. Top.slot \in Slot /\ Bounds(sockets[Top.slot], sock_close(sockets[Top.slot], Top.fin))
    BY <2>1, <2>2, TopSlot, OtherBounds
  <2>4. QED
    BY <1>3, <2>1, <2>3, SlotBounds
<1>8. CASE ConnectWaits
  <2>1. /\ stack # << >> /\ Top.at = "connect" /\ UNCHANGED arp_table
        /\ UNCHANGED sockets \/ sockets' = [sockets EXCEPT ![Top.slot] = timed_out(sockets[Top.slot])]
    BY <1>8, Zenon DEF ConnectWaits, At, SocketStep
  <2>2. Top.slot \in Slot /\ Bounds(sockets[Top.slot], timed_out(sockets[Top.slot]))
    BY <2>1, TopSlot, OtherBounds
  <2>3. QED
    BY <1>3, <2>1, <2>2, SlotBounds, SameKeepsBounds
<1>9. CASE RecvWaits
  <2>1. /\ stack # << >> /\ Top.at = "recv" /\ UNCHANGED arp_table
        /\ \/ UNCHANGED sockets
           \/ /\ ~Empty(sockets[Top.slot])
              /\ sockets' = [sockets EXCEPT ![Top.slot] = received(sockets[Top.slot], Top.n)]
    BY <1>9, Zenon DEF RecvWaits, At, SocketStep
  <2>2. Top.n \in Nat
    BY <2>1, TopFacts DEF RecvCalls
  <2>3. Top.slot \in Slot /\ (~Empty(sockets[Top.slot]) => Bounds(sockets[Top.slot], received(sockets[Top.slot], Top.n)))
    BY <2>1, <2>2, TopSlot, ReceivedBounds
  <2>4. QED
    BY <1>3, <2>1, <2>3, SlotBounds, SameKeepsBounds
<1>10. QED
  BY <1>1, <1>2, <1>4, <1>5, <1>6, <1>7, <1>8, <1>9 DEF Kernel

LEMMA ProgramBounds ==
  ASSUME NetTyped, Program
  PROVE  KeepsBounds
<1>0. \A j \in Slot : sockets[j] \in GoodSocks
  BY DEF NetTyped
<1>1. ASSUME UNCHANGED arp_table, NEW i \in Slot, NEW t, sockets' = [sockets EXCEPT ![i] = t], Bounds(sockets[i], t)
      PROVE  KeepsBounds
  BY <1>1, SlotBounds DEF KeepsBounds
<1>2. ASSUME NEW type \in types, Socket(type) PROVE KeepsBounds
  <2>1. PICK i \in Slot, new \in GoodSocks :
          sockets' = [sockets EXCEPT ![i] = new] /\ Fresh(new, type, s_ephemeral_port, made + 1)
    BY <1>2, SocketFact, Zenon
  <2>2. UNCHANGED arp_table
    BY <1>2, SocketFact, Zenon
  <2>3. Len(new.rx) = 0 /\ Len(new.dgrams) = 0 /\ DOMAIN new.dgrams = {}
    BY <2>1 DEF Fresh
  <2>4. Bounds(sockets[i], new)
    BY <2>3, Consts DEF Bounds, Bounded
  <2>5. QED
    BY <1>1, <2>1, <2>2, <2>4
<1>3. ASSUME NEW fd \in 1 .. MAX_FDS, NEW port \in BindPorts, Bind(fd, port) PROVE KeepsBounds
  <2>1. PICK t \in GoodSocks : /\ sockets' = [sockets EXCEPT ![fds[fd]] = t]
                               /\ t = [sockets[fds[fd]] EXCEPT !.local_port = port]
    BY <1>3, BindFact, Zenon
  <2>2. UNCHANGED arp_table /\ fds[fd] \in Slot
    BY <1>3, BindFact, Zenon
  <2> DEFINE s == sockets[fds[fd]]
  <2>3. t.rx = s.rx /\ t.dgrams = s.dgrams /\ t.born = s.born
    BY <1>0, <2>1, <2>2 DEF GoodSocks, Socks
  <2>4. Bounds(s, t)
    BY <2>3, SameBounds
  <2>5. QED
    BY <1>1, <2>1, <2>2, <2>4
<1>4. ASSUME NEW fd \in 1 .. MAX_FDS, Option(fd) PROVE KeepsBounds
  <2>1. PICK t \in GoodSocks : sockets' = [sockets EXCEPT ![fds[fd]] = t] /\ Opted(sockets[fds[fd]], t)
    BY <1>4, OptionFact, Zenon
  <2>2. UNCHANGED arp_table /\ fds[fd] \in Slot
    BY <1>4, OptionFact DEF SocketStep
  <2>3. Bounds(sockets[fds[fd]], t)
    BY <2>1, SameBounds DEF Opted
  <2>4. QED
    BY <1>1, <2>1, <2>2, <2>3
<1>5. ASSUME NEW fd \in 1 .. MAX_FDS, NEW ip \in Hosts, Connect(fd, ip) PROVE KeepsBounds
  <2>1. PICK t \in GoodSocks :
          sockets' = [sockets EXCEPT ![fds[fd]] = t] /\ Dialled(sockets[fds[fd]], t, ip, conns + 1)
    BY <1>5, ConnectFact, Zenon
  <2>2. UNCHANGED arp_table /\ fds[fd] \in Slot
    BY <1>5, ConnectFact, Zenon
  <2>3. Bounds(sockets[fds[fd]], t)
    BY <2>1, SameBounds DEF Dialled
  <2>4. QED
    BY <1>1, <2>1, <2>2, <2>3
<1>6. ASSUME NEW fd \in 1 .. MAX_FDS, NEW shutdown \in BOOLEAN, Close(fd, shutdown) PROVE KeepsBounds
  BY <1>6, CloseFact, SameKeepsBounds
<1>7. ASSUME NEW fd \in 1 .. MAX_FDS,
             \/ Accept(fd)
             \/ \E ip \in Hosts \cup {NoHost}, n \in Chunks : Sendto(fd, ip, n)
             \/ \E n \in Counts : Recv(fd, n)
             \/ \E n \in POLL_ROUNDS : SysPoll(fd, n)
      PROVE  KeepsBounds
  <2>1. UNCHANGED sockets /\ SocketStep
    BY <1>7, Zenon DEF Accept, Sendto, Recv, SysPoll
  <2>2. QED
    BY <2>1, SameKeepsBounds DEF SocketStep
<1>8. QED
  BY <1>2, <1>3, <1>4, <1>5, <1>6, <1>7, Zenon DEF Program

LEMMA WholeBounds ==
  ASSUME NetTyped, [Whole]_vars
  PROVE  KeepsBounds
<1>1. CASE UNCHANGED vars
  BY <1>1, SameVars, SameKeepsBounds
<1>2. CASE Irq \/ World
  <2>1. UNCHANGED <<sockets, arp_table>>
    BY <1>2, WorldKeeps DEF Irq
  <2>2. QED
    BY <2>1, SameKeepsBounds
<1>3. QED
  BY <1>1, <1>2, KernelBounds, ProgramBounds DEF Whole, Compute, StackFull

---------------------------------------------------------------------------
(* Divided rounds *)

LEMMA SeqWider ==
  ASSUME NEW S, NEW T, S \subseteq T, NEW s \in Seq(S)
  PROVE  s \in Seq(T) /\ \A i \in 1 .. Len(s) : s[i] \in S
<1>1. Len(s) \in Nat /\ DOMAIN s = 1 .. Len(s) /\ \A i \in 1 .. Len(s) : s[i] \in S
  OBVIOUS
<1>2. s \in [1 .. Len(s) -> T]
  BY <1>1
<1>3. QED
  BY <1>1, <1>2

\* Calls that a divided round, or the rest of one, may leave on the stack.
Inner(r, x) ==
  {c \in Calls : /\ c.at \notin UserCalls
                 /\ c.at \in Cuts => r
                 /\ c.at \in TornCuts => x}

CutStep ==
  /\ stack # << >> /\ Top.at \notin UserCalls
  /\ \E pre \in Seq(Inner(reentered', torn')) : Spliced(stack, stack', pre, 1)

LEMMA ShortSeqs ==
  ASSUME NEW S, NEW a \in S, NEW b \in S
  PROVE  <<a>> \in Seq(S) /\ <<a, b>> \in Seq(S)
OBVIOUS

LEMMA InnerFact ==
  ASSUME NEW r, NEW x, NEW pre \in Seq(Inner(r, x))
  PROVE  /\ pre \in Seq(Calls)
         /\ \A i \in 1 .. Len(pre) : /\ pre[i] \in Calls /\ pre[i].at \notin UserCalls
                                     /\ pre[i].at \in Cuts => r
                                     /\ pre[i].at \in TornCuts => x
<1>1. Inner(r, x) \subseteq Calls
  BY DEF Inner
<1>2. pre \in Seq(Calls) /\ \A i \in 1 .. Len(pre) : pre[i] \in Inner(r, x)
  BY <1>1, SeqWider
<1>3. QED
  BY <1>2 DEF Inner

\* Both ways to make such a step.
LEMMA CutMade ==
  ASSUME NetTyped, stack # << >>, Top.at \notin UserCalls, NEW pre \in Seq(Inner(reentered', torn')),
         stack' = pre \o Tail(stack)
  PROVE  CutStep
<1>1. pre \in Seq(Calls)
  BY InnerFact
<1>2. 1 \in 0 .. Len(stack) /\ stack \in Seq(Calls) /\ Tail(stack) = SubSeq(stack, 1 + 1, Len(stack))
  BY DEF NetTyped
<1>3. Spliced(stack, stack', pre, 1)
  BY <1>1, <1>2, Splice
<1>4. QED
  BY <1>3 DEF CutStep

LEMMA CutReturns ==
  ASSUME NetTyped, stack # << >>, Top.at \notin UserCalls, Return
  PROVE  CutStep
<1> DEFINE pre == << >>
<1>1. pre \in Seq(Inner(reentered', torn')) /\ stack' = pre \o Tail(stack)
  <2>1. Tail(stack) \in Seq(Calls)
    BY DEF NetTyped
  <2>2. << >> \o Tail(stack) = Tail(stack)
    BY <2>1, ConcatEmptySeq
  <2>3. QED
    BY <2>2 DEF Return
<1>2. QED
  BY <1>1, CutMade

LEMMA CutDivides ==
  ASSUME NetTyped, stack # << >>, Top.at \notin UserCalls, NEW fs \in Seq(Inner(TRUE, torn')), Divide(fs)
  PROVE  CutStep
<1> DEFINE e == [at |-> "irq"]
           a == <<Poll, e>>
           I == Inner(reentered', torn')
<1>1. reentered' = TRUE /\ stack' = a \o fs \o Tail(stack)
  BY DEF Divide
<1>2. Poll \in I /\ e \in I
  BY MadeCalls DEF Inner, UserCalls, Cuts, TornCuts, Poll
<1>3. fs \in Seq(I)
  BY <1>1
<1> HIDE DEF I, e
<1>4. a \in Seq(I)
  BY <1>2
<1> HIDE DEF a
<1>5. a \o fs \in Seq(I)
  BY <1>3, <1>4
<1>6. QED
  BY <1>1, <1>5, CutMade DEF I

\* What it leaves as it was.
LEMMA CutKept ==
  ASSUME Base, CutStep, NetTyped', reentered => reentered', torn => torn', torn' => reentered'
  PROVE  BottomOK' /\ CutsOK'
<1>1. PICK pre \in Seq(Inner(reentered', torn')) : Spliced(stack, stack', pre, 1)
  BY DEF CutStep
<1>2. pre \in Seq(Calls) /\ NetTyped /\ BottomOK /\ CutsOK /\ stack # << >>
  BY InnerFact DEF Base, CutStep
<1> DEFINE p == Len(pre)
           n == Len(stack)
           m == Len(stack')
<1>3. /\ \A i \in 1 .. p : /\ pre[i].at \notin UserCalls
                           /\ pre[i].at \in Cuts => reentered'
                           /\ pre[i].at \in TornCuts => torn'
  BY InnerFact
<1>4. /\ n \in Nat /\ p \in Nat /\ m \in Nat /\ m = p + n - 1
      /\ \A i \in 1 .. m : \/ i \in 1 .. p /\ stack'[i] = pre[i]
                           \/ i - p + 1 \in 1 .. n /\ stack'[i] = stack[i - p + 1]
  <2>1. 1 \in 0 .. 2 /\ 1 <= Len(stack)
    BY <1>2, TopFacts
  <2>2. QED
    BY <1>1, <1>2, <2>1, SplicedFact, Zenon
<1>5. /\ \A i \in 1 .. n : stack[i].at \in UserCalls => i = n
      /\ \A i \in 1 .. n : (stack[i].at \in Cuts => reentered) /\ (stack[i].at \in TornCuts => torn)
  BY <1>2 DEF BottomOK, CutsOK
<1> HIDE DEF p, n, m
<1>6. \A i \in 1 .. m : stack'[i].at \in UserCalls => i = m
  BY <1>3, <1>4, <1>5
<1>7. \A i \in 1 .. m : (stack'[i].at \in Cuts => reentered') /\ (stack'[i].at \in TornCuts => torn')
  BY <1>3, <1>4, <1>5
<1>8. QED
  BY <1>6, <1>7 DEF BottomOK, CutsOK, m

LEMMA CutCloses ==
  ASSUME Base, CutStep, NEW s
  PROVE  Closing(s)' <=> Closing(s)
<1>1. PICK pre \in Seq(Inner(reentered', torn')) : Spliced(stack, stack', pre, 1)
  BY DEF CutStep
<1>2. pre \in Seq(Calls) /\ NetTyped /\ stack # << >> /\ Top = stack[1] /\ Top.at \notin UserCalls
  BY InnerFact, TopFacts DEF Base, CutStep
<1> DEFINE p == Len(pre)
           n == Len(stack)
           m == Len(stack')
<1>3. \A i \in 1 .. p : pre[i].at # "close"
  BY InnerFact DEF UserCalls
<1>4. /\ n \in Nat /\ n >= 1 /\ p \in Nat /\ m \in Nat /\ m = p + n - 1
      /\ \A i \in 1 .. n : i > 1 =>
           i + p - 1 \in 1 .. m /\ i + p - 1 > p /\ stack'[i + p - 1] = stack[i]
      /\ \A i \in 1 .. p : i \in 1 .. m /\ stack'[i] = pre[i]
  <2>1. 1 \in 0 .. 2 /\ 1 <= Len(stack) /\ Len(stack) >= 1 /\ Len(stack) \in Nat
    BY <1>2, TopFacts
  <2>2. QED
    BY <1>1, <1>2, <2>1, SplicedFact, Zenon
<1>5. stack' = << >> <=> m = 0
  <2>1. stack' \in Seq(Calls)
    BY <1>1 DEF Spliced
  <2>2. QED
    BY <2>1, EmptySeq DEF m
<1>6. stack[1].at # "close"
  BY <1>2 DEF UserCalls
<1> HIDE DEF p, n, m
<1>7. CASE n = 1
  <2>1. m = p /\ (m # 0 => p \in 1 .. p)
    BY <1>4, <1>7
  <2>2. m # 0 => stack'[m].at # "close"
    BY <1>3, <1>4, <2>1
  <2>3. ~Closing(s) /\ ~Closing(s)'
    BY <1>5, <1>6, <1>7, <2>2 DEF Closing, n, m
  <2>4. QED
    BY <2>3
<1>8. CASE n # 1
  <2>1. n \in 1 .. n /\ n > 1 /\ n + p - 1 = m /\ m # 0
    BY <1>4, <1>8
  <2>2. stack'[m] = stack[n]
    BY <1>4, <2>1
  <2>3. QED
    BY <1>2, <1>5, <2>1, <2>2 DEF Closing, n, m
<1>9. QED
  BY <1>7, <1>8

\* What each step of a divided round does: it changes no owner, and the limits of what
\* waits only where torn says so.
CutOK ==
  /\ CutStep /\ NetTyped'
  /\ \A i \in Slot : sockets'[i].ref_count = sockets[i].ref_count
  /\ UNCHANGED <<fds, shut>>
  /\ reentered' /\ (torn => torn')
  /\ ~torn' => KeepsBounds

LEMMA CutTop ==
  ASSUME Base, stack # << >>
  PROVE  /\ NetTyped /\ Top \in Calls
         /\ Top.at \in Cuts => reentered /\ Top.at \notin UserCalls
         /\ Top.at \in TornCuts => torn
<1>1. NetTyped /\ CutsOK
  BY DEF Base
<1>2. Top = stack[1] /\ 1 \in 1 .. Len(stack) /\ Top \in Calls
  BY <1>1, TopFacts
<1>3. \A x \in Cuts : x \notin UserCalls
  BY DEF Cuts, UserCalls
<1>4. QED
  BY <1>1, <1>2, <1>3 DEF CutsOK

LEMMA DivideOK ==
  ASSUME NetTyped, stack # << >>, Top.at \notin UserCalls, NEW fs \in Seq(Inner(TRUE, torn')), Divide(fs),
         UNCHANGED arp_table, descs' \in [Desc -> Frames], s_rx_cur' \in Desc, rdt' \in Desc,
         sockets' \in [Slot -> GoodSocks], \A i \in Slot : sockets'[i].ref_count = sockets[i].ref_count,
         torn => torn', ~torn' => UNCHANGED sockets
  PROVE  CutOK
<1>1. /\ UNCHANGED <<bufs, rdh, syns, flow, types, fds, s_ephemeral_port, made, conns, ports, shut>>
      /\ reentered' = TRUE
  BY DEF Divide, hostVars, userVars
<1>2. CutStep
  BY CutDivides
<1>3. stack' \in Seq(Calls)
  BY <1>2 DEF CutStep, Spliced
<1>4. TablesTyped'
  BY <1>1, Zenon DEF NetTyped, TablesTyped
<1>5. NetTyped'
  BY <1>3, <1>4 DEF NetTyped
<1>6. ~torn' => KeepsBounds
  BY SameKeepsBounds
<1>7. QED
  BY <1>1, <1>2, <1>5, <1>6 DEF CutOK

LEMMA ResumeOK ==
  ASSUME Base, stack # << >>, Top.at \in Cuts, NEW pre \in Seq(Inner(reentered', torn')),
         stack' = pre \o Tail(stack),
         UNCHANGED <<descs, bufs, rdh, syns, flow, userVars, reentered, torn>>,
         s_rx_cur' \in Desc, rdt' \in Desc, ArpOK(arp_table)',
         sockets' \in [Slot -> GoodSocks], \A i \in Slot : sockets'[i].ref_count = sockets[i].ref_count,
         ~torn => KeepsBounds
  PROVE  CutOK
<1>1. UNCHANGED <<types, fds, s_ephemeral_port, made, conns, ports, shut>>
  BY DEF userVars
<1>2. NetTyped /\ reentered /\ Top.at \notin UserCalls
  BY CutTop
<1>3. CutStep
  BY <1>2, CutMade
<1>4. stack' \in Seq(Calls)
  BY <1>3 DEF CutStep, Spliced
<1>5. TablesTyped'
  BY <1>1, <1>2, Zenon DEF NetTyped, TablesTyped, ArpOK
<1>6. NetTyped'
  BY <1>4, <1>5 DEF NetTyped
<1>7. QED
  BY <1>1, <1>2, <1>3, <1>6 DEF CutOK

\* Where a round is divided.
LEMMA ChosenFact ==
  ASSUME NetTyped, NEW d \in Chosen
  PROVE  stack # << >> /\ Top.at \in {"poll", "rx_cut"} /\ Top.at \notin UserCalls /\ d \in Desc /\ bufs[d] \in Frames
<1>1. /\ stack # << >> /\ Top.at \in {"poll", "rx_cut"}
      /\ d = s_rx_cur \/ (Top.at = "rx_cut" /\ d = Top.cur)
  BY DEF Chosen, At
<1>2. Top.at = "rx_cut" => Top.cur \in Desc
  BY <1>1, TopFacts, CutKinds DEF RxCutCalls
<1>3. d \in Desc /\ bufs[d] \in Frames
  BY <1>1, <1>2 DEF NetTyped, TablesTyped
<1>4. QED
  BY <1>1, <1>3 DEF UserCalls

LEMMA InnerCalls ==
  ASSUME NEW r, NEW x
  PROVE  /\ \A c \in Calls : c.at \in {"poll", "irq", "send", "icmp", "fin", "polled"} => c \in Inner(r, x)
         /\ \A c \in Calls : r /\ c.at \in Cuts \ TornCuts => c \in Inner(r, x)
         /\ \A c \in Calls : r /\ x /\ c.at \in Cuts => c \in Inner(r, x)
BY DEF Inner, UserCalls, Cuts, TornCuts

LEMMA CutCallsMade ==
  /\ \A cur \in Desc, tested \in BOOLEAN : [at |-> "rx_cut", cur |-> cur, tested |-> tested] \in Calls
  /\ \A i \in Slot, q \in Seq(Nat) : [at |-> "queue_cut", slot |-> i, was |-> q] \in Calls
  /\ \A i \in Slot, f \in Segments, s \in TcpStates :
       [at |-> "tcp_cut", slot |-> i, seg |-> f, state |-> s] \in Calls
  /\ \A i \in Slot, f \in Segments, n \in Nat, r \in Seq(Items) :
       n < f.len => [at |-> "bytes_cut", slot |-> i, seg |-> f, n |-> n, was |-> r] \in Calls
  /\ \A h \in Neighbours, k \in 1 .. ARP_TABLE_SIZE : [at |-> "arp_cut", from |-> h, idx |-> k] \in Calls
  /\ \A i \in Slot : [at |-> "fin_cut", slot |-> i] \in Calls
  /\ \A cur \in Desc, moved \in BOOLEAN, told \in BOOLEAN :
       [at |-> "polled_cut", cur |-> cur, moved |-> moved, told |-> told] \in Calls
<1>0. \A c : c \in RxCutCalls \/ c \in QueueCutCalls \/ c \in TcpCutCalls \/ c \in BytesCutCalls
             \/ c \in ArpCutCalls \/ c \in FinCutCalls \/ c \in PolledCutCalls => c \in Calls
  BY Zenon DEF Calls, CutCalls
<1>1. ASSUME NEW cur \in Desc, NEW tested \in BOOLEAN
      PROVE  [at |-> "rx_cut", cur |-> cur, tested |-> tested] \in RxCutCalls
  BY DEF RxCutCalls
<1>2. ASSUME NEW i \in Slot, NEW q \in Seq(Nat)
      PROVE  [at |-> "queue_cut", slot |-> i, was |-> q] \in QueueCutCalls
  BY DEF QueueCutCalls
<1>3. ASSUME NEW i \in Slot, NEW f \in Segments, NEW s \in TcpStates
      PROVE  [at |-> "tcp_cut", slot |-> i, seg |-> f, state |-> s] \in TcpCutCalls
  BY DEF TcpCutCalls
<1>4. ASSUME NEW i \in Slot, NEW f \in Segments, NEW n \in Nat, NEW r \in Seq(Items), n < f.len
      PROVE  [at |-> "bytes_cut", slot |-> i, seg |-> f, n |-> n, was |-> r] \in BytesCutCalls
  BY <1>4 DEF BytesCutCalls
<1>5. ASSUME NEW h \in Neighbours, NEW k \in 1 .. ARP_TABLE_SIZE
      PROVE  [at |-> "arp_cut", from |-> h, idx |-> k] \in ArpCutCalls
  BY DEF ArpCutCalls
<1>6. ASSUME NEW i \in Slot PROVE [at |-> "fin_cut", slot |-> i] \in FinCutCalls
  BY DEF FinCutCalls
<1>7. ASSUME NEW cur \in Desc, NEW moved \in BOOLEAN, NEW told \in BOOLEAN
      PROVE  [at |-> "polled_cut", cur |-> cur, moved |-> moved, told |-> told] \in PolledCutCalls
  BY DEF PolledCutCalls
<1>8. QED
  BY <1>0, <1>1, <1>2, <1>3, <1>4, <1>5, <1>6, <1>7, Zenon

\* A round that is divided with a call c left to do in it.
LEMMA DividesIn ==
  ASSUME NetTyped, NEW d \in Chosen, NEW c \in Calls, c.at \in Cuts, c.at \in TornCuts => torn',
         Divide(<<c, [at |-> "polled", cur |-> d]>>), SameRing, UNCHANGED arp_table,
         sockets' \in [Slot -> GoodSocks], \A i \in Slot : sockets'[i].ref_count = sockets[i].ref_count,
         torn => torn', ~torn' => UNCHANGED sockets
  PROVE  CutOK
<1> DEFINE p == [at |-> "polled", cur |-> d]
           fs == <<c, p>>
<1>1. stack # << >> /\ Top.at \notin UserCalls /\ d \in Desc
  BY ChosenFact
<1>2. p \in Calls /\ p.at = "polled"
  BY <1>1, MadeCalls
<1> HIDE DEF p
<1>3. p \in Inner(TRUE, torn') /\ c \in Inner(TRUE, torn')
  BY <1>2, InnerCalls
<1>4. fs \in Seq(Inner(TRUE, torn'))
  BY <1>3, ShortSeqs
<1>5. Divide(fs)
  BY DEF p
<1> HIDE DEF fs
<1>6. descs' \in [Desc -> Frames] /\ s_rx_cur' \in Desc /\ rdt' \in Desc
  BY Zenon DEF SameRing, NetTyped, TablesTyped
<1>7. QED
  BY <1>1, <1>4, <1>5, <1>6, DivideOK

\* The same where one call is left of the one that is divided.
LEMMA DividesTop ==
  ASSUME NetTyped, stack # << >>, Top.at \notin UserCalls, NEW c \in Calls, c.at \in Cuts \ TornCuts,
         Divide(<<c>>), UNCHANGED <<sockets, arp_table, torn>>,
         descs' \in [Desc -> Frames], s_rx_cur' \in Desc, rdt' \in Desc
  PROVE  CutOK
<1> DEFINE fs == <<c>>
<1>1. c \in Inner(TRUE, torn')
  BY InnerCalls
<1>2. fs \in Seq(Inner(TRUE, torn'))
  BY <1>1, ShortSeqs
<1>3. Divide(fs)
  OBVIOUS
<1> HIDE DEF fs
<1>4. sockets' \in [Slot -> GoodSocks]
  BY DEF NetTyped
<1>5. QED
  BY <1>2, <1>3, <1>4, DivideOK

LEMMA DividesRoundOK == ASSUME NetTyped, DividesRound PROVE CutOK
<1>1. PICK tested \in BOOLEAN : Divide(<<[at |-> "rx_cut", cur |-> s_rx_cur, tested |-> tested]>>)
  BY DEF DividesRound
<1>2. /\ stack # << >> /\ Top.at \notin UserCalls /\ UNCHANGED <<sockets, arp_table, torn>>
      /\ descs' = descs /\ s_rx_cur' = s_rx_cur /\ rdt' = rdt
  BY DEF DividesRound, At, SameRing, UserCalls
<1>3. descs \in [Desc -> Frames] /\ s_rx_cur \in Desc /\ rdt \in Desc
  BY Zenon DEF NetTyped, TablesTyped
<1> DEFINE c == [at |-> "rx_cut", cur |-> s_rx_cur, tested |-> tested]
<1>4. c \in Calls /\ c.at = "rx_cut"
  BY <1>3, CutCallsMade
<1> HIDE DEF c
<1>5. Divide(<<c>>) /\ c.at \in Cuts \ TornCuts
  BY <1>1, <1>4 DEF c, Cuts, TornCuts
<1>6. QED
  BY <1>2, <1>3, <1>4, <1>5, DividesTop

LEMMA DividesFinOK == ASSUME NetTyped, DividesFin PROVE CutOK
<1> DEFINE c == [at |-> "fin_cut", slot |-> Top.slot]
<1>1. /\ stack # << >> /\ Top.at = "fin_sent" /\ UNCHANGED <<sockets, arp_table, torn>>
      /\ descs' = descs /\ s_rx_cur' = s_rx_cur /\ rdt' = rdt /\ Divide(<<c>>)
  BY DEF DividesFin, At, SameRing
<1>2. descs \in [Desc -> Frames] /\ s_rx_cur \in Desc /\ rdt \in Desc
  BY Zenon DEF NetTyped, TablesTyped
<1>3. Top.slot \in Slot /\ Top.at \notin UserCalls
  BY <1>1, TopSlot DEF UserCalls
<1>4. c \in Calls /\ c.at = "fin_cut"
  BY <1>3, CutCallsMade
<1> HIDE DEF c
<1>5. c.at \in Cuts \ TornCuts
  BY <1>4 DEF Cuts, TornCuts
<1>6. QED
  BY <1>1, <1>2, <1>3, <1>4, <1>5, DividesTop

LEMMA DividesPolledOK == ASSUME NetTyped, DividesPolled PROVE CutOK
<1>1. PICK moved \in BOOLEAN, told \in BOOLEAN :
        /\ Divide(<<[at |-> "polled_cut", cur |-> Top.cur, moved |-> moved, told |-> told]>>)
        /\ s_rx_cur' = IF moved THEN (Top.cur + 1) % NUM_RX_DESC ELSE s_rx_cur
        /\ rdt' = IF told THEN Top.cur ELSE rdt
  BY Zenon DEF DividesPolled, new_tail
<1>2. /\ stack # << >> /\ Top.at = "polled" /\ UNCHANGED <<sockets, arp_table, torn>>
      /\ descs' = [descs EXCEPT ![Top.cur] = NoFrame]
  BY DEF DividesPolled, At
<1>3. descs \in [Desc -> Frames] /\ s_rx_cur \in Desc /\ rdt \in Desc /\ NoFrame \in Frames
  BY Zenon DEF NetTyped, TablesTyped, Frames
<1>4. Top.cur \in Desc /\ Top.at \notin UserCalls
  BY <1>2, TopFacts DEF PolledCalls, UserCalls
<1>5. descs' \in [Desc -> Frames]
  BY <1>2, <1>3, <1>4
<1>6. s_rx_cur' \in Desc /\ rdt' \in Desc
  BY <1>1, <1>3, <1>4, NextDesc
<1> DEFINE c == [at |-> "polled_cut", cur |-> Top.cur, moved |-> moved, told |-> told]
<1>7. c \in Calls /\ c.at = "polled_cut"
  BY <1>4, CutCallsMade
<1> HIDE DEF c
<1>8. Divide(<<c>>) /\ c.at \in Cuts \ TornCuts
  BY <1>1, <1>7 DEF c, Cuts, TornCuts
<1>9. QED
  BY <1>2, <1>4, <1>5, <1>6, <1>7, <1>8, DividesTop

LEMMA DividesQueueOK == ASSUME NetTyped, DividesQueue PROVE CutOK
<1>1. PICK d \in Chosen :
        LET S == IF bufs[d].kind = "udp" THEN udp_match(sockets, bufs[d]) ELSE {}
        IN  S # {} /\ Divide(<<queue_cut(First(S)), [at |-> "polled", cur |-> d]>>)
  BY Zenon DEF DividesQueue
<1> DEFINE S == IF bufs[d].kind = "udp" THEN udp_match(sockets, bufs[d]) ELSE {}
           i == First(S)
           c == queue_cut(i)
<1>2. S # {} /\ Divide(<<c, [at |-> "polled", cur |-> d]>>)
  BY <1>1
<1>3. torn' = TRUE /\ SameRing /\ UNCHANGED <<sockets, arp_table>>
  BY DEF DividesQueue
<1>4. S \in SUBSET Slot
  BY DEF udp_match
<1> HIDE DEF S
<1>5. S \in SUBSET Nat
  BY <1>4 DEF Slot
<1>6. i \in Slot
  BY <1>2, <1>4, <1>5, FirstFact
<1> HIDE DEF i
<1>7. sockets[i].dgrams \in Seq(Nat)
  BY <1>6, GoodFact DEF NetTyped
<1>8. c \in Calls /\ c.at = "queue_cut"
  BY <1>6, <1>7, CutCallsMade DEF queue_cut
<1> HIDE DEF c
<1>9. c.at \in Cuts
  BY <1>8 DEF Cuts
<1>10. sockets' \in [Slot -> GoodSocks]
  BY <1>3 DEF NetTyped
<1>11. QED
  BY <1>2, <1>3, <1>8, <1>9, <1>10, DividesIn

LEMMA DividesIcmpOK == ASSUME NetTyped, DividesIcmp PROVE CutOK
<1>1. PICK i \in Top.from .. MAX_SOCKETS :
        /\ sockets' = socket_icmp_input(sockets, Top.from, i - 1)
        /\ Divide(<<queue_cut(i), [at |-> "icmp", from |-> i + 1]>>)
  BY DEF DividesIcmp
<1>2. stack # << >> /\ Top.at = "icmp" /\ torn' = TRUE /\ SameRing /\ UNCHANGED arp_table
  BY DEF DividesIcmp, At
<1>3. Top.from \in Nat \ {0} /\ Top.at \notin UserCalls
  BY <1>2, TopFacts DEF IcmpCalls, UserCalls
<1>4. i \in Slot /\ i + 1 \in Nat \ {0}
  BY <1>3, Consts DEF Slot
<1> DEFINE c == queue_cut(i)
           e == [at |-> "icmp", from |-> i + 1]
           fs == <<c, e>>
<1>5. e \in Calls /\ e.at = "icmp"
  BY <1>4, MadeCalls
<1>6. c \in Calls /\ c.at = "queue_cut"
  <2>1. sockets[i].dgrams \in Seq(Nat)
    BY <1>4, GoodFact DEF NetTyped
  <2>2. QED
    BY <1>4, <2>1, CutCallsMade DEF queue_cut
<1> HIDE DEF c, e
<1>7. c \in Inner(TRUE, torn') /\ e \in Inner(TRUE, torn')
  BY <1>2, <1>5, <1>6, InnerCalls DEF Cuts
<1>8. fs \in Seq(Inner(TRUE, torn'))
  BY <1>7, ShortSeqs
<1>9. Divide(fs)
  BY <1>1 DEF c, e
<1> HIDE DEF fs
<1>10. descs' \in [Desc -> Frames] /\ s_rx_cur' \in Desc /\ rdt' \in Desc
  BY <1>2, Zenon DEF SameRing, NetTyped, TablesTyped
<1>11. ASSUME NEW j \in Slot
       PROVE  sockets'[j] \in GoodSocks /\ sockets'[j].ref_count = sockets[j].ref_count
  <2>1. sockets[j] \in GoodSocks
    BY DEF NetTyped
  <2>2. queued(sockets[j]) \in GoodSocks /\ SameRef(sockets[j], queued(sockets[j]))
    BY <2>1, QueuedGood, Sames
  <2>3. sockets'[j] = queued(sockets[j]) \/ sockets'[j] = sockets[j]
    BY <1>1 DEF socket_icmp_input
  <2>4. QED
    BY <2>1, <2>2, <2>3 DEF SameRef
<1>12. sockets' \in [Slot -> GoodSocks]
  <2>1. DOMAIN sockets' = Slot /\ sockets' = [j \in Slot |-> sockets'[j]]
    BY <1>1, Zenon DEF socket_icmp_input
  <2>2. QED
    BY <1>11, <2>1
<1>13. QED
  BY <1>2, <1>3, <1>8, <1>9, <1>10, <1>11, <1>12, DivideOK

LEMMA DividesTcpOK == ASSUME NetTyped, DividesTcp PROVE CutOK
<1>1. PICK d \in Chosen :
        LET f == bufs[d]
        IN  /\ Matches(f)
            /\ Divide(<<[at |-> "tcp_cut", slot |-> Target(f), seg |-> f, state |-> sockets[Target(f)].tcp_state],
                        [at |-> "polled", cur |-> d]>>)
  BY Zenon DEF DividesTcp
<1> DEFINE f == bufs[d]
           i == Target(f)
           c == [at |-> "tcp_cut", slot |-> i, seg |-> f, state |-> sockets[i].tcp_state]
<1>2. Matches(f) /\ Divide(<<c, [at |-> "polled", cur |-> d]>>)
  BY <1>1
<1>3. SameRing /\ UNCHANGED <<sockets, arp_table, torn>>
  BY DEF DividesTcp
<1>4. i \in Slot /\ f \in Segments
  BY <1>2, TargetFact, FrameKinds, ChosenFact
<1> HIDE DEF f, i
<1>5. sockets[i].tcp_state \in TcpStates
  BY <1>4, GoodFact DEF NetTyped
<1>6. c \in Calls /\ c.at = "tcp_cut"
  BY <1>4, <1>5, CutCallsMade
<1> HIDE DEF c
<1>7. c.at \in Cuts /\ c.at \notin TornCuts
  BY <1>6 DEF Cuts, TornCuts
<1>8. sockets' \in [Slot -> GoodSocks]
  BY <1>3 DEF NetTyped
<1>9. QED
  BY <1>2, <1>3, <1>6, <1>7, <1>8, DividesIn

LEMMA DividesBytesOK == ASSUME NetTyped, DividesBytes PROVE CutOK
<1>1. PICK d \in Chosen :
        LET f == bufs[d]
            i == Target(f)
        IN  /\ Matches(f)
            /\ \E n \in 0 .. f.len - 1 :
                 /\ sockets' = [sockets EXCEPT ![i].rx = @ \o SubSeq(Bytes(f), 1, n)]
                 /\ Divide(<<[at |-> "bytes_cut", slot |-> i, seg |-> f, n |-> n, was |-> sockets'[i].rx],
                             [at |-> "polled", cur |-> d]>>)
  BY Zenon DEF DividesBytes
<1> DEFINE f == bufs[d]
           i == Target(f)
<1>2. Matches(f)
  BY <1>1
<1>3. PICK n \in 0 .. f.len - 1 :
        /\ sockets' = [sockets EXCEPT ![i].rx = @ \o SubSeq(Bytes(f), 1, n)]
        /\ Divide(<<[at |-> "bytes_cut", slot |-> i, seg |-> f, n |-> n, was |-> sockets'[i].rx],
                    [at |-> "polled", cur |-> d]>>)
  BY <1>1
<1>4. torn' = TRUE /\ SameRing /\ UNCHANGED arp_table
  BY DEF DividesBytes
<1>5. i \in Slot /\ f \in Segments
  BY <1>2, TargetFact, FrameKinds, ChosenFact
<1> HIDE DEF f, i
<1> DEFINE s == sockets[i]
           x == SubSeq(Bytes(f), 1, n)
           r == s.rx \o x
           t == [s EXCEPT !.rx = r]
           c == [at |-> "bytes_cut", slot |-> i, seg |-> f, n |-> n, was |-> sockets'[i].rx]
<1>6. f.len \in Nat
  BY <1>5, BytesFact
<1>7. n \in Nat /\ n < f.len /\ n \in Int /\ n <= f.len
  BY <1>6
<1>8. x \in Seq(Items)
  BY <1>5, <1>7, SomeBytes
<1>9. s \in GoodSocks /\ s.rx \in Seq(Items) /\ s \in Socks
  BY <1>5, GoodFact DEF NetTyped
<1> HIDE DEF x
<1>10. r \in Seq(Items)
  BY <1>8, <1>9
<1>11. sockets' = [sockets EXCEPT ![i] = t]
  BY <1>3 DEF x
<1> HIDE DEF r, s
<1>12. t \in GoodSocks /\ t.ref_count = s.ref_count /\ t.rx = r
  BY <1>9, <1>10, << >> \in Seq(Items), << >> \in Seq(Nat), 0 \in Nat, SetQueues DEF Socks
<1> HIDE DEF t
<1>13. /\ sockets' \in [Slot -> GoodSocks] /\ sockets'[i] = t
       /\ \A j \in Slot : sockets'[j].ref_count = sockets[j].ref_count
  BY <1>5, <1>11, <1>12 DEF NetTyped, s
<1>14. sockets'[i].rx \in Seq(Items)
  BY <1>10, <1>12, <1>13
<1>15. c \in Calls /\ c.at = "bytes_cut"
  BY <1>5, <1>7, <1>14, CutCallsMade
<1>16. Divide(<<c, [at |-> "polled", cur |-> d]>>)
  BY <1>3
<1> HIDE DEF c
<1>17. c.at \in Cuts
  BY <1>15 DEF Cuts
<1>18. QED
  BY <1>4, <1>13, <1>15, <1>16, <1>17, DividesIn

LEMMA DividesArpOK == ASSUME NetTyped, DividesArp PROVE CutOK
<1>1. PICK d \in Chosen :
        LET f == bufs[d]
        IN  /\ f.kind = "arp" /\ Len(arp_table) < ARP_TABLE_SIZE
            /\ Divide(<<[at |-> "arp_cut", from |-> f.from, idx |-> Len(arp_table) + 1],
                        [at |-> "polled", cur |-> d]>>)
  BY Zenon DEF DividesArp
<1> DEFINE f == bufs[d]
           k == Len(arp_table) + 1
           c == [at |-> "arp_cut", from |-> f.from, idx |-> k]
<1>2. f.kind = "arp" /\ Len(arp_table) < ARP_TABLE_SIZE /\ Divide(<<c, [at |-> "polled", cur |-> d]>>)
  BY <1>1
<1>3. torn' = TRUE /\ SameRing /\ UNCHANGED <<sockets, arp_table>>
  BY DEF DividesArp
<1>4. f.from \in Neighbours
  BY <1>2, FrameKinds, ChosenFact
<1>5. k \in 1 .. ARP_TABLE_SIZE
  <2>1. Len(arp_table) \in Nat
    BY DEF NetTyped, TablesTyped
  <2>2. QED
    BY <1>2, <2>1, Consts
<1> HIDE DEF f, k
<1>6. c \in Calls /\ c.at = "arp_cut"
  BY <1>4, <1>5, CutCallsMade
<1> HIDE DEF c
<1>7. c.at \in Cuts
  BY <1>6 DEF Cuts
<1>8. sockets' \in [Slot -> GoodSocks]
  BY <1>3 DEF NetTyped
<1>9. QED
  BY <1>2, <1>3, <1>6, <1>7, <1>8, DividesIn

LEMMA IrqDividesOK == ASSUME NetTyped, IrqDivides PROVE CutOK
BY DividesRoundOK, DividesQueueOK, DividesIcmpOK, DividesTcpOK, DividesBytesOK, DividesArpOK, DividesFinOK,
   DividesPolledOK DEF IrqDivides

\* What is left of a divided round.
LEMMA RxInner ==
  ASSUME NetTyped, NEW f \in Frames, NEW d \in Desc, NEW r, NEW x
  PROVE  rx_calls(f) \o <<[at |-> "polled", cur |-> d]>> \in Seq(Inner(r, x))
<1> DEFINE p == [at |-> "polled", cur |-> d]
           I == Inner(r, x)
<1>1. PICK cs : cs = rx_calls(f)
  OBVIOUS
<1>2. cs \in Seq(Calls) /\ \A i \in 1 .. Len(cs) : cs[i].at \in {"send", "icmp", "fin"}
  BY <1>1, RxCallsFact DEF RxCalls
<1>3. p \in I
  BY MadeCalls, InnerCalls
<1>4. Len(cs) \in Nat /\ DOMAIN cs = 1 .. Len(cs) /\ \A i \in 1 .. Len(cs) : cs[i] \in Calls
  BY <1>2
<1>5. \A i \in 1 .. Len(cs) : cs[i] \in I
  BY <1>2, <1>4, InnerCalls
<1> HIDE DEF p, I
<1>6. cs \in Seq(I)
  <2>1. cs = [i \in 1 .. Len(cs) |-> cs[i]]
    BY <1>2
  <2>2. QED
    BY <1>4, <1>5, <2>1
<1>7. <<p>> \in Seq(I)
  BY <1>3, ShortSeqs
<1> DEFINE q == <<p>>
<1> HIDE DEF q
<1>8. cs \o q \in Seq(I)
  BY <1>6, <1>7, ConcatProperties DEF q
<1>9. QED
  BY <1>1, <1>8 DEF q, p, I

LEMMA TcpInner ==
  ASSUME NEW i \in Slot, NEW s, s.remote_ip \in Addresses, NEW f, NEW r, NEW x
  PROVE  /\ tcp_calls(i, s, f) \in Seq(Inner(r, x))
         /\ \A fin \in BOOLEAN :
              <<Send(s.remote_ip)>> \o (IF fin THEN <<[at |-> "fin", slot |-> i]>> ELSE << >>) \in Seq(Inner(r, x))
<1> DEFINE I == Inner(r, x)
           a == Send(s.remote_ip)
           b == [at |-> "fin", slot |-> i]
<1>1. a \in I /\ b \in I
  <2>1. a \in Calls /\ b \in Calls /\ a.at = "send" /\ b.at = "fin"
    BY MadeCalls DEF Send
  <2> HIDE DEF a, b
  <2>2. QED
    BY <2>1, InnerCalls
<1> HIDE DEF I, a, b
<1>2. <<a>> \in Seq(I) /\ <<b>> \in Seq(I) /\ << >> \in Seq(I)
  BY <1>1, ShortSeqs
<1>3. \A u, v \in Seq(I) : u \o v \in Seq(I)
  OBVIOUS
<1>4. tcp_calls(i, s, f) = (IF tcp_acks(s, f) THEN <<a>> ELSE << >>) \o (IF tcp_fin(s, f) THEN <<b>> ELSE << >>)
  BY Zenon DEF tcp_calls, a, b
<1>5. (IF tcp_acks(s, f) THEN <<a>> ELSE << >>) \in Seq(I) /\ (IF tcp_fin(s, f) THEN <<b>> ELSE << >>) \in Seq(I)
  BY <1>2, Zenon
<1>6. \A fin \in BOOLEAN : (IF fin THEN <<b>> ELSE << >>) \in Seq(I)
  BY <1>2, Zenon
<1>7. QED
  BY <1>2, <1>3, <1>4, <1>5, <1>6, Zenon DEF I, a, b

LEMMA OneSlot ==
  ASSUME NetTyped, NEW i \in Slot, NEW t \in GoodSocks, t.ref_count = sockets[i].ref_count,
         sockets' = [sockets EXCEPT ![i] = t]
  PROVE  /\ sockets' \in [Slot -> GoodSocks]
         /\ \A j \in Slot : sockets'[j].ref_count = sockets[j].ref_count
BY DEF NetTyped

\* A rest that sets at most one slot.
LEMMA ResumesSlot ==
  ASSUME Base, stack # << >>, Top.at \in Cuts, NEW pre \in Seq(Inner(reentered', torn')),
         stack' = pre \o Tail(stack), SocketStep, NEW i \in Slot, NEW t \in GoodSocks,
         sockets' = [sockets EXCEPT ![i] = t], t.ref_count = sockets[i].ref_count,
         ~torn => Bounds(sockets[i], t)
  PROVE  CutOK
<1>1. NetTyped
  BY DEF Base
<1>2. /\ UNCHANGED <<descs, bufs, rdh, syns, flow, userVars, reentered, torn>>
      /\ s_rx_cur' = s_rx_cur /\ rdt' = rdt /\ arp_table' = arp_table
  BY DEF SocketStep, cardVars, hostVars
<1>3. s_rx_cur' \in Desc /\ rdt' \in Desc /\ ArpOK(arp_table)'
  BY <1>1, <1>2 DEF NetTyped, TablesTyped, ArpOK
<1>4. sockets' \in [Slot -> GoodSocks] /\ \A j \in Slot : sockets'[j].ref_count = sockets[j].ref_count
  BY <1>1, OneSlot
<1>5. ~torn => KeepsBounds
  BY <1>1, <1>2, SlotBounds DEF KeepsBounds
<1>6. QED
  BY <1>2, <1>3, <1>4, <1>5, ResumeOK

LEMMA ReturnPre ==
  ASSUME NetTyped, Return, stack # << >>, NEW S
  PROVE  << >> \in Seq(S) /\ stack' = << >> \o Tail(stack)
<1>1. Tail(stack) \in Seq(Calls)
  BY DEF NetTyped
<1>2. << >> \o Tail(stack) = Tail(stack)
  BY <1>1, ConcatEmptySeq
<1>3. QED
  BY <1>2 DEF Return

LEMMA RoundResumesOK == ASSUME Base, RoundResumes PROVE CutOK
<1>1. /\ stack # << >> /\ Top.at = "rx_cut"
      /\ UNCHANGED <<descs, bufs, rdh, syns, flow, userVars, reentered, torn>>
      /\ s_rx_cur' = s_rx_cur /\ rdt' = rdt
  BY DEF RoundResumes, At, cardVars, hostVars
<1>2. NetTyped /\ Top.at \in Cuts
  BY <1>1 DEF Base, Cuts
<1>3. s_rx_cur' \in Desc /\ rdt' \in Desc
  BY <1>1, <1>2 DEF NetTyped, TablesTyped
<1>4. CASE Return /\ UNCHANGED <<sockets, arp_table>>
  <2>1. ArpOK(arp_table)' /\ sockets' \in [Slot -> GoodSocks]
    BY <1>2, <1>4 DEF NetTyped, TablesTyped, ArpOK
  <2>2. KeepsBounds
    BY <1>4, SameKeepsBounds
  <2> DEFINE pre == << >>
  <2>3. pre \in Seq(Inner(reentered', torn')) /\ stack' = pre \o Tail(stack)
    BY <1>1, <1>2, <1>4, ReturnPre
  <2> HIDE DEF pre
  <2>4. QED
    BY <1>1, <1>2, <1>3, <1>4, <2>1, <2>2, <2>3, ResumeOK
<1>5. ASSUME NEW d \in Chosen, Call(rx_calls(bufs[d]), [at |-> "polled", cur |-> d]),
             sockets' = rx_sockets(bufs[d]), arp_table' = rx_arp(bufs[d])
      PROVE  CutOK
  <2> DEFINE f == bufs[d]
             pre == rx_calls(f) \o <<[at |-> "polled", cur |-> d]>>
  <2>1. d \in Desc /\ f \in Frames
    BY <1>2, ChosenFact
  <2>2. stack' = pre \o Tail(stack)
    BY <1>5 DEF Call
  <2>3. pre \in Seq(Inner(reentered', torn'))
    BY <1>2, <2>1, RxInner
  <2>4. sockets' \in [Slot -> GoodSocks] /\ \A j \in Slot : sockets'[j].ref_count = sockets[j].ref_count
    BY <1>2, <1>5, <2>1, RxSockets, RxKeeps DEF Keeps, SameRef
  <2>5. ArpOK(arp_table') /\ (ArpOnce(arp_table) => ArpOnce(arp_table'))
    BY <1>2, <1>5, <2>1, RxArp
  <2>6. KeepsBounds
    BY <1>2, <1>5, <2>1, <2>5, RxBounds DEF KeepsBounds
  <2>7. ArpOK(arp_table)'
    BY <2>5 DEF ArpOK
  <2> HIDE DEF pre
  <2>8. QED
    BY <1>1, <1>2, <1>3, <2>2, <2>3, <2>4, <2>6, <2>7, ResumeOK
<1>6. QED
  BY <1>4, <1>5, Zenon DEF RoundResumes

LEMMA QueueResumesOK == ASSUME Base, QueueResumes PROVE CutOK
<1> DEFINE i == Top.slot
           s == sockets[i]
<1>1. /\ stack # << >> /\ Top.at = "queue_cut" /\ Return /\ SocketStep
  BY DEF QueueResumes, At
<1>2. PICK q \in {Top.was, s.dgrams}, d \in {s.born, NoOwner} :
        sockets' = [sockets EXCEPT ![i].dgrams = Append(q, d)]
  BY Zenon DEF QueueResumes
<1>3. NetTyped /\ Top \in Calls /\ torn /\ Top.at \in Cuts
  BY <1>1, CutTop DEF Cuts, TornCuts
<1>4. i \in Slot /\ Top.was \in Seq(Nat)
  BY <1>1, <1>3, CutKinds DEF QueueCutCalls
<1>5. s \in GoodSocks /\ s \in Socks /\ s.dgrams \in Seq(Nat) /\ s.born \in Nat
  BY <1>3, <1>4, GoodFact DEF NetTyped
<1> DEFINE v == Append(q, d)
           t == [s EXCEPT !.dgrams = v]
<1>6. q \in Seq(Nat) /\ d \in Nat
  BY <1>4, <1>5 DEF NoOwner
<1>7. v \in Seq(Nat)
  BY <1>6
<1>8. sockets' = [sockets EXCEPT ![i] = t]
  BY <1>2
<1> HIDE DEF v, s, i
<1>9. t \in GoodSocks /\ t.ref_count = s.ref_count
  BY <1>5, <1>7, << >> \in Seq(Items), 0 \in Nat, SetQueues DEF Socks
<1> DEFINE pre == << >>
<1>10. pre \in Seq(Inner(reentered', torn')) /\ stack' = pre \o Tail(stack)
  BY <1>1, <1>3, ReturnPre
<1> HIDE DEF pre, t
<1>11. QED
  BY <1>1, <1>3, <1>4, <1>8, <1>9, <1>10, ResumesSlot DEF s

LEMMA FinResumesOK == ASSUME Base, FinResumes PROVE CutOK
<1> DEFINE i == Top.slot
           s == sockets[i]
           t == [s EXCEPT !.tcp_state = CLOSE_WAIT]
<1>1. /\ stack # << >> /\ Top.at = "fin_cut" /\ Return /\ SocketStep
      /\ sockets' = [sockets EXCEPT ![i] = t]
  BY DEF FinResumes, At
<1>2. NetTyped /\ Top \in Calls /\ Top.at \in Cuts
  BY <1>1, CutTop DEF Cuts
<1>3. i \in Slot
  BY <1>1, <1>2, CutKinds DEF FinCutCalls
<1>4. s \in GoodSocks /\ s \in Socks
  BY <1>2, <1>3, GoodFact DEF NetTyped
<1>5. CLOSE_WAIT \in TcpStates /\ CLOSE_WAIT # SYN_SENT
  BY StateFacts
<1> HIDE DEF s, i
<1>6. t \in GoodSocks /\ t.ref_count = s.ref_count /\ Bounds(s, t)
  BY <1>4, <1>5, SetFields, OtherBounds DEF Socks
<1> DEFINE pre == << >>
<1>7. pre \in Seq(Inner(reentered', torn')) /\ stack' = pre \o Tail(stack)
  BY <1>1, <1>2, ReturnPre
<1> HIDE DEF pre, t
<1>8. QED
  BY <1>1, <1>2, <1>3, <1>6, <1>7, ResumesSlot DEF s

LEMMA TcpResumesOK == ASSUME Base, TcpResumes PROVE CutOK
<1> DEFINE i == Top.slot
           s == sockets[i]
           f == Top.seg
           tested == [s EXCEPT !.tcp_state = Top.state]
           t == tcp_input(tested, f)
           u == [t EXCEPT !.tcp_state = IF t.tcp_state = Top.state THEN s.tcp_state ELSE t.tcp_state]
           pre == tcp_calls(i, tested, f)
<1>1. /\ stack # << >> /\ Top.at = "tcp_cut" /\ SocketStep
      /\ sockets' = [sockets EXCEPT ![i] = u] /\ stack' = pre \o Tail(stack)
  BY Zenon DEF TcpResumes, At
<1>2. NetTyped /\ Top \in Calls /\ Top.at \in Cuts
  BY <1>1, CutTop DEF Cuts
<1>3. i \in Slot /\ f \in Segments /\ Top.state \in TcpStates
  BY <1>1, <1>2, CutKinds DEF TcpCutCalls
<1>4. s \in GoodSocks /\ s \in Socks /\ s.tcp_state \in TcpStates
  BY <1>2, <1>3, GoodFact DEF NetTyped
<1> HIDE DEF s, f, i
<1>5. /\ tested \in Socks /\ tested.remote_ip = s.remote_ip /\ tested.conn = s.conn /\ tested.rx = s.rx
      /\ tested.dgrams = s.dgrams /\ tested.born = s.born /\ tested.ref_count = s.ref_count
      /\ tested.tcp_state = Top.state
  BY <1>3, <1>4 DEF Socks
<1> HIDE DEF tested
<1>6. /\ t \in Socks /\ t.remote_ip = s.remote_ip /\ t.conn = s.conn /\ t.ref_count = s.ref_count
      /\ t.tcp_state \in {Top.state, CLOSED, ESTABLISHED} /\ Bounds(tested, t)
  BY <1>3, <1>5, TcpInputSocks, TcpBounds
<1> HIDE DEF t
<1> DEFINE z == IF t.tcp_state = Top.state THEN s.tcp_state ELSE t.tcp_state
<1>7. z \in TcpStates /\ (z = SYN_SENT => s.tcp_state = SYN_SENT)
  BY <1>3, <1>4, <1>6, StateFacts
<1>8. u = [t EXCEPT !.tcp_state = z]
  BY Zenon
<1> HIDE DEF z, u
<1>9. /\ u \in Socks /\ u.tcp_state = z /\ u.remote_ip = t.remote_ip /\ u.conn = t.conn
      /\ u.ref_count = t.ref_count /\ u.rx = t.rx /\ u.dgrams = t.dgrams /\ u.born = t.born
  BY <1>6, <1>7, <1>8 DEF Socks
<1>10. u \in GoodSocks
  BY <1>4, <1>6, <1>7, <1>9, GoodFact DEF GoodSocks
<1>11. Bounds(s, u)
  <2>1. Bounds(s, tested) /\ Bounds(t, u)
    BY <1>5, <1>9, SameBounds
  <2>2. QED
    BY <1>6, <2>1, Zenon DEF Bounds
<1>12. pre \in Seq(Inner(reentered', torn'))
  <2>1. tested.remote_ip \in Addresses
    BY <1>4, <1>5, GoodFact
  <2>2. QED
    BY <1>3, <2>1, TcpInner
<1> HIDE DEF pre
<1>13. QED
  BY <1>1, <1>2, <1>3, <1>6, <1>9, <1>10, <1>11, <1>12, ResumesSlot DEF s

LEMMA StoredFrom ==
  ASSUME NEW s \in GoodSocks, NEW f \in Segments, NEW n \in Nat
  PROVE  stored_from(s, f, n) \in GoodSocks /\ stored_from(s, f, n).ref_count = s.ref_count
<1> DEFINE m == Lesser(f.len, n + Room(s))
           x == SubSeq(Bytes(f), n + 1, m)
           r == s.rx \o x
           q == s.remote_seq + f.len
           t == [s EXCEPT !.rx = r, !.remote_seq = q]
<1>1. f.len \in Nat /\ s \in Socks /\ s.rx \in Seq(Items) /\ Len(s.rx) \in Nat /\ s.remote_seq \in Nat
  BY BytesFact, GoodFact
<1>2. m \in Int /\ m <= f.len /\ n + 1 \in Nat \ {0}
  <2> DEFINE z == n + Room(s)
  <2>1. z \in Int
    BY <1>1, Consts DEF Room
  <2> HIDE DEF z
  <2>2. Lesser(f.len, z) \in Int /\ Lesser(f.len, z) <= f.len
    BY <1>1, <2>1 DEF Lesser
  <2>3. QED
    BY <2>2 DEF z
<1>3. stored_from(s, f, n) = t
  BY Zenon DEF stored_from
<1> HIDE DEF m
<1>4. x \in Seq(Items)
  BY <1>2, SomeBytes
<1> HIDE DEF x
<1>5. r \in Seq(Items) /\ q \in Nat
  BY <1>1, <1>4
<1> HIDE DEF r, q
<1>6. t \in GoodSocks /\ t.ref_count = s.ref_count
  BY <1>1, <1>5, << >> \in Seq(Nat), SetQueues DEF Socks
<1>7. QED
  BY <1>3, <1>6

LEMMA BytesResumeOK == ASSUME Base, BytesResume PROVE CutOK
<1> DEFINE i == Top.slot
           s == sockets[i]
           f == Top.seg
           a == <<Send(s.remote_ip)>>
           b == IF f.fin THEN <<[at |-> "fin", slot |-> i]>> ELSE << >>
           pre == a \o b
<1>1. stack # << >> /\ Top.at = "bytes_cut" /\ SocketStep /\ stack' = pre \o Tail(stack)
  BY DEF BytesResume, At
<1>2. PICK q \in {Top.was, s.rx}, x \in {Bytes(f)[Top.n + 1], NoByte} :
        sockets' = [sockets EXCEPT ![i] = stored_from([@ EXCEPT !.rx = Append(q, x)], f, Top.n + 1)]
  BY Zenon DEF BytesResume
<1>3. NetTyped /\ Top \in Calls /\ torn /\ Top.at \in Cuts
  BY <1>1, CutTop DEF Cuts, TornCuts
<1>4. i \in Slot /\ f \in Segments /\ Top.n \in Nat /\ Top.was \in Seq(Items) /\ Top.n < f.len /\ f.fin \in BOOLEAN
  BY <1>1, <1>3, CutKinds DEF BytesCutCalls, Segments
<1>5. s \in GoodSocks /\ s \in Socks /\ s.rx \in Seq(Items) /\ s.remote_ip \in Addresses
  BY <1>3, <1>4, GoodFact DEF NetTyped
<1> HIDE DEF f
<1>6. Bytes(f)[Top.n + 1] \in Items
  <2>1. Bytes(f) \in Seq(Items) /\ Len(Bytes(f)) = f.len /\ f.len \in Nat
    BY <1>4, BytesFact
  <2>2. Top.n + 1 \in 1 .. Len(Bytes(f))
    BY <1>4, <2>1
  <2>3. QED
    BY <2>1, <2>2
<1>7. q \in Seq(Items) /\ x \in Items
  BY <1>4, <1>5, <1>6 DEF NoByte, Items
<1> DEFINE v == Append(q, x)
           t == [s EXCEPT !.rx = v]
           n == Top.n + 1
           u == stored_from(t, f, n)
<1>8. v \in Seq(Items) /\ n \in Nat
  BY <1>4, <1>7
<1>9. sockets' = [sockets EXCEPT ![i] = u]
  BY <1>2
<1> HIDE DEF v, n, s
<1>10. t \in GoodSocks /\ t.ref_count = s.ref_count
  BY <1>5, <1>8, << >> \in Seq(Nat), 0 \in Nat, SetQueues DEF Socks
<1> HIDE DEF t
<1>11. u \in GoodSocks /\ u.ref_count = s.ref_count
  BY <1>4, <1>8, <1>10, StoredFrom
<1>12. pre \in Seq(Inner(reentered', torn'))
  BY <1>4, <1>5, TcpInner
<1> HIDE DEF pre, u, i
<1>13. QED
  BY <1>1, <1>3, <1>4, <1>9, <1>11, <1>12, ResumesSlot DEF s

LEMMA ArpResumesOK == ASSUME Base, ArpResumes PROVE CutOK
<1>1. /\ stack # << >> /\ Top.at = "arp_cut" /\ Return /\ UNCHANGED sockets
      /\ UNCHANGED <<descs, bufs, rdh, syns, flow, userVars, reentered, torn>>
      /\ s_rx_cur' = s_rx_cur /\ rdt' = rdt
      /\ arp_table' = IF Top.idx > Len(arp_table) THEN Append(arp_table, Top.from)
                      ELSE [arp_table EXCEPT ![Top.idx] = Top.from]
  BY DEF ArpResumes, At, cardVars, hostVars
<1>2. NetTyped /\ Top \in Calls /\ torn /\ Top.at \in Cuts
  BY <1>1, CutTop DEF Cuts, TornCuts
<1>3. Top.from \in Neighbours /\ Top.idx \in 1 .. ARP_TABLE_SIZE
  BY <1>1, <1>2, CutKinds DEF ArpCutCalls
<1>4. arp_table \in Seq(Neighbours) /\ Len(arp_table) \in Nat /\ Len(arp_table) <= ARP_TABLE_SIZE
  BY <1>2 DEF NetTyped, TablesTyped
<1>5. ArpOK(arp_table)'
  <2>1. CASE Top.idx > Len(arp_table)
    <3> DEFINE v == Append(arp_table, Top.from)
    <3>1. v \in Seq(Neighbours) /\ Len(v) = Len(arp_table) + 1
      BY <1>3, <1>4
    <3>2. Len(v) <= ARP_TABLE_SIZE
      BY <1>3, <1>4, <2>1, <3>1, Consts
    <3>3. QED
      BY <1>1, <2>1, <3>1, <3>2 DEF ArpOK
  <2>2. CASE ~(Top.idx > Len(arp_table))
    <3> DEFINE v == [arp_table EXCEPT ![Top.idx] = Top.from]
    <3> DEFINE k == Len(arp_table)
    <3>1. arp_table \in [1 .. k -> Neighbours]
      BY <1>4
    <3> HIDE DEF k
    <3>2. v \in [1 .. k -> Neighbours]
      BY <1>3, <3>1
    <3>3. v = [i \in 1 .. k |-> v[i]] /\ \A i \in 1 .. k : v[i] \in Neighbours
      BY <3>2, Zenon
    <3> HIDE DEF v
    <3>4. k \in Nat
      BY <1>4 DEF k
    <3>5. v \in Seq(Neighbours) /\ Len(v) = k
      BY <3>3, <3>4
    <3>6. arp_table' = v
      BY <1>1, <2>2 DEF v
    <3>7. QED
      BY <1>4, <3>5, <3>6 DEF ArpOK, k
  <2>3. QED
    BY <2>1, <2>2
<1>6. s_rx_cur' \in Desc /\ rdt' \in Desc /\ sockets' \in [Slot -> GoodSocks]
  BY <1>1, <1>2 DEF NetTyped, TablesTyped
<1> DEFINE pre == << >>
<1>7. pre \in Seq(Inner(reentered', torn')) /\ stack' = pre \o Tail(stack)
  BY <1>1, <1>2, ReturnPre
<1> HIDE DEF pre
<1>8. QED
  BY <1>1, <1>2, <1>5, <1>6, <1>7, ResumeOK

LEMMA PolledResumesOK == ASSUME Base, PolledResumes PROVE CutOK
<1> DEFINE next == (Top.cur + 1) % NUM_RX_DESC
           c == [at |-> "rx_cut", cur |-> next, tested |-> FALSE]
           pre == <<c>>
<1>1. /\ stack # << >> /\ Top.at = "polled_cut" /\ stack' = pre \o Tail(stack)
      /\ UNCHANGED <<sockets, arp_table, descs, bufs, rdh, syns, flow, userVars, reentered, torn>>
      /\ s_rx_cur' = (IF Top.moved THEN s_rx_cur ELSE next)
      /\ rdt' = (IF Top.told THEN rdt ELSE Top.cur)
  BY DEF PolledResumes, At, Become, hostVars, new_tail
<1>2. NetTyped /\ Top \in Calls /\ Top.at \in Cuts /\ reentered
  BY <1>1, CutTop DEF Cuts
<1>3. Top.cur \in Desc
  BY <1>1, <1>2, CutKinds DEF PolledCutCalls
<1>4. next \in Desc
  BY <1>3, NextDesc
<1> HIDE DEF next
<1>5. c \in Calls /\ c.at = "rx_cut"
  BY <1>4, CutCallsMade
<1> HIDE DEF c
<1>6. c \in Inner(reentered', torn')
  BY <1>1, <1>2, <1>5, InnerCalls DEF Cuts, TornCuts
<1>7. pre \in Seq(Inner(reentered', torn'))
  BY <1>6, ShortSeqs
<1> HIDE DEF pre
<1>8. s_rx_cur' \in Desc /\ rdt' \in Desc /\ ArpOK(arp_table)' /\ sockets' \in [Slot -> GoodSocks]
  BY <1>1, <1>2, <1>3, <1>4 DEF NetTyped, TablesTyped, ArpOK
<1>9. KeepsBounds
  BY <1>1, SameKeepsBounds
<1>10. QED
  BY <1>1, <1>2, <1>7, <1>8, <1>9, ResumeOK

LEMMA CutsAreOK ==
  ASSUME Base, IrqDivides \/ Resumes
  PROVE  CutOK
<1>1. NetTyped
  BY DEF Base
<1>2. QED
  BY <1>1, IrqDividesOK, RoundResumesOK, QueueResumesOK, TcpResumesOK, BytesResumeOK, ArpResumesOK, FinResumesOK,
     PolledResumesOK DEF Resumes

\* A step is undivided unless it leaves reentered true.
LEMMA Undivided ==
  ASSUME Base, [Next]_vars, ~reentered'
  PROVE  [Whole]_vars /\ ~reentered /\ ~torn
<1>1. ~IrqDivides /\ ~Resumes
  BY CutsAreOK DEF CutOK
<1>2. [Whole]_vars
  BY <1>1 DEF Next, Whole
<1>3. ~reentered
  BY <1>2, Flags DEF Base
<1>4. QED
  BY <1>2, <1>3 DEF Base, CutsOK

LEMMA BaseKept ==
  ASSUME Base, [Next]_vars
  PROVE  Base'
<1>1. CASE IrqDivides \/ Resumes
  <2>1. CutOK
    BY <1>1, CutsAreOK
  <2>2. NetTyped' /\ BottomOK' /\ CutsOK'
    BY <2>1, CutKept DEF CutOK
  <2>3. QED
    BY <2>2 DEF Base
<1>2. CASE [Whole]_vars
  BY <1>2, WholeBase
<1>3. QED
  BY <1>1, <1>2 DEF Next, Whole

LEMMA BoundsKept ==
  ASSUME Base, BoundsOK, [Next]_vars
  PROVE  BoundsOK'
<1>1. ~torn' => KeepsBounds /\ ~torn
  <2>1. CASE IrqDivides \/ Resumes
    BY <2>1, CutsAreOK DEF CutOK
  <2>2. CASE [Whole]_vars
    BY <2>2, WholeBounds, Flags DEF Base
  <2>3. QED
    BY <2>1, <2>2 DEF Next, Whole
<1>2. QED
  BY <1>1 DEF BoundsOK, KeepsBounds, Bounds

LEMMA AlwaysBase == Spec => [](Base /\ BoundsOK)
<1>1. Init => Base /\ BoundsOK
  <2> SUFFICES ASSUME Init PROVE Base /\ BoundsOK
    OBVIOUS
  <2>1. NetTyped
    BY InitTyped
  <2>2. stack = << >> /\ Len(stack) = 0 /\ torn = FALSE
    BY DEF Init
  <2>3. BottomOK /\ CutsOK
    BY <2>2 DEF BottomOK, CutsOK
  <2>4. ASSUME NEW i \in Slot PROVE Bounded(sockets[i])
    <3>1. sockets[i].rx = << >> /\ sockets[i].dgrams = << >>
      BY DEF Init, Unused
    <3>2. QED
      BY <3>1, Consts DEF Bounded
  <2>5. ArpOnce(arp_table)
    <3>1. arp_table = << >> /\ ToSet(arp_table) = {} /\ Len(arp_table) = 0
      BY DEF Init, ToSet
    <3>2. QED
      BY <3>1, FS_EmptySet DEF ArpOnce
  <2>6. QED
    BY <2>1, <2>3, <2>4, <2>5 DEF Base, BoundsOK
<1>2. Base /\ BoundsOK /\ [Next]_vars => Base' /\ BoundsOK'
  BY BaseKept, BoundsKept
<1>3. QED
  BY <1>1, <1>2, PTL DEF Spec

\* Through any sequence of calls, packets and interrupts, and however deep packets are
\* handled inside one another, the socket table, the ARP table, the
\* descriptors and the registers keep their types, also where an interrupt comes in the
\* middle of a round of sys_poll (syscall.c): the driver's places in the ring
\* (e1000.c) stay in it, and arp_add_entry (netstack.c) stays in its table.  Until an
\* interrupt divides a change of one of them, rx_push and the datagram queue (socket.c)
\* stop at their sizes, and no address is twice in the ARP table.
THEOREM NetTypes == Spec => []NetTypeOK
<1>1. Base /\ BoundsOK => NetTypeOK
  <2> SUFFICES ASSUME Base, BoundsOK PROVE NetTypeOK
    OBVIOUS
  <2>0. NetTyped
    BY DEF Base
  <2>1. ASSUME NEW i \in Slot
        PROVE  /\ sockets[i].ref_count \in {0, 1}
               /\ sockets[i].remote_ip \in Hosts \cup {NoHost}
               /\ ~torn => /\ Len(sockets[i].rx) <= SOCKET_RX_BUF_SIZE
                           /\ Len(sockets[i].dgrams) <= MAX_DGRAM_QUEUE
    <3>1. sockets[i] \in GoodSocks
      BY <2>0 DEF NetTyped
    <3>2. QED
      BY <3>1, GoodFact DEF Addresses, BoundsOK, Bounded
  <2>2. ToSet(arp_table) \subseteq Neighbours
    BY <2>0 DEF NetTyped, TablesTyped, ToSet
  <2>3. DOMAIN descs = Desc /\ {s_rx_cur, rdh, rdt} \subseteq Desc
    BY <2>0 DEF NetTyped, TablesTyped
  <2>4. /\ fds \in [1 .. MAX_FDS -> 0 .. MAX_SOCKETS] /\ s_ephemeral_port \in FirstPort .. LastPort
        /\ Len(arp_table) <= ARP_TABLE_SIZE /\ (~torn => Cardinality(ToSet(arp_table)) = Len(arp_table))
    BY <2>0, Zenon DEF NetTyped, TablesTyped, BoundsOK, ArpOnce
  <2>5. QED
    BY <2>1, <2>2, <2>3, <2>4, Zenon DEF NetTypeOK
<1>2. QED
  BY <1>1, AlwaysBase, PTL

\* No socket is given a datagram that was sent to an earlier owner of its slot:
\* sock_create (socket.c) starts with an empty queue, and what socket_udp_input and
\* socket_icmp_input add is for the socket that is there, as long as no interrupt comes
\* between their test of dgram_count and its increment.
THEOREM DatagramsStayMine == Spec => []DatagramsAreMine
<1>1. BoundsOK => DatagramsAreMine
  BY Zenon DEF BoundsOK, Bounded, DatagramsAreMine
<1>2. QED
  BY <1>1, AlwaysBase, PTL

Nested == ~reentered => StackOK

LEMMA AlwaysNested == Spec => [](Base /\ BoundsOK /\ Nested)
<1>1. Init => Nested
  <2> SUFFICES ASSUME Init PROVE StackOK
    BY DEF Nested
  <2>1. stack = << >> /\ Len(stack) = 0 /\ Handling = {}
    BY DEF Init, Handling
  <2>2. NestOK
    BY <2>1 DEF NestOK
  <2>3. \A i \in Slot : sockets[i].tcp_state = CLOSED
    BY DEF Init, Unused
  <2>4. QED
    BY <2>2, <2>3, StateFacts DEF StackOK, SynsWait
<1>2. Base /\ Nested /\ [Next]_vars => Nested'
  <2> SUFFICES ASSUME Base, Nested, [Next]_vars, ~reentered' PROVE StackOK'
    BY DEF Nested
  <2>1. NetTyped /\ StackOK /\ [Whole]_vars
    BY Undivided DEF Base, Nested
  <2>2. QED
    BY <2>1, StackKept
<1>3. QED
  BY <1>1, <1>2, AlwaysBase, PTL DEF Spec

---------------------------------------------------------------------------
(* Who owns a slot *)

\* Only a call of close begins with a slot to give up.
LEMMA ClosingStays ==
  ASSUME NetTyped, Moving, stack # << >>, ElsewhereStep({"close"}), NEW i
  PROVE  Closing(i)' <=> Closing(i)
<1>1. ASSUME Closing(i) PROVE Closing(i)'
  <2>1. stack[Len(stack)].at \in {"close"} /\ "sendto" \notin {"close"}
    BY <1>1 DEF Closing
  <2>2. stack' # << >> /\ stack'[Len(stack')] = stack[Len(stack)]
    BY <2>1, BottomStays
  <2>3. QED
    BY <1>1, <2>2 DEF Closing
<1>2. ASSUME Closing(i)' PROVE Closing(i)
  <2>1. PICK pre \in Seq(Calls), k \in 0 .. 2 : k <= Len(stack) /\ Moves(pre, k)
    BY DEF Moving
  <2>2. /\ Spliced(stack, stack', pre, k)
        /\ \A j \in 1 .. Len(pre) : pre[j].at # "close"
    BY <2>1, Zenon DEF Moves
  <2>3. stack' # << >> /\ stack'[Len(stack')].at = "close" /\ stack'[Len(stack')].slot = i
    BY <1>2 DEF Closing
  <2> DEFINE p == Len(pre)
             n == Len(stack)
             m == Len(stack')
  <2>4. /\ n \in Nat /\ p \in Nat /\ m \in Nat /\ m = p + n - k
        /\ \A j \in 1 .. m : \/ j \in 1 .. p /\ stack'[j] = pre[j]
                             \/ j - p + k \in 1 .. n /\ stack'[j] = stack[j - p + k]
    BY <2>1, <2>2, SplicedFact, Zenon
  <2>5. m # 0
    <3>1. stack' \in Seq(Calls)
      BY MovingTyped
    <3>2. QED
      BY <2>3, <3>1
  <2>6. m \in 1 .. m /\ m - p + k = n
    BY <2>4, <2>5
  <2>7. stack'[m] = stack[n]
    BY <2>2, <2>3, <2>4, <2>6
  <2>8. QED
    BY <2>3, <2>7 DEF Closing
<1>3. QED
  BY <1>1, <1>2

LEMMA OwnersSame ==
  ASSUME OwnersOK, UNCHANGED <<fds, shut>>, \A i \in Slot : sockets'[i].ref_count = sockets[i].ref_count,
         \A i \in Slot : Closing(i)' <=> Closing(i)
  PROVE  OwnersOK'
<1>1. \A fd : fds'[fd] = fds[fd]
  OBVIOUS
<1>2. QED
  BY <1>1, Zenon DEF OwnersOK

LEMMA OwnersKernel ==
  ASSUME NetTyped, BottomOK, OwnersOK, Kernel
  PROVE  OwnersOK'
<1>1. UNCHANGED <<fds, shut>> /\ stack # << >>
  BY DEF Kernel, SocketStep, userVars, At, SendPacket, Resolve, PollRx, PolledRx, IcmpInput, FinInput,
         FinSent, IrqReturn, Closed, ConnectWaits, ConnectLooks, AcceptWaits, SendtoChunk, RecvWaits,
         RecvLooks, SysPollWaits
<1>2. Moving
  BY KernelTyped
<1>3. CASE ~Closed
  <2>1. \A i \in Slot : sockets'[i].ref_count = sockets[i].ref_count
    BY <1>3, KernelKeeps DEF Keeps, SameRef
  <2>2. Top.at \notin {"close"}
    BY <1>3 DEF Kernel, At, SendPacket, Resolve, PollRx, PolledRx, IcmpInput, FinInput, FinSent,
         IrqReturn, ConnectWaits, ConnectLooks, AcceptWaits, SendtoChunk, RecvWaits, RecvLooks, SysPollWaits
  <2>3. \A i \in Slot : Closing(i)' <=> Closing(i)
    BY <1>1, <1>2, <2>2, ClosingStays DEF ElsewhereStep
  <2>4. QED
    BY <1>1, <2>1, <2>3, OwnersSame
<1>4. CASE Closed
  <2>1. /\ Top.at = "close" /\ Return
        /\ sockets' = [sockets EXCEPT ![Top.slot] = sock_close(sockets[Top.slot], Top.fin)]
    BY <1>4 DEF Closed, At
  <2>2. Top = stack[1] /\ Len(stack) \in Nat /\ Len(stack) >= 1 /\ stack \in Seq(Calls)
    BY <1>1, TopFacts
  <2>3. Len(stack) = 1
    <3>1. 1 \in 1 .. Len(stack) /\ stack[1].at \in UserCalls
      BY <2>1, <2>2 DEF UserCalls
    <3>2. QED
      BY <3>1 DEF BottomOK
  <2>4. stack' = << >>
    BY <2>1, <2>2, <2>3 DEF Return
  <2> DEFINE c == Top.slot
  <2>5. c \in Slot /\ sockets[c] \in GoodSocks
    BY <1>1, <2>1, TopSlot
  <2>6. \A i \in Slot : Closing(i) <=> i = c
    BY <1>1, <2>1, <2>2, <2>3 DEF Closing
  <2>7. \A i \in Slot : ~Closing(i)'
    BY <2>4 DEF Closing
  <2>8. \A i \in Slot : sockets'[i].ref_count = IF i = c THEN 0 ELSE sockets[i].ref_count
    <3>1. sockets'[c] = sock_close(sockets[c], Top.fin) /\ \A i \in Slot \ {c} : sockets'[i] = sockets[i]
      BY <2>1, <2>5 DEF NetTyped
    <3>2. sock_close(sockets[c], Top.fin).ref_count = 0
      BY <2>5, GoodFact DEF sock_close, Socks
    <3>3. QED
      BY <3>1, <3>2
  <2> HIDE DEF c
  <2>9. \A fd : fds'[fd] = fds[fd]
    BY <1>1
  <2>10. ASSUME ~shut', NEW i \in Slot
         PROVE  sockets'[i].ref_count # 0 <=> (\E fd \in 1 .. MAX_FDS : fds'[fd] = i) \/ Closing(i)'
    <3>1. /\ sockets[i].ref_count # 0 <=> (\E fd \in 1 .. MAX_FDS : fds[fd] = i) \/ Closing(i)
          /\ \A fd \in 1 .. MAX_FDS : fds[fd] # c
      BY <1>1, <2>5, <2>6, <2>10 DEF OwnersOK
    <3>2. CASE i = c
      BY <2>7, <2>8, <2>9, <3>1, <3>2
    <3>3. CASE i # c
      BY <2>6, <2>7, <2>8, <2>9, <3>1, <3>3
    <3>4. QED
      BY <3>2, <3>3
  <2>11. ~shut' => \A a, b \in 1 .. MAX_FDS : fds'[a] = fds'[b] /\ fds'[a] # 0 => a = b
    BY <1>1, <2>9 DEF OwnersOK
  <2>12. QED
    BY <2>7, <2>10, <2>11 DEF OwnersOK
<1>5. QED
  BY <1>3, <1>4

LEMMA OwnersProgram ==
  ASSUME NetTyped, OwnersOK, Program
  PROVE  OwnersOK'
<1>0. fds \in [1 .. MAX_FDS -> 0 .. MAX_SOCKETS]
  BY DEF NetTyped, TablesTyped
<1>1. stack = << >> => \A i \in Slot : ~Closing(i)
  BY DEF Closing
\* Calls that leave who owns what alone.
<1>2. ASSUME stack = << >>, UNCHANGED <<fds, shut>>, stack' = << >> \/ stack'[Len(stack')].at # "close",
             \A i \in Slot : sockets'[i].ref_count = sockets[i].ref_count
      PROVE  OwnersOK'
  <2>1. \A i \in Slot : ~Closing(i)'
    BY <1>2 DEF Closing
  <2>2. QED
    BY <1>1, <1>2, <2>1, OwnersSame
<1>3. ASSUME NEW i \in Slot, NEW t, sockets' = [sockets EXCEPT ![i] = t],
             t.ref_count = sockets[i].ref_count
      PROVE  \A j \in Slot : sockets'[j].ref_count = sockets[j].ref_count
  BY <1>3 DEF NetTyped
<1>4. ASSUME NEW type \in types, Socket(type) PROVE OwnersOK'
  <2>0. stack = << >> /\ UNCHANGED <<stack, shut>>
    BY <1>4, SocketFact, Zenon
  <2>1. PICK i \in Slot, new \in GoodSocks :
          /\ sockets[i].ref_count = 0 /\ sockets' = [sockets EXCEPT ![i] = new]
          /\ \/ new.ref_count = 0 /\ UNCHANGED fds
             \/ new.ref_count = 1 /\ \E fd \in 1 .. MAX_FDS : fds[fd] = 0 /\ fds' = [fds EXCEPT ![fd] = i]
    BY <1>4, SocketFact, Zenon
  <2>2. CASE new.ref_count = 0 /\ UNCHANGED fds
    <3>1. \A j \in Slot : sockets'[j].ref_count = sockets[j].ref_count
      BY <1>3, <2>1, <2>2
    <3>2. QED
      BY <1>2, <2>0, <2>2, <3>1
  <2>3. ASSUME new.ref_count = 1, NEW fd \in 1 .. MAX_FDS, fds[fd] = 0, fds' = [fds EXCEPT ![fd] = i]
        PROVE  OwnersOK'
    <3>1. \A j \in Slot : ~Closing(j) /\ ~Closing(j)'
      BY <2>0 DEF Closing
    <3>2. \A j \in Slot : sockets'[j].ref_count = IF j = i THEN 1 ELSE sockets[j].ref_count
      BY <2>1, <2>3 DEF NetTyped
    <3>3. \A a \in 1 .. MAX_FDS : fds'[a] = IF a = fd THEN i ELSE fds[a]
      BY <1>0, <2>3
    <3>4. i # 0
      BY DEF Slot
    <3>5. SUFFICES ASSUME ~shut' PROVE OwnersOK'
      BY Zenon DEF OwnersOK
    <3>6. /\ \A j \in Slot : sockets[j].ref_count # 0 <=> \E a \in 1 .. MAX_FDS : fds[a] = j
          /\ \A a, b \in 1 .. MAX_FDS : fds[a] = fds[b] /\ fds[a] # 0 => a = b
      BY <2>0, <3>1, <3>5 DEF OwnersOK
    <3>7. \A a \in 1 .. MAX_FDS : fds[a] # i
      BY <2>1, <3>6
    <3>8. ASSUME NEW j \in Slot
          PROVE  sockets'[j].ref_count # 0 <=> \E a \in 1 .. MAX_FDS : fds'[a] = j
      <4>1. CASE j = i
        BY <3>2, <3>3, <4>1
      <4>2. CASE j # i
        <5>0. j # 0
          BY DEF Slot
        <5>1. (\E a \in 1 .. MAX_FDS : fds'[a] = j) <=> (\E a \in 1 .. MAX_FDS : fds[a] = j)
          BY <2>3, <3>3, <4>2, <5>0
        <5>2. QED
          BY <3>2, <3>6, <4>2, <5>1
      <4>3. QED
        BY <4>1, <4>2
    <3>9. ASSUME NEW a \in 1 .. MAX_FDS, NEW b \in 1 .. MAX_FDS, fds'[a] = fds'[b], fds'[a] # 0
          PROVE  a = b
      BY <3>3, <3>6, <3>7, <3>9
    <3>10. QED
      BY <3>1, <3>8, <3>9, Zenon DEF OwnersOK
  <2>4. QED
    BY <2>1, <2>2, <2>3
<1>5. ASSUME NEW fd \in 1 .. MAX_FDS, NEW port \in BindPorts, Bind(fd, port) PROVE OwnersOK'
  <2>1. PICK t \in GoodSocks : /\ sockets' = [sockets EXCEPT ![fds[fd]] = t]
                               /\ t = [sockets[fds[fd]] EXCEPT !.local_port = port]
    BY <1>5, BindFact, Zenon
  <2>2. stack = << >> /\ fds[fd] \in Slot /\ UNCHANGED <<stack, fds, shut>>
    BY <1>5, BindFact, Zenon
  <2>3. t.ref_count = sockets[fds[fd]].ref_count
    BY <2>1, <2>2 DEF NetTyped, GoodSocks, Socks
  <2>4. QED
    BY <1>2, <1>3, <2>1, <2>2, <2>3
<1>6. ASSUME NEW fd \in 1 .. MAX_FDS, Option(fd) PROVE OwnersOK'
  <2>1. PICK t \in GoodSocks : sockets' = [sockets EXCEPT ![fds[fd]] = t] /\ Opted(sockets[fds[fd]], t)
    BY <1>6, OptionFact, Zenon
  <2>2. stack = << >> /\ fds[fd] \in Slot /\ SocketStep /\ UNCHANGED stack
    BY <1>6, OptionFact, Zenon
  <2>3. UNCHANGED <<fds, shut>>
    BY <2>2 DEF SocketStep, userVars
  <2>4. t.ref_count = sockets[fds[fd]].ref_count
    BY <2>1 DEF Opted
  <2>5. QED
    BY <1>2, <1>3, <2>1, <2>2, <2>3, <2>4
<1>7. ASSUME NEW fd \in 1 .. MAX_FDS, NEW shutdown \in BOOLEAN, Close(fd, shutdown) PROVE OwnersOK'
  <2>1. PICK f \in Calls, g \in Calls :
          /\ stack' = <<f>> \/ stack' = <<g, f>>
          /\ f.at = "close" /\ f.slot = fds[fd] /\ g.at = "send" /\ g.syn = << >>
    BY <1>7, CloseFact, Zenon
  <2>2. /\ stack = << >> /\ fds[fd] \in Slot /\ fds[fd] # 0 /\ UNCHANGED sockets
        /\ fds' = (IF shutdown THEN fds ELSE [fds EXCEPT ![fd] = 0])
        /\ shut' = (shut \/ shutdown)
    BY <1>7, CloseFact, Zenon
  <2>3. \A i \in Slot : Closing(i)' <=> i = fds[fd]
    <3>1. CASE stack' = <<f>>
      BY <2>1, <3>1 DEF Closing
    <3>2. CASE stack' = <<g, f>>
      BY <2>1, <3>2 DEF Closing
    <3>3. QED
      BY <2>1, <3>1, <3>2
  <2>4. SUFFICES ASSUME ~shut' PROVE OwnersOK'
    BY Zenon DEF OwnersOK
  <2>5. ~shut /\ ~shutdown
    BY <2>2, <2>4
  <2>6. \A a \in 1 .. MAX_FDS : fds'[a] = IF a = fd THEN 0 ELSE fds[a]
    BY <1>0, <2>2, <2>5
  <2>7. /\ \A j \in Slot : sockets[j].ref_count # 0 <=> \E a \in 1 .. MAX_FDS : fds[a] = j
        /\ \A a, b \in 1 .. MAX_FDS : fds[a] = fds[b] /\ fds[a] # 0 => a = b
    BY <1>1, <2>2, <2>5 DEF OwnersOK
  <2>8. ASSUME NEW j \in Slot
        PROVE  (\E a \in 1 .. MAX_FDS : fds[a] = j) <=> (\E a \in 1 .. MAX_FDS : fds'[a] = j) \/ j = fds[fd]
    <3>1. j # 0
      BY DEF Slot
    <3>2. QED
      BY <2>6, <3>1
  <2>9. \A a \in 1 .. MAX_FDS : fds'[a] # fds[fd]
    BY <2>2, <2>6, <2>7
  <2>10. \A a, b \in 1 .. MAX_FDS : fds'[a] = fds'[b] /\ fds'[a] # 0 => a = b
    BY <2>6, <2>7
  <2>11. \A j \in Slot : sockets'[j].ref_count # 0 <=> (\E a \in 1 .. MAX_FDS : fds'[a] = j) \/ Closing(j)'
    BY <2>2, <2>3, <2>7, <2>8, Zenon
  <2>12. QED
    BY <2>3, <2>9, <2>10, <2>11, Zenon DEF OwnersOK
<1>8. ASSUME NEW fd \in 1 .. MAX_FDS, NEW ip \in Hosts, Connect(fd, ip) PROVE OwnersOK'
  <2>1. PICK t \in GoodSocks :
          /\ sockets' = [sockets EXCEPT ![fds[fd]] = t]
          /\ Dialled(sockets[fds[fd]], t, ip, conns + 1)
          /\ t.type = STREAM =>
               stack' = <<SendSyn(t), [at |-> "connect", slot |-> fds[fd], timeout |-> CONNECT_POLLS]>>
          /\ t.type # STREAM => stack' = << >>
    BY <1>8, ConnectFact, Zenon
  <2>2. stack = << >> /\ fds[fd] \in Slot /\ UNCHANGED <<fds, shut>>
    BY <1>8, ConnectFact, Zenon
  <2>3. stack' = << >> \/ stack'[Len(stack')].at # "close"
    <3> DEFINE f == [at |-> "connect", slot |-> fds[fd], timeout |-> CONNECT_POLLS]
               g == SendSyn(t)
    <3>1. (stack' = << >> \/ stack' = <<g, f>>) /\ f.at = "connect"
      BY <2>1
    <3> HIDE DEF f, g
    <3>2. CASE stack' = <<g, f>>
      <4>1. Len(stack') = 2 /\ stack'[2] = f
        BY <3>2
      <4>2. QED
        BY <3>1, <4>1
    <3>3. QED
      BY <3>1, <3>2
  <2>4. t.ref_count = sockets[fds[fd]].ref_count
    BY <2>1 DEF Dialled
  <2>5. QED
    BY <1>2, <1>3, <2>1, <2>2, <2>3, <2>4
<1>9. ASSUME NEW fd \in 1 .. MAX_FDS,
             \/ Accept(fd)
             \/ \E ip \in Hosts \cup {NoHost}, n \in Chunks : Sendto(fd, ip, n)
             \/ \E n \in Counts : Recv(fd, n)
             \/ \E n \in POLL_ROUNDS : SysPoll(fd, n)
      PROVE  OwnersOK'
  <2>1. UNCHANGED sockets /\ Has(fd) /\ SocketStep
    BY <1>9, Zenon DEF Accept, Sendto, Recv, SysPoll
  <2>2. stack = << >> /\ UNCHANGED <<fds, shut>>
    BY <2>1 DEF Has, InUser, SocketStep, userVars
  <2>3. PICK f : stack' = <<f>> /\ f.at # "close"
    <3>1. CASE Accept(fd)
      BY <3>1 DEF Accept
    <3>2. CASE \E ip \in Hosts \cup {NoHost}, n \in Chunks : Sendto(fd, ip, n)
      BY <3>2 DEF Sendto
    <3>3. CASE \E n \in Counts : Recv(fd, n)
      BY <3>3 DEF Recv
    <3>4. CASE \E n \in POLL_ROUNDS : SysPoll(fd, n)
      BY <3>4 DEF SysPoll
    <3>5. QED
      BY <1>9, <3>1, <3>2, <3>3, <3>4
  <2>4. stack'[Len(stack')].at # "close"
    BY <2>3
  <2>5. QED
    BY <1>2, <2>1, <2>2, <2>4
<1>10. QED
  BY <1>4, <1>5, <1>6, <1>7, <1>8, <1>9, Zenon DEF Program

LEMMA OwnersKept ==
  ASSUME Base, OwnersOK, [Next]_vars
  PROVE  OwnersOK'
<1>0. NetTyped /\ BottomOK
  BY DEF Base
<1>1. CASE UNCHANGED vars
  BY <1>1, SameVars, OwnersSame DEF Closing
<1>2. CASE World
  <2>1. UNCHANGED <<sockets, stack, fds, shut>>
    BY <1>2, WorldKeeps DEF userVars
  <2>2. QED
    BY <2>1, OwnersSame DEF Closing
<1>3. CASE Irq
  <2>1. UNCHANGED <<sockets, fds, shut>> /\ stack' = <<Poll, [at |-> "irq"]>> \o stack /\ Moving
    BY <1>0, <1>3, IrqTyped DEF Irq, userVars
  <2>2. CASE stack # << >>
    BY <1>0, <2>1, <2>2, ClosingStays, OwnersSame DEF ElsewhereStep
  <2>3. CASE stack = << >>
    <3> DEFINE e == [at |-> "irq"]
    <3>1. e \in Calls /\ Poll \in Calls /\ e.at # "close"
      BY MadeCalls
    <3> HIDE DEF e
    <3>2. stack' = <<Poll, e>>
      <4>1. <<Poll, e>> \in Seq(Calls)
        BY <3>1
      <4>2. <<Poll, e>> \o << >> = <<Poll, e>>
        BY <4>1, ConcatEmptySeq
      <4>3. QED
        BY <2>1, <2>3, <4>2 DEF e
    <3>3. \A i \in Slot : ~Closing(i) /\ ~Closing(i)'
      BY <2>3, <3>1, <3>2 DEF Closing
    <3>4. QED
      BY <2>1, <3>3, OwnersSame
  <2>4. QED
    BY <2>2, <2>3
<1>4. CASE Kernel
  BY <1>0, <1>4, OwnersKernel
<1>5. CASE Program
  BY <1>0, <1>5, OwnersProgram
<1>6. CASE IrqDivides \/ Resumes
  <2>1. CutOK
    BY <1>6, CutsAreOK
  <2>2. \A i \in Slot : Closing(i)' <=> Closing(i)
    BY <2>1, CutCloses DEF CutOK
  <2>3. QED
    BY <2>1, <2>2, OwnersSame DEF CutOK
<1>7. QED
  BY <1>1, <1>2, <1>3, <1>4, <1>5, <1>6 DEF Next, Compute, StackFull

\* Of socket, close and the calls in between, and wherever interrupts come in them: as
\* long as no program has called shutdown, a slot of the socket table is in use exactly
\* if one fd names it or a close is giving it up, and no two fds share one.
THEOREM SlotsStayOwned == Spec => []SlotsOwned
<1>1. Init => OwnersOK
  <2> SUFFICES ASSUME Init PROVE OwnersOK
    OBVIOUS
  <2>1. /\ \A i \in Slot : sockets[i].ref_count = 0 /\ i # 0
        /\ \A fd \in 1 .. MAX_FDS : fds[fd] = 0
        /\ stack = << >>
    BY DEF Init, Unused, Slot
  <2>2. QED
    BY <2>1 DEF OwnersOK, Closing
<1>2. Base /\ OwnersOK /\ [Next]_vars => OwnersOK'
  BY OwnersKept
<1>3. Base /\ OwnersOK => SlotsOwned
  <2> SUFFICES ASSUME NetTyped, BottomOK, OwnersOK, ~shut PROVE SlotsOwned
    BY Zenon DEF SlotsOwned, Base
  <2>1. /\ \A i \in Slot : sockets[i].ref_count # 0 <=> (\E fd \in 1 .. MAX_FDS : fds[fd] = i) \/ Closing(i)
        /\ \A a, b \in 1 .. MAX_FDS : fds[a] = fds[b] /\ fds[a] # 0 => a = b
    BY DEF OwnersOK
  <2> DEFINE C == {stack[k].slot : k \in {k \in DOMAIN stack : stack[k].at = "close"}}
             F == ToSet(fds) \ {0}
  <2>2. stack \in Seq(Calls) /\ Len(stack) \in Nat /\ DOMAIN stack = 1 .. Len(stack)
    BY DEF NetTyped
  <2>3. \A i : i \in C <=> Closing(i)
    <3>1. ASSUME NEW k \in DOMAIN stack, stack[k].at = "close" PROVE k = Len(stack) /\ stack # << >>
      <4>1. k \in 1 .. Len(stack) /\ stack[k].at \in UserCalls
        BY <2>2, <3>1 DEF UserCalls
      <4>2. k = Len(stack)
        BY <4>1 DEF BottomOK
      <4>3. stack # << >>
        BY <4>1
      <4>4. QED
        BY <4>2, <4>3
    <3>2. stack # << >> => Len(stack) \in DOMAIN stack
      BY <2>2
    <3>3. QED
      BY <3>1, <3>2 DEF Closing
  <2>4. C \subseteq Slot
    <3>1. ASSUME NEW k \in DOMAIN stack, stack[k].at = "close" PROVE stack[k].slot \in Slot
      <4>1. stack[k] \in Calls
        BY <2>2
      <4>2. QED
        BY <3>1, <4>1, CallKinds DEF CloseCalls
    <3>2. QED
      BY <3>1
  <2>5. /\ \A i \in Slot : i \in F <=> \E fd \in 1 .. MAX_FDS : fds[fd] = i
        /\ F \subseteq Slot
    <3>1. fds \in [1 .. MAX_FDS -> 0 .. MAX_SOCKETS] /\ DOMAIN fds = 1 .. MAX_FDS
      BY DEF NetTyped, TablesTyped
    <3>2. MAX_SOCKETS \in Nat
      BY Consts
    <3>3. \A i \in Slot : i # 0
      BY DEF Slot
    <3>4. \A x \in 0 .. MAX_SOCKETS : x # 0 => x \in Slot
      BY <3>2 DEF Slot
    <3>5. QED
      BY <3>1, <3>3, <3>4 DEF ToSet
  <2> HIDE DEF C, F
  <2>6. {i \in Slot : sockets[i].ref_count # 0} = F \cup C
    BY <2>1, <2>3, <2>4, <2>5
  <2>7. QED
    BY <2>1, <2>6 DEF SlotsOwned, F, C
<1>4. QED
  BY <1>1, <1>2, <1>3, AlwaysBase, PTL DEF Spec

---------------------------------------------------------------------------
(* The receive ring *)

LEMMA Wraps ==
  ASSUME NEW K \in Nat \ {0}, NEW x \in Nat
  PROVE  (x < K => x % K = x) /\ (K <= x /\ x < 2 * K => x % K = x - K)
OBVIOUS

LEMMA FromFacts ==
  ASSUME NEW c \in Desc, NEW d \in Desc
  PROVE  /\ From(c, d) \in Nat /\ From(c, d) < NUM_RX_DESC
         /\ From(c, d) = 0 <=> d = c
         /\ \A e \in Desc : From(c, d) = From(c, e) => d = e
         /\ (c + From(c, d)) % NUM_RX_DESC = d
         /\ (d - c + NUM_RX_DESC) % NUM_RX_DESC = From(c, d)
<1>1. /\ NUM_RX_DESC \in Nat \ {0} /\ c \in Nat /\ d \in Nat /\ c < NUM_RX_DESC /\ d < NUM_RX_DESC
  BY Consts DEF Desc
<1>2. /\ From(c, d) \in Nat /\ From(c, d) < NUM_RX_DESC /\ (From(c, d) = 0 <=> d = c)
      /\ c + From(c, d) = d \/ c + From(c, d) = d + NUM_RX_DESC
      /\ d - c + NUM_RX_DESC = From(c, d) \/ d - c + NUM_RX_DESC = From(c, d) + NUM_RX_DESC
  BY <1>1 DEF From
<1>3. ASSUME NEW e \in Desc, From(c, d) = From(c, e) PROVE d = e
  BY <1>1, <1>3, Consts DEF From, Desc
<1>4. (c + From(c, d)) % NUM_RX_DESC = d
  <2> DEFINE x == c + From(c, d)
  <2>1. x \in Nat /\ (x = d \/ x = d + NUM_RX_DESC)
    BY <1>1, <1>2
  <2> HIDE DEF x
  <2>2. (x < NUM_RX_DESC => x % NUM_RX_DESC = x)
        /\ (NUM_RX_DESC <= x /\ x < 2 * NUM_RX_DESC => x % NUM_RX_DESC = x - NUM_RX_DESC)
    BY <1>1, <2>1, Wraps
  <2>3. x % NUM_RX_DESC = d
    BY <1>1, <2>1, <2>2
  <2>4. QED
    BY <2>3 DEF x
<1>5. (d - c + NUM_RX_DESC) % NUM_RX_DESC = From(c, d)
  <2> DEFINE x == d - c + NUM_RX_DESC
             y == From(c, d)
  <2>1. x \in Nat /\ (x = y \/ x = y + NUM_RX_DESC) /\ y \in Nat /\ y < NUM_RX_DESC
    BY <1>1, <1>2
  <2> HIDE DEF x, y
  <2>2. (x < NUM_RX_DESC => x % NUM_RX_DESC = x)
        /\ (NUM_RX_DESC <= x /\ x < 2 * NUM_RX_DESC => x % NUM_RX_DESC = x - NUM_RX_DESC)
    BY <1>1, <2>1, Wraps
  <2>3. x % NUM_RX_DESC = y
    BY <1>1, <2>1, <2>2
  <2>4. QED
    BY <2>3 DEF x, y
<1>6. QED
  BY <1>2, <1>3, <1>4, <1>5

\* The driver goes on by one, from a descriptor that is not the card's.
LEMMA FromNext ==
  ASSUME NEW c \in Desc, NEW n \in Desc, n = IF c + 1 = NUM_RX_DESC THEN 0 ELSE c + 1
  PROVE  /\ \A d \in Desc : d # c => From(n, d) = From(c, d) - 1
         /\ From(n, c) = NUM_RX_DESC - 1
         /\ \A d \in Desc : From(c, d) < NUM_RX_DESC - 1 =>
              From(c, IF d + 1 = NUM_RX_DESC THEN 0 ELSE d + 1) = From(c, d) + 1
<1>1. /\ NUM_RX_DESC \in Nat /\ NUM_RX_DESC > 1 /\ c \in Nat /\ c < NUM_RX_DESC
      /\ \A d \in Desc : d \in Nat /\ d < NUM_RX_DESC
  BY Consts DEF Desc
<1>2. QED
  BY <1>1 DEF From

LEMMA PolledFilled ==
  ASSUME NetTyped, FilledOK, descs[s_rx_cur] # NoFrame, descs' = [descs EXCEPT ![s_rx_cur] = NoFrame],
         s_rx_cur' = (s_rx_cur + 1) % NUM_RX_DESC, rdt' = s_rx_cur, UNCHANGED rdh
  PROVE  FilledOK'
<1> DEFINE c == s_rx_cur
           n == (s_rx_cur + 1) % NUM_RX_DESC
<1>1. c \in Desc /\ rdh \in Desc /\ descs \in [Desc -> Frames]
  BY DEF NetTyped, TablesTyped
<1>2. n \in Desc /\ n = IF c + 1 = NUM_RX_DESC THEN 0 ELSE c + 1
  BY <1>1, NextDesc
<1>3. \A d \in Desc : descs[d] # NoFrame <=> From(c, d) < From(c, rdh)
  BY DEF FilledOK, Dist
<1>4. \A d \in Desc : descs'[d] = IF d = c THEN NoFrame ELSE descs[d]
  BY <1>1
<1>5. s_rx_cur' = n /\ rdh' = rdh
  OBVIOUS
<1> HIDE DEF n, c
<1>6. From(c, c) < From(c, rdh)
  BY <1>1, <1>3 DEF c
<1>7. rdh # c
  BY <1>1, <1>6, FromFacts
<1>8. /\ \A d \in Desc : d # c => From(n, d) = From(c, d) - 1
      /\ From(n, c) = NUM_RX_DESC - 1
  BY <1>1, <1>2, FromNext
<1>9. \A d \in Desc : From(c, d) \in Nat /\ From(c, d) < NUM_RX_DESC
  BY <1>1, FromFacts
<1>10. ASSUME NEW d \in Desc PROVE descs'[d] # NoFrame <=> From(n, d) < From(n, rdh)
  <2>1. From(n, rdh) = From(c, rdh) - 1 /\ From(c, rdh) \in Nat /\ From(c, rdh) < NUM_RX_DESC
        /\ NUM_RX_DESC \in Nat
    BY <1>1, <1>7, <1>8, <1>9, Consts
  <2>2. CASE d = c
    <3>1. ~(From(n, c) < From(n, rdh))
      BY <1>8, <2>1
    <3>2. QED
      BY <1>4, <2>2, <3>1
  <2>3. CASE d # c
    <3>1. From(n, d) = From(c, d) - 1 /\ From(c, d) \in Nat
      BY <1>8, <1>9, <2>3
    <3>2. From(n, d) < From(n, rdh) <=> From(c, d) < From(c, rdh)
      BY <2>1, <3>1
    <3>3. QED
      BY <1>3, <1>4, <2>3, <3>2
  <2>4. QED
    BY <2>2, <2>3
<1>11. QED
  BY <1>2, <1>5, <1>10 DEF FilledOK, Dist, c

LEMMA ArriveFilled ==
  ASSUME NetTyped, FilledOK, NEW f, f # NoFrame, rdh # rdt, descs' = [descs EXCEPT ![rdh] = f],
         rdh' = (rdh + 1) % NUM_RX_DESC, UNCHANGED <<s_rx_cur, rdt>>
  PROVE  FilledOK' /\ descs[rdh] = NoFrame /\ Dist(rdh') = Dist(rdh) + 1
<1> DEFINE c == s_rx_cur
           n == (rdh + 1) % NUM_RX_DESC
<1>1. c \in Desc /\ rdh \in Desc /\ rdt \in Desc /\ descs \in [Desc -> Frames]
  BY DEF NetTyped, TablesTyped
<1>2. n \in Desc /\ n = IF rdh + 1 = NUM_RX_DESC THEN 0 ELSE rdh + 1
  BY <1>1, NextDesc
<1>3. /\ \A d \in Desc : descs[d] # NoFrame <=> From(c, d) < From(c, rdh)
      /\ c = IF rdt + 1 = NUM_RX_DESC THEN 0 ELSE rdt + 1
  BY DEF FilledOK, Dist
<1>4. \A d \in Desc : descs'[d] = IF d = rdh THEN f ELSE descs[d]
  BY <1>1
<1> HIDE DEF n, c
<1>5. From(c, rdt) = NUM_RX_DESC - 1
  BY <1>1, <1>3, FromNext
<1>6. \A d \in Desc : From(c, d) \in Nat /\ From(c, d) < NUM_RX_DESC
  BY <1>1, FromFacts
<1>7. From(c, rdh) # NUM_RX_DESC - 1
  BY <1>1, <1>5, FromFacts
<1>8. From(c, rdh) < NUM_RX_DESC - 1
  BY <1>1, <1>6, <1>7, Consts
<1>9. From(c, n) = From(c, rdh) + 1
  <2>1. \A m \in Desc : (m = IF c + 1 = NUM_RX_DESC THEN 0 ELSE c + 1) =>
          From(c, n) = From(c, rdh) + 1
    BY <1>1, <1>2, <1>8, FromNext
  <2>2. (c + 1) % NUM_RX_DESC \in Desc
        /\ (c + 1) % NUM_RX_DESC = IF c + 1 = NUM_RX_DESC THEN 0 ELSE c + 1
    BY <1>1, NextDesc
  <2>3. QED
    BY <2>1, <2>2
<1>10. ASSUME NEW d \in Desc PROVE descs'[d] # NoFrame <=> From(c, d) < From(c, n)
  <2>1. From(c, d) \in Nat /\ From(c, rdh) \in Nat
    BY <1>1, <1>6
  <2>2. CASE d = rdh
    BY <1>4, <1>9, <2>1, <2>2
  <2>3. CASE d # rdh
    <3>1. From(c, d) # From(c, rdh)
      BY <1>1, <2>3, FromFacts
    <3>2. From(c, d) < From(c, n) <=> From(c, d) < From(c, rdh)
      BY <1>9, <2>1, <3>1
    <3>3. QED
      BY <1>3, <1>4, <2>3, <3>2
  <2>4. QED
    BY <2>2, <2>3
<1>11. descs[rdh] = NoFrame
  BY <1>1, <1>3, <1>6
<1>12. QED
  BY <1>3, <1>9, <1>10, <1>11 DEF FilledOK, Dist, c, n

LEMMA HandlingStays ==
  ASSUME NetTyped, Moving, HandlingOK, UNCHANGED <<descs, s_rx_cur>>
  PROVE  HandlingOK'
<1>1. PICK pre \in Seq(Calls), k \in 0 .. 2 : k <= Len(stack) /\ Moves(pre, k)
  BY DEF Moving
<1>2. /\ Spliced(stack, stack', pre, k)
      /\ \A j \in 1 .. Len(pre) : pre[j].at = "polled" => pre[j].cur = s_rx_cur /\ descs[s_rx_cur] # NoFrame
  BY <1>1, Zenon DEF Moves
<1> DEFINE p == Len(pre)
           n == Len(stack)
           m == Len(stack')
<1>3. \A j \in 1 .. m : \/ j \in 1 .. p /\ stack'[j] = pre[j]
                        \/ j - p + k \in 1 .. n /\ stack'[j] = stack[j - p + k]
  BY <1>1, <1>2, SplicedFact, Zenon
<1>4. DOMAIN stack = 1 .. n /\ DOMAIN stack' = 1 .. m
  BY MovingTyped DEF NetTyped
<1> HIDE DEF p, n, m
<1>5. ASSUME NEW i \in Handling' PROVE stack'[i].cur = s_rx_cur /\ descs[s_rx_cur] # NoFrame
  <2>1. i \in 1 .. m /\ stack'[i].at = "polled"
    BY <1>4 DEF Handling
  <2>2. CASE i \in 1 .. p /\ stack'[i] = pre[i]
    BY <1>2, <2>1, <2>2 DEF p
  <2>3. CASE i - p + k \in 1 .. n /\ stack'[i] = stack[i - p + k]
    <3>1. i - p + k \in Handling
      BY <1>4, <2>1, <2>3 DEF Handling
    <3>2. QED
      BY <2>3, <3>1 DEF HandlingOK
  <2>4. QED
    BY <1>3, <2>1, <2>2, <2>3
<1>6. QED
  BY <1>5 DEF HandlingOK

\* What a packet of a connection tells of what its host has sent.
SentBy(f) ==
  LET c == f.conn
  IN  /\ <<f.port, f.from, c>> \in syns
      /\ \A e \in 1 .. MaxConns : e # c => flow'[e] = flow[e]
      /\ f.flag # "data" =>
           flow'[c].sent = flow[c].sent /\ (flow'[c].open => f.flag = "synack")
      /\ f.flag = "data" =>
           flow[c].open /\ f.first = flow[c].sent + 1 /\ flow'[c].sent = flow[c].sent + f.len

LEMMA WorldFact ==
  ASSUME NetTyped, World
  PROVE  \E f \in Frames : /\ f # NoFrame /\ Arrive(f)
                           /\ f.kind = "tcp" => f \in Segments /\ SentBy(f)
                           /\ f.kind # "tcp" => UNCHANGED flow
<1> DEFINE F == [open : BOOLEAN, sent : Nat, fin : BOOLEAN]
<1>0. flow \in [1 .. MaxConns -> F] /\ syns \subseteq Syns /\ ports \subseteq Nat
  BY DEF NetTyped, TablesTyped
<1>1. ASSUME NEW f \in Segments PROVE f \in Frames /\ f # NoFrame /\ f.kind = "tcp"
  <2>1. f \in Frames
    BY Zenon DEF Frames
  <2>2. f.kind = "tcp"
    BY DEF Segments
  <2>3. f # NoFrame
    BY <2>2 DEF NoFrame
  <2>4. QED
    BY <2>1, <2>2, <2>3
<1>2. ASSUME NEW syn \in syns, NEW g \in {"synack", "rst"}, NEW b \in BOOLEAN, b => g = "synack",
             flow' = [flow EXCEPT ![syn[3]] = [flow[syn[3]] EXCEPT !.open = b]]
      PROVE  Segment(syn, g) \in Segments /\ SentBy(Segment(syn, g))
  <2>1. syn \in Syns /\ syn[3] \in 1 .. MaxConns /\ syn = <<syn[1], syn[2], syn[3]>> /\ 0 \in Nat
        /\ FALSE \in BOOLEAN
    BY <1>0, SegmentFact DEF Syns
  <2> DEFINE f == Segment(syn, g)
             c == syn[3]
  <2>2. f \in Segments
    BY <2>1, SegmentFact
  <2>3. f.port = syn[1] /\ f.from = syn[2] /\ f.conn = c /\ f.flag = g /\ g # "data"
    BY DEF Segment
  <2>4. flow[c] \in F
    BY <1>0, <2>1
  <2>5. flow'[c].sent = flow[c].sent /\ flow'[c].open = b
    <3> DEFINE t == [flow[c] EXCEPT !.open = b]
    <3>1. t.sent = flow[c].sent /\ t.open = b
      BY <2>4
    <3> HIDE DEF t
    <3>2. flow'[c] = t
      BY <1>0, <1>2, <2>1 DEF t
    <3>3. QED
      BY <3>1, <3>2
  <2>6. \A e \in 1 .. MaxConns : e # c => flow'[e] = flow[e]
    BY <1>0, <1>2, <2>1
  <2> HIDE DEF f
  <2>7. <<f.port, f.from, f.conn>> \in syns
    BY <2>1, <2>3
  <2>8. QED
    BY <1>2, <2>2, <2>3, <2>5, <2>6, <2>7, Zenon DEF SentBy, f
<1>3. ASSUME NEW syn \in syns, Answer(syn)
      PROVE  \E f \in Segments : Arrive(f) /\ SentBy(f)
  <2>1. \/ /\ flow' = [flow EXCEPT ![syn[3]] = [flow[syn[3]] EXCEPT !.open = TRUE]]
           /\ Arrive(Segment(syn, "synack"))
        \/ /\ flow' = [flow EXCEPT ![syn[3]] = [flow[syn[3]] EXCEPT !.open = FALSE]]
           /\ Arrive(Segment(syn, "rst"))
    BY <1>3, Zenon DEF Answer
  <2>2. TRUE \in BOOLEAN /\ FALSE \in BOOLEAN
    OBVIOUS
  <2>3. QED
    BY <1>2, <2>1, <2>2, Zenon
<1>4. ASSUME NEW syn \in syns, NEW n \in 0 .. MaxBytes, NEW fin \in BOOLEAN, Data(syn, n, fin)
      PROVE  \E f \in Segments : Arrive(f) /\ SentBy(f)
  <2>1. syn \in Syns /\ syn[3] \in 1 .. MaxConns /\ n \in Nat /\ syn = <<syn[1], syn[2], syn[3]>>
    <3>1. n \in Nat
      BY Consts
    <3>2. QED
      BY <1>0, <3>1 DEF Syns
  <2> DEFINE c == syn[3]
             p == flow[c].sent + n
             g == [Segment(syn, "data") EXCEPT !.first = flow[c].sent + 1, !.len = n, !.fin = fin]
             b == ~fin
  <2>2. /\ flow' = [flow EXCEPT ![c].sent = @ + n, ![c].fin = fin, ![c].open = ~fin] /\ Arrive(g)
        /\ flow[c].open
    BY <1>4, Zenon DEF Data
  <2>3. flow[c] \in F /\ flow[c].sent \in Nat /\ p \in Nat /\ b \in BOOLEAN
    BY <1>0, <2>1
  <2>4. g \in Segments
    BY <2>1, <2>3, SegmentFact
  <2>5. /\ g.port = syn[1] /\ g.from = syn[2] /\ g.conn = c /\ g.flag = "data" /\ g.len = n
        /\ g.first = flow[c].sent + 1
    BY DEF Segment
  <2>6. flow'[c].sent = flow[c].sent + n /\ \A e \in 1 .. MaxConns : e # c => flow'[e] = flow[e]
    <3> HIDE DEF F, c
    <3>1. c \in 1 .. MaxConns /\ flow \in [1 .. MaxConns -> F] /\ flow[c] \in F
      BY <1>0, <2>1, <2>3 DEF c
    <3> DEFINE t == [[[flow[c] EXCEPT !.sent = flow[c].sent + n] EXCEPT !.fin = fin] EXCEPT !.open = ~fin]
    <3>2. [flow EXCEPT ![c].sent = @ + n, ![c].fin = fin, ![c].open = ~fin] = [flow EXCEPT ![c] = t]
      BY <3>1
    <3>3. t.sent = flow[c].sent + n
      BY <3>1 DEF F
    <3> HIDE DEF t
    <3>4. flow' = [flow EXCEPT ![c] = t]
      BY <2>2, <3>2
    <3>5. QED
      BY <3>1, <3>3, <3>4
  <2> HIDE DEF g, c
  <2>7. SentBy(g)
    <3>1. <<g.port, g.from, g.conn>> \in syns
      BY <2>1, <2>5 DEF c
    <3>2. QED
      BY <2>2, <2>5, <2>6, <3>1, Zenon DEF SentBy
  <2>8. QED
    BY <2>2, <2>4, <2>7
<1>5. ASSUME Packet PROVE \E f \in Frames : f # NoFrame /\ f.kind # "tcp" /\ Arrive(f) /\ UNCHANGED flow
  <2>1. PICK f : /\ Arrive(f) /\ UNCHANGED flow
                 /\ \/ \E h \in Neighbours : f = [kind |-> "arp", from |-> h]
                    \/ \E p \in ports : f = [kind |-> "udp", port |-> p]
                    \/ \E h \in Hosts, e \in BOOLEAN : f = [kind |-> "icmp", from |-> h, echo |-> e]
    BY <1>5, Zenon DEF Packet
  <2>2. f \in Frames
    BY <1>0, <2>1 DEF Frames
  <2>3. f.kind # "none" /\ f.kind # "tcp"
    BY <2>1
  <2>4. f # NoFrame
    BY <2>3 DEF NoFrame
  <2>5. QED
    BY <2>1, <2>2, <2>3, <2>4
<1>6. QED
  BY <1>1, <1>3, <1>4, <1>5, Zenon DEF World

\* The round that is under way ends.
LEMMA PolledEnds ==
  ASSUME NetTyped, StackOK, PolledRx, ~reentered
  PROVE  Handling = {1} /\ Handling' = {} /\ Top = stack[1] /\ stack[1].at = "polled"
<1>1. stack # << >> /\ Top.at = "polled" /\ Become(Poll)
  BY DEF PolledRx, At
<1>2. Top = stack[1] /\ stack \in Seq(Calls) /\ Len(stack) \in Nat /\ Len(stack) >= 1
  BY <1>1, TopFacts
<1>3. 1 \in Handling
  BY <1>1, <1>2 DEF Handling
<1>4. \A i, j \in Handling : i = j
  BY DEF StackOK, NestOK
<1>5. Handling = {1}
  BY <1>3, <1>4
<1>6. Poll \in Calls /\ Poll.at # "polled"
  BY MadeCalls DEF Poll
<1>7. Spliced(stack, stack', <<Poll>>, 1)
  BY <1>1, <1>2, <1>6, StackForms DEF Become
<1>8. /\ <<Poll>> \in Seq(Calls) /\ Len(<<Poll>>) = 1 /\ <<Poll>>[1] = Poll /\ 1 \in 0 .. 2
  BY <1>6
<1> DEFINE pre == <<Poll>>
           n == Len(stack)
           m == Len(stack')
<1> HIDE DEF pre
<1>9. \A j \in 1 .. m : \/ j \in 1 .. Len(pre) /\ stack'[j] = pre[j]
                        \/ /\ j > Len(pre) /\ j - Len(pre) + 1 \in 1 .. n
                           /\ stack'[j] = stack[j - Len(pre) + 1]
  BY <1>2, <1>7, <1>8, SplicedFact, Zenon DEF pre
<1>10. DOMAIN stack = 1 .. n /\ DOMAIN stack' = 1 .. m
  <2>1. stack' \in Seq(Calls)
    BY <1>7 DEF Spliced
  <2>2. QED
    BY <1>2, <2>1
<1>11. ASSUME NEW i \in Handling' PROVE FALSE
  <2>1. i \in 1 .. m /\ stack'[i].at = "polled"
    BY <1>10 DEF Handling
  <2>2. Len(pre) = 1 /\ pre[1] = Poll
    BY <1>8 DEF pre
  <2>3. CASE i \in 1 .. Len(pre) /\ stack'[i] = pre[i]
    <3>1. i = 1
      BY <2>2, <2>3
    <3>2. QED
      BY <1>6, <2>1, <2>2, <2>3, <3>1
  <2>4. CASE i > Len(pre) /\ i - Len(pre) + 1 \in 1 .. n /\ stack'[i] = stack[i - Len(pre) + 1]
    <3>1. i > 1 /\ i - 1 + 1 = i /\ i \in Handling
      BY <1>10, <2>1, <2>2, <2>4 DEF Handling
    <3>2. QED
      BY <1>5, <3>1
  <2>5. QED
    BY <1>9, <2>1, <2>3, <2>4
<1>12. QED
  BY <1>1, <1>2, <1>5, <1>11

LEMMA RingKept ==
  ASSUME NetTyped, StackOK, RingOK, [Whole]_vars
  PROVE  RingOK'
<1>1. SUFFICES ASSUME ~reentered' PROVE FilledOK' /\ HandlingOK'
  BY Zenon DEF RingOK
<1>2. Moving /\ ~reentered /\ FilledOK /\ HandlingOK
  <2>1. Moving /\ ~reentered
    BY <1>1, WholeTyped, Flags
  <2>2. QED
    BY <2>1 DEF RingOK
<1>3. ASSUME UNCHANGED <<descs, bufs, s_rx_cur, rdh, rdt>> PROVE FilledOK' /\ HandlingOK'
  <2>1. FilledOK'
    BY <1>2, <1>3 DEF FilledOK, Dist
  <2>2. QED
    BY <1>2, <1>3, <2>1, HandlingStays
<1>4. CASE UNCHANGED vars
  BY <1>3, <1>4, SameVars
<1>5. CASE Kernel /\ ~PolledRx
  <2>1. UNCHANGED <<descs, bufs, s_rx_cur, rdh, rdt>>
    BY <1>5 DEF Kernel, SocketStep, cardVars, SendPacket, Resolve, PollRx, IcmpInput, FinInput,
         FinSent, IrqReturn, Closed, ConnectWaits, ConnectLooks, AcceptWaits, SendtoChunk, RecvWaits,
         RecvLooks, SysPollWaits
  <2>2. QED
    BY <1>3, <2>1
<1>6. CASE PolledRx
  <2>1. Handling = {1} /\ Handling' = {} /\ Top = stack[1]
    BY <1>2, <1>6, PolledEnds
  <2>2. Top.cur = s_rx_cur /\ descs[s_rx_cur] # NoFrame
    BY <1>2, <2>1 DEF HandlingOK
  <2>3. /\ descs' = [descs EXCEPT ![Top.cur] = NoFrame] /\ s_rx_cur' = (Top.cur + 1) % NUM_RX_DESC
        /\ rdt' = Top.cur /\ UNCHANGED rdh
    BY <1>6 DEF PolledRx, new_tail
  <2>4. FilledOK'
    BY <1>2, <2>2, <2>3, PolledFilled
  <2>5. QED
    BY <2>1, <2>4 DEF HandlingOK
<1>7. CASE Irq
  BY <1>3, <1>7 DEF Irq
<1>8. CASE World
  <2>1. PICK f \in Frames : f # NoFrame /\ Arrive(f)
    BY <1>8, WorldFact
  <2>2. /\ rdh # rdt /\ descs' = [descs EXCEPT ![rdh] = f] /\ rdh' = (rdh + 1) % NUM_RX_DESC
        /\ UNCHANGED <<s_rx_cur, rdt, stack>>
    BY <2>1 DEF Arrive
  <2>3. FilledOK' /\ descs[rdh] = NoFrame
    BY <1>2, <2>1, <2>2, ArriveFilled
  <2>4. HandlingOK'
    <3>1. Handling' = Handling
      BY <2>2 DEF Handling
    <3>2. \A d \in Desc : descs[d] # NoFrame => descs'[d] # NoFrame
      BY <2>1, <2>2, <2>3 DEF NetTyped, TablesTyped
    <3>3. s_rx_cur \in Desc
      BY DEF NetTyped, TablesTyped
    <3>4. QED
      BY <1>2, <2>2, <3>1, <3>2, <3>3 DEF HandlingOK
  <2>5. QED
    BY <2>3, <2>4
<1>9. CASE Program
  <2>1. UNCHANGED <<descs, bufs, s_rx_cur, rdh, rdt>>
    BY <1>9, ZenonT(60) DEF Program, Socket, Bind, Option, Close, Connect, Accept, Sendto, Recv, SysPoll, SocketStep,
         cardVars
  <2>2. QED
    BY <1>3, <2>1
<1>10. QED
  BY <1>4, <1>5, <1>6, <1>7, <1>8, <1>9 DEF Whole, Compute, StackFull

LEMMA AlwaysRing == Spec => []RingOK
<1>1. Init => RingOK
  <2> SUFFICES ASSUME Init PROVE RingOK
    OBVIOUS
  <2>1. /\ s_rx_cur = 0 /\ rdh = 0 /\ rdt = NUM_RX_DESC - 1 /\ Handling = {}
        /\ \A d \in Desc : descs[d] = NoFrame
    BY DEF Init, Handling
  <2>2. NUM_RX_DESC \in Nat /\ NUM_RX_DESC > 1 /\ rdt + 1 = NUM_RX_DESC
    BY <2>1, Consts
  <2>3. 0 \in Desc /\ \A d \in Desc : Dist(d) \in Nat
    <3>1. 0 \in Desc
      BY <2>2 DEF Desc
    <3>2. QED
      BY <2>1, <3>1, FromFacts DEF Dist
  <2>4. Dist(rdh) = 0
    BY <2>1, <2>3, FromFacts DEF Dist
  <2>5. FilledOK
    BY <2>1, <2>2, <2>3, <2>4 DEF FilledOK
  <2>6. QED
    BY <2>1, <2>5 DEF RingOK, HandlingOK
<1>2. Base /\ Nested /\ RingOK /\ [Next]_vars => RingOK'
  <2> SUFFICES ASSUME Base, Nested, RingOK, [Next]_vars, ~reentered' PROVE RingOK'
    BY DEF RingOK
  <2>1. NetTyped /\ StackOK /\ [Whole]_vars
    BY Undivided DEF Base, Nested
  <2>2. QED
    BY <2>1, RingKept
<1>3. QED
  BY <1>1, <1>2, AlwaysNested, PTL DEF Spec

\* Of e1000_poll_rx and the card: as long as no round is handled inside a round, and no
\* interrupt comes inside one, the descriptors that are filled are those from
\* s_rx_cur to the card's head, and the tail is one behind s_rx_cur; so no packet is
\* lost in the ring, and none is read before it has come.
THEOREM RingStaysInStep == Spec => []RingInStep
<1>1. NetTyped /\ RingOK => RingInStep
  <2> SUFFICES ASSUME NetTyped, RingOK, ~reentered PROVE RingInStep
    BY Zenon DEF RingInStep
  <2>1. s_rx_cur \in Desc /\ rdh \in Desc /\ rdt \in Desc /\ NUM_RX_DESC \in Nat /\ NUM_RX_DESC > 1
    BY Consts DEF NetTyped, TablesTyped
  <2>2. /\ \A d \in Desc : descs[d] # NoFrame <=> Dist(d) < Dist(rdh)
        /\ s_rx_cur = IF rdt + 1 = NUM_RX_DESC THEN 0 ELSE rdt + 1
    BY DEF RingOK, FilledOK
  <2>3. (rdt + 1) % NUM_RX_DESC = s_rx_cur
    BY <2>1, <2>2, NextDesc
  <2>4. Waiting = Dist(rdh) /\ Dist(rdh) \in Nat /\ Dist(rdh) < NUM_RX_DESC
    BY <2>1, FromFacts DEF Waiting, Dist
  <2> DEFINE W == Dist(rdh)
             c == s_rx_cur
  <2>5. ASSUME NEW d \in Desc, descs[d] # NoFrame
        PROVE  \E k \in 0 .. W - 1 : d = (c + k) % NUM_RX_DESC
    <3>1. Dist(d) < W /\ Dist(d) \in Nat /\ d = (c + Dist(d)) % NUM_RX_DESC
      BY <2>1, <2>2, <2>5, FromFacts DEF Dist
    <3> HIDE DEF W
    <3>2. Dist(d) \in 0 .. W - 1
      BY <2>4, <3>1 DEF W
    <3>3. QED
      BY <3>1, <3>2
  <2>6. ASSUME NEW k \in 0 .. W - 1
        PROVE  (c + k) % NUM_RX_DESC \in Desc /\ descs[(c + k) % NUM_RX_DESC] # NoFrame
    <3> DEFINE e == IF c + k < NUM_RX_DESC THEN c + k ELSE c + k - NUM_RX_DESC
    <3>1. k \in Nat /\ k < W /\ k < NUM_RX_DESC
      <4>1. W \in Nat /\ W < NUM_RX_DESC
        BY <2>4
      <4> HIDE DEF W
      <4>2. QED
        BY <2>1, <4>1
    <3>2. c \in Nat /\ c < NUM_RX_DESC
      BY <2>1 DEF Desc
    <3>3. (c + k) % NUM_RX_DESC = e
      <4>1. c + k \in Nat /\ c + k < 2 * NUM_RX_DESC /\ NUM_RX_DESC \in Nat \ {0}
        BY <2>1, <3>1, <3>2
      <4>2. \A x \in Nat : x < 2 * NUM_RX_DESC =>
              x % NUM_RX_DESC = IF x < NUM_RX_DESC THEN x ELSE x - NUM_RX_DESC
        <5> SUFFICES ASSUME NEW x \in Nat, x < 2 * NUM_RX_DESC
                     PROVE  x % NUM_RX_DESC = IF x < NUM_RX_DESC THEN x ELSE x - NUM_RX_DESC
          OBVIOUS
        <5>1. (x < NUM_RX_DESC => x % NUM_RX_DESC = x)
              /\ (NUM_RX_DESC <= x /\ x < 2 * NUM_RX_DESC => x % NUM_RX_DESC = x - NUM_RX_DESC)
          BY <4>1, Wraps
        <5>2. QED
          BY <4>1, <5>1
      <4>3. QED
        BY <2>1, <3>1, <3>2, <4>1, <4>2
    <3>4. e \in Desc
      BY <2>1, <3>1, <3>2 DEF Desc
    <3>5. Dist(e) = k
      BY <2>1, <3>1, <3>2, <3>4 DEF Dist, From
    <3>6. descs[e] # NoFrame
      BY <2>2, <3>1, <3>4, <3>5
    <3>7. QED
      BY <3>3, <3>4, <3>6
  <2>7. {d \in Desc : descs[d] # NoFrame} = {(c + k) % NUM_RX_DESC : k \in 0 .. W - 1}
    <3> HIDE DEF W
    <3>1. QED
      BY <2>5, <2>6, Zenon
  <2>8. QED
    BY <2>3, <2>4, <2>7 DEF RingInStep
<1>2. Base => NetTyped
  BY DEF Base
<1>3. QED
  BY <1>1, <1>2, AlwaysBase, AlwaysRing, PTL

---------------------------------------------------------------------------
(* Which calls are under way *)

LEMMA OnFact ==
  ASSUME stack \in Seq(Calls)
  PROVE  /\ \A c : On(c) <=> \E k \in 1 .. Len(stack) : stack[k] = c
         /\ \A c : On(c) => c \in Calls
         /\ stack # << >> => On(stack[1])
<1>1. DOMAIN stack = 1 .. Len(stack) /\ \A k \in 1 .. Len(stack) : stack[k] \in Calls
  OBVIOUS
<1>2. stack # << >> => 1 \in 1 .. Len(stack)
  OBVIOUS
<1>3. QED
  BY <1>1, <1>2, Zenon DEF On

LEMMA OnSpliced ==
  ASSUME NetTyped, NEW pre \in Seq(Calls), NEW k \in 0 .. 2, k <= Len(stack), Spliced(stack, stack', pre, k),
         NEW c
  PROVE  /\ On(c)' => On(c) \/ \E j \in 1 .. Len(pre) : pre[j] = c
         /\ On(c) => On(c)' \/ \E j \in 1 .. k : stack[j] = c
         /\ (\E j \in 1 .. Len(pre) : pre[j] = c) => On(c)'
<1> DEFINE p == Len(pre)
           n == Len(stack)
           m == Len(stack')
<1>1. /\ n \in Nat /\ p \in Nat /\ m \in Nat
      /\ \A i \in 1 .. m : \/ i \in 1 .. p /\ stack'[i] = pre[i]
                           \/ i - p + k \in 1 .. n /\ stack'[i] = stack[i - p + k]
      /\ \A i \in 1 .. n : i > k => i + p - k \in 1 .. m /\ stack'[i + p - k] = stack[i]
      /\ \A i \in 1 .. p : i \in 1 .. m /\ stack'[i] = pre[i]
  BY SplicedFact, Zenon
<1>2. DOMAIN stack = 1 .. n /\ DOMAIN stack' = 1 .. m
  BY DEF NetTyped, Spliced
<1> HIDE DEF p, n, m
<1>3. On(c) <=> \E i \in 1 .. n : stack[i] = c
  BY <1>2 DEF On
<1>4. On(c)' <=> \E i \in 1 .. m : stack'[i] = c
  BY <1>2 DEF On
<1>5. ASSUME On(c)' PROVE On(c) \/ \E j \in 1 .. p : pre[j] = c
  <2>1. PICK i \in 1 .. m : stack'[i] = c
    BY <1>4, <1>5
  <2>2. QED
    BY <1>1, <1>3, <2>1
<1>6. ASSUME On(c) PROVE On(c)' \/ \E j \in 1 .. k : stack[j] = c
  <2>1. PICK i \in 1 .. n : stack[i] = c
    BY <1>3, <1>6
  <2>2. CASE i > k
    BY <1>1, <1>4, <2>1, <2>2
  <2>3. CASE ~(i > k)
    <3>1. i \in 1 .. k
      BY <1>1, <2>3
    <3>2. QED
      BY <2>1, <3>1
  <2>4. QED
    BY <2>2, <2>3
<1>7. ASSUME NEW j \in 1 .. p, pre[j] = c PROVE On(c)'
  BY <1>1, <1>4, <1>7
<1>8. QED
  BY <1>5, <1>6, <1>7 DEF p

\* What is left of the handling of a packet changes in few steps.
RxKinds == {"fin", "fin_sent", "polled"}

LEMMA OnMoving ==
  ASSUME NetTyped, Moving, stack # << >>, stack[1].at \notin {"poll", "fin"}, NEW c, c.at \in RxKinds
  PROVE  /\ On(c)' => On(c)
         /\ c # stack[1] => (On(c) => On(c)')
<1>1. PICK pre \in Seq(Calls), k \in 0 .. 2 : k <= Len(stack) /\ Moves(pre, k)
  BY DEF Moving
<1>2. Spliced(stack, stack', pre, k) /\ (k = 2 => stack[2].at = "sendto")
  BY <1>1 DEF Moves
<1>3. /\ On(c)' => On(c) \/ \E j \in 1 .. Len(pre) : pre[j] = c
      /\ On(c) => On(c)' \/ \E j \in 1 .. k : stack[j] = c
  BY <1>1, <1>2, OnSpliced
<1>4. ASSUME NEW j \in 1 .. Len(pre) PROVE pre[j].at \notin RxKinds
  <2>1. /\ pre[j].at \in {"fin", "fin_sent", "icmp"} => pre[Len(pre)].at = "polled"
        /\ pre[j].at # "polled"
    BY <1>1, Zenon DEF Moves
  <2>2. Len(pre) \in 1 .. Len(pre)
    BY <1>1
  <2>3. pre[Len(pre)].at # "polled"
    BY <1>1, <2>2, Zenon DEF Moves
  <2>4. QED
    BY <2>1, <2>3, Zenon DEF RxKinds
<1>5. ASSUME NEW j \in 1 .. k, stack[j] = c, c # stack[1] PROVE FALSE
  <2>1. j = 2 /\ k = 2
    BY <1>5
  <2>2. QED
    BY <1>2, <1>5, <2>1 DEF RxKinds
<1>6. QED
  BY <1>3, <1>4, <1>5

LEMMA OnIrq ==
  ASSUME NetTyped, Irq, NEW c, c.at \notin {"poll", "irq"}
  PROVE  On(c)' <=> On(c)
<1> DEFINE e == [at |-> "irq"]
           pre == <<Poll, e>>
<1>1. e \in Calls /\ e.at = "irq" /\ Poll \in Calls /\ Poll.at = "poll"
  BY MadeCalls DEF Poll
<1> HIDE DEF e
<1>2. pre \in Seq(Calls) /\ Len(pre) = 2 /\ pre[1] = Poll /\ pre[2] = e
  BY <1>1
<1>3. stack' = pre \o stack
  BY DEF Irq, e
<1> HIDE DEF pre
<1>4. stack \in Seq(Calls) /\ Len(stack) \in Nat /\ 0 \in 0 .. Len(stack) /\ stack = SubSeq(stack, 0 + 1, Len(stack))
  BY DEF NetTyped
<1>5. Spliced(stack, stack', pre, 0)
  BY <1>2, <1>3, <1>4, Splice
<1>6. \A j \in 1 .. Len(pre) : pre[j] # c
  BY <1>1, <1>2
<1>7. ~ \E j \in 1 .. 0 : stack[j] = c
  OBVIOUS
<1>8. 0 \in 0 .. 2 /\ 0 <= Len(stack)
  BY <1>4
<1>9. /\ On(c)' => On(c) \/ \E j \in 1 .. Len(pre) : pre[j] = c
      /\ On(c) => On(c)' \/ \E j \in 1 .. 0 : stack[j] = c
  BY <1>2, <1>5, <1>8, OnSpliced
<1>10. QED
  BY <1>6, <1>7, <1>9

\* A packet is received.
LEMMA OnRx ==
  ASSUME NetTyped, stack # << >>, Top.at = "poll", NEW f, NEW cs, RxCalls(f, cs),
         Call(cs, [at |-> "polled", cur |-> s_rx_cur])
  PROVE  /\ \E c : c.at = "polled" /\ On(c)'
         /\ \A c : c.at = "fin_sent" => (On(c)' <=> On(c))
         /\ \A c : c.at = "fin" => (On(c)' <=> On(c) \/ \E j \in 1 .. Len(cs) : cs[j] = c)
         /\ \A c : On(c)' => \/ On(c)
                             \/ c.at = "send" /\ c.syn = << >>
                             \/ c.at \in {"icmp", "fin", "polled"}
<1> DEFINE p == [at |-> "polled", cur |-> s_rx_cur]
           pre == cs \o <<p>>
<1>1. s_rx_cur \in Desc /\ stack \in Seq(Calls) /\ stack[1].at = "poll" /\ 1 \in 0 .. 2 /\ 1 <= Len(stack)
  BY TopFacts DEF NetTyped, TablesTyped
<1>2. p \in Calls /\ p.at = "polled"
  BY <1>1, MadeCalls
<1>3. cs \in Seq(Calls) /\ \A i \in 1 .. Len(cs) : /\ cs[i].at \in {"send", "icmp", "fin"}
                                                   /\ cs[i].at = "send" => cs[i].syn = << >>
  BY DEF RxCalls
<1>4. Spliced(stack, stack', pre, 1) /\ pre \in Seq(Calls)
  <2>1. stack' = cs \o <<p>> \o Tail(stack)
    BY DEF Call
  <2> HIDE DEF p
  <2>2. QED
    BY <1>1, <1>2, <1>3, <2>1, StackForms
<1> HIDE DEF p
<1>5. /\ Len(cs) \in Nat /\ Len(pre) = Len(cs) + 1 /\ pre[Len(cs) + 1] = p
      /\ \A i \in 1 .. Len(cs) : pre[i] = cs[i]
  <2> DEFINE q == <<p>>
  <2>1. q \in Seq(Calls) /\ Len(q) = 1 /\ q[1] = p
    BY <1>2
  <2>2. cs \in Seq(Calls) /\ Len(cs) \in Nat
    BY <1>3
  <2> HIDE DEF q
  <2>3. pre = cs \o q
    BY DEF q
  <2>4. QED
    BY <2>1, <2>2, <2>3
<1> HIDE DEF pre
<1>6. \A c : (\E j \in 1 .. Len(pre) : pre[j] = c) <=> c = p \/ \E j \in 1 .. Len(cs) : cs[j] = c
  <2>1. \A j \in 1 .. Len(pre) : j = Len(cs) + 1 \/ j \in 1 .. Len(cs)
    BY <1>5
  <2>2. Len(cs) + 1 \in 1 .. Len(pre) /\ \A j \in 1 .. Len(cs) : j \in 1 .. Len(pre)
    BY <1>5
  <2>3. QED
    BY <1>5, <2>1, <2>2, Zenon
<1>7. ASSUME NEW c
      PROVE  /\ On(c)' => On(c) \/ c = p \/ \E j \in 1 .. Len(cs) : cs[j] = c
             /\ On(c) => On(c)' \/ c.at = "poll"
             /\ (c = p \/ \E j \in 1 .. Len(cs) : cs[j] = c) => On(c)'
  <2>1. /\ On(c)' => On(c) \/ \E j \in 1 .. Len(pre) : pre[j] = c
        /\ On(c) => On(c)' \/ \E j \in 1 .. 1 : stack[j] = c
        /\ (\E j \in 1 .. Len(pre) : pre[j] = c) => On(c)'
    BY <1>1, <1>4, OnSpliced
  <2>2. (\E j \in 1 .. 1 : stack[j] = c) => c.at = "poll"
    BY <1>1
  <2>3. QED
    BY <1>6, <2>1, <2>2, Zenon
<1>8. \E c : c.at = "polled" /\ On(c)'
  <2>1. PICK c : c = p
    OBVIOUS
  <2>2. QED
    BY <1>2, <1>7, <2>1
<1>9. ASSUME NEW c, c.at = "fin_sent" PROVE On(c)' <=> On(c)
  <2>1. c # p /\ \A j \in 1 .. Len(cs) : cs[j] # c
    BY <1>2, <1>3, <1>9
  <2>2. QED
    BY <1>7, <1>9, <2>1
<1>10. ASSUME NEW c, c.at = "fin" PROVE On(c)' <=> On(c) \/ \E j \in 1 .. Len(cs) : cs[j] = c
  <2>1. c # p
    BY <1>2, <1>10
  <2>2. QED
    BY <1>7, <1>10, <2>1
<1>11. ASSUME NEW c, On(c)'
       PROVE  On(c) \/ (c.at = "send" /\ c.syn = << >>) \/ c.at \in {"icmp", "fin", "polled"}
  <2>1. CASE c = p
    BY <1>2, <2>1
  <2>2. ASSUME NEW j \in 1 .. Len(cs), cs[j] = c
        PROVE  (c.at = "send" /\ c.syn = << >>) \/ c.at \in {"icmp", "fin", "polled"}
    BY <1>3, <2>2
  <2>3. QED
    BY <1>7, <1>11, <2>1, <2>2, Zenon
<1>12. QED
  BY <1>8, <1>9, <1>10, <1>11, Zenon

---------------------------------------------------------------------------
(* Ports and connections *)

Sought(x) ==
  \/ x \in syns
  \/ x # << >> /\ \E c : On(c) /\ c.at \in {"send", "resolve"} /\ c.syn = x
  \/ \E i \in Slot : sockets[i].tcp_state = SYN_SENT /\ x = Dial(sockets[i])

LEMMA AskedFact ==
  /\ \A x : x \in Asked <=> Sought(x)
  /\ \A x : x \in Asked' <=> Sought(x)'
<1>1. \A x : x \in Asked <=> Sought(x)
  BY Zenon DEF Asked, Sending, On, Sought
<1>2. \A x : x \in Asked' <=> Sought(x)'
  BY Zenon DEF Asked, Sending, On, Sought
<1>3. QED
  BY <1>1, <1>2

\* Only connect asks for a connection that was not asked for.
LEMMA AskedKernel ==
  ASSUME NetTyped, Kernel
  PROVE  \A x \in Asked' : x \in Asked
<1>1. stack # << >> /\ Moving
  <2>1. stack # << >>
    BY DEF Kernel, At, SendPacket, Resolve, PollRx, PolledRx, IcmpInput, FinInput,
         FinSent, IrqReturn, Closed, ConnectWaits, ConnectLooks, AcceptWaits, SendtoChunk, RecvWaits,
         RecvLooks, SysPollWaits
  <2>2. QED
    BY <2>1, KernelTyped
<1>2. Top = stack[1] /\ stack \in Seq(Calls) /\ On(stack[1])
  <2>1. Top = stack[1] /\ stack \in Seq(Calls)
    BY <1>1, TopFacts
  <2>2. QED
    BY <1>1, <2>1, OnFact
<1>3. \A i \in Slot : Same(sockets[i], sockets'[i])
  BY KernelSame
<1>4. \A x \in syns' : x \in syns \/ (x # << >> /\ stack[1].at \in {"send", "resolve"} /\ stack[1].syn = x)
  <2>1. CASE SendPacket \/ Resolve
    <3>1. (UNCHANGED syns \/ Transmit(Top.syn)) /\ Top.at \in {"send", "resolve"}
      BY <2>1 DEF SendPacket, Resolve, At
    <3>2. QED
      BY <1>2, <3>1 DEF Transmit
  <2>2. CASE ~SendPacket /\ ~Resolve
    <3>1. UNCHANGED syns
      BY <2>2 DEF Kernel, SocketStep, hostVars, PollRx, PolledRx, IcmpInput, FinInput,
           FinSent, IrqReturn, Closed, ConnectWaits, ConnectLooks, AcceptWaits, SendtoChunk, RecvWaits,
           RecvLooks, SysPollWaits
    <3>2. QED
      BY <3>1
  <2>3. QED
    BY <2>1, <2>2
<1>5. PICK pre \in Seq(Calls), k \in 0 .. 2 : k <= Len(stack) /\ Moves(pre, k)
  BY <1>1 DEF Moving
<1>6. /\ Spliced(stack, stack', pre, k)
      /\ \A j \in 1 .. Len(pre) : pre[j].at \in {"send", "resolve"} => SynFrom(pre[j])
  BY <1>1, <1>5, Zenon DEF Moves
<1>7. ASSUME NEW x, Sought(x)' PROVE Sought(x)
  <2>1. CASE x \in syns'
    BY <1>2, <1>4, <2>1, Zenon DEF Sought
  <2>2. ASSUME x # << >>, NEW c, On(c)', c.at \in {"send", "resolve"}, c.syn = x PROVE Sought(x)
    <3>1. On(c) \/ \E j \in 1 .. Len(pre) : pre[j] = c
      BY <1>5, <1>6, <2>2, OnSpliced
    <3>2. CASE On(c)
      BY <2>2, <3>2, Zenon DEF Sought
    <3>3. ASSUME NEW j \in 1 .. Len(pre), pre[j] = c PROVE Sought(x)
      <4>1. SynFrom(c)
        BY <1>6, <2>2, <3>3
      <4>2. CASE stack[1].at \in {"send", "resolve"} /\ c.syn = stack[1].syn
        BY <1>2, <2>2, <4>2, Zenon DEF Sought
      <4>3. CASE /\ stack[1].at = "connect_look" /\ sockets[stack[1].slot].tcp_state = SYN_SENT
                 /\ c = SendSyn(sockets[stack[1].slot])
        <5>1. stack[1].slot \in Slot
          BY <1>1, <1>2, <4>3, TopSlot
        <5>2. x = Dial(sockets[stack[1].slot])
          BY <2>2, <4>3 DEF SendSyn, Dial
        <5>3. QED
          BY <4>3, <5>1, <5>2, Zenon DEF Sought
      <4>4. QED
        BY <2>2, <4>1, <4>2, <4>3, Zenon DEF SynFrom
    <3>4. QED
      BY <3>1, <3>2, <3>3, Zenon
  <2>3. ASSUME NEW i \in Slot, sockets'[i].tcp_state = SYN_SENT, x = Dial(sockets'[i]) PROVE Sought(x)
    <3>1. sockets[i].tcp_state = SYN_SENT /\ x = Dial(sockets[i])
      BY <1>3, <2>3 DEF Same, Dial
    <3>2. QED
      BY <3>1, Zenon DEF Sought
  <2>4. QED
    <3>1. \/ x \in syns'
          \/ x # << >> /\ \E c : On(c)' /\ c.at \in {"send", "resolve"} /\ c.syn = x
          \/ \E i \in Slot : sockets'[i].tcp_state = SYN_SENT /\ x = Dial(sockets'[i])
      BY <1>7 DEF Sought, Dial
    <3>2. QED
      BY <2>1, <2>2, <2>3, <3>1, Zenon
<1>8. QED
  BY <1>7, AskedFact, Zenon

\* Steps that name no socket anew.
LEMMA PortsSame ==
  ASSUME PortsOK, \A x \in Asked' : x \in Asked, UNCHANGED <<conns, ports, reused>>,
         \A i \in Slot : /\ Same(sockets[i], sockets'[i])
                         /\ sockets'[i].ref_count # 0 => sockets[i].ref_count # 0,
         \A fd \in 1 .. MAX_FDS : fds'[fd] = fds[fd] \/ fds'[fd] = 0,
         \A fd \in 1 .. MAX_FDS : fds[fd] # 0 => fds[fd] \in Slot
  PROVE  PortsOK'
<1>0. \A i \in Slot : /\ sockets'[i].type = sockets[i].type /\ sockets'[i].local_port = sockets[i].local_port
                      /\ sockets'[i].remote_ip = sockets[i].remote_ip /\ sockets'[i].conn = sockets[i].conn
                      /\ sockets'[i].born = sockets[i].born
  BY DEF Same
<1>1. \A i \in Slot : sockets'[i].ref_count # 0 => sockets'[i].born # 0
  BY <1>0 DEF PortsOK
<1>2. \A fd \in 1 .. MAX_FDS : fds'[fd] # 0 => sockets'[fds'[fd]].born # 0
  BY <1>0 DEF PortsOK
<1>3. \A i \in Slot : /\ sockets'[i].conn <= conns'
                      /\ sockets'[i].conn # 0 => sockets'[i].type = STREAM /\ sockets'[i].born # 0
  <2>1. conns' = conns
    OBVIOUS
  <2>2. QED
    BY <1>0, <2>1, Zenon DEF PortsOK
<1>4. \A x \in Asked' : x \in Syns /\ x[3] <= conns'
  BY DEF PortsOK
<1>5. ASSUME ~reused' PROVE NamesOK'
  <2>1. NamesOK
    BY <1>5 DEF PortsOK
  <2>2. \A i \in Slot : sockets'[i].born # 0 => sockets'[i].local_port \in ports'
    BY <1>0, <2>1 DEF NamesOK
  <2>3. \A i, j \in Slot : sockets'[i].born # 0 /\ sockets'[j].born # 0
                           /\ sockets'[i].local_port = sockets'[j].local_port => i = j
    BY <1>0, <2>1 DEF NamesOK
  <2>4. \A x \in Asked' :
          /\ x[1] \in ports'
          /\ \A i \in Slot : sockets'[i].born # 0 /\ sockets'[i].local_port = x[1] =>
               sockets'[i].conn = x[3] /\ sockets'[i].remote_ip = x[2]
    BY <1>0, <2>1 DEF NamesOK
  <2>5. \A x, y \in Asked' : x[3] = y[3] => x = y
    BY <2>1 DEF NamesOK
  <2>6. QED
    BY <2>2, <2>3, <2>4, <2>5, Zenon DEF NamesOK
<1>6. QED
  BY <1>1, <1>2, <1>3, <1>4, <1>5, Zenon DEF PortsOK

LEMMA FdSlots ==
  ASSUME NetTyped
  PROVE  \A fd \in 1 .. MAX_FDS : fds[fd] # 0 => fds[fd] \in Slot
<1>1. fds \in [1 .. MAX_FDS -> 0 .. MAX_SOCKETS] /\ MAX_SOCKETS \in Nat
  BY Consts DEF NetTyped, TablesTyped
<1>2. \A x \in 0 .. MAX_SOCKETS : x # 0 => x \in Slot
  BY <1>1 DEF Slot
<1>3. QED
  BY <1>1, <1>2

LEMMA SameSlots ==
  ASSUME NetTyped, UNCHANGED sockets
  PROVE  \A i \in Slot : /\ Same(sockets[i], sockets'[i])
                         /\ sockets'[i].ref_count # 0 => sockets[i].ref_count # 0
BY AllKeep DEF Keeps, SameRef

\* From a program the stack is a new one.
LEMMA AskedProgram ==
  ASSUME NetTyped, StackOK, stack = << >>, UNCHANGED syns
  PROVE  /\ Asked = syns
         /\ \A x : Sought(x)' <=>
              \/ x \in syns
              \/ x # << >> /\ \E c : On(c)' /\ c.at \in {"send", "resolve"} /\ c.syn = x
              \/ \E i \in Slot : sockets'[i].tcp_state = SYN_SENT /\ x = Dial(sockets'[i])
<1>1. \A j \in Slot : sockets[j].tcp_state # SYN_SENT
  BY DEF StackOK, SynsWait, Connecting
<1>2. \A c : ~On(c)
  BY DEF On
<1>3. \A x : Sought(x) <=> x \in syns
  BY <1>1, <1>2, Zenon DEF Sought
<1>4. Asked = syns
  BY <1>3, AskedFact
<1>5. QED
  BY <1>4 DEF Sought, Dial

LEMMA PortsSocket ==
  ASSUME NetTyped, StackOK, PortsOK, NEW type \in types, Socket(type)
  PROVE  PortsOK'
<1>1. PICK i \in Slot, new \in GoodSocks :
        /\ sockets[i].ref_count = 0 /\ sockets' = [sockets EXCEPT ![i] = new]
        /\ Fresh(new, type, s_ephemeral_port, made + 1)
        /\ \/ new.ref_count = 0 /\ UNCHANGED fds
           \/ new.ref_count = 1 /\ \E fd \in 1 .. MAX_FDS : fds[fd] = 0 /\ fds' = [fds EXCEPT ![fd] = i]
  BY SocketFact, Zenon
<1>2. /\ stack = << >> /\ ports' = ports \cup {s_ephemeral_port}
      /\ reused' = (reused \/ s_ephemeral_port \in ports)
      /\ UNCHANGED <<stack, syns, conns>>
  BY SocketFact, Zenon
<1> DEFINE p == s_ephemeral_port
<1>3. made + 1 # 0 /\ conns \in Nat
  BY Consts DEF NetTyped, TablesTyped
<1>4. new.born # 0 /\ new.local_port = p /\ new.conn = 0 /\ new.tcp_state # SYN_SENT
  BY <1>1, <1>3, StateFacts DEF Fresh
<1>5. \A j \in Slot : sockets'[j] = IF j = i THEN new ELSE sockets[j]
  BY <1>1 DEF NetTyped
<1> HIDE DEF p
<1>6. \A j \in Slot : sockets[j].tcp_state # SYN_SENT
  BY <1>2 DEF StackOK, SynsWait, Connecting
<1>7. \A x \in Asked' : x \in Asked
  <2>1. \A c : ~On(c)'
    BY <1>2 DEF On
  <2>2. \A j \in Slot : sockets'[j].tcp_state # SYN_SENT
    BY <1>4, <1>5, <1>6
  <2>3. QED
    BY <1>2, <2>1, <2>2, AskedProgram, AskedFact, Zenon
<1>8. \A j \in Slot : sockets'[j].ref_count # 0 => sockets'[j].born # 0
  BY <1>4, <1>5 DEF PortsOK
<1>9. \A fd \in 1 .. MAX_FDS : fds'[fd] # 0 => sockets'[fds'[fd]].born # 0
  <2>1. \A fd \in 1 .. MAX_FDS : fds'[fd] = fds[fd] \/ fds'[fd] = i
    BY <1>1 DEF NetTyped, TablesTyped
  <2>2. \A fd \in 1 .. MAX_FDS : fds[fd] # 0 => fds[fd] \in Slot /\ sockets[fds[fd]].born # 0
    BY FdSlots DEF PortsOK
  <2>3. QED
    BY <1>4, <1>5, <2>1, <2>2
<1>10. \A j \in Slot : /\ sockets'[j].conn <= conns'
                       /\ sockets'[j].conn # 0 => sockets'[j].type = STREAM /\ sockets'[j].born # 0
  <2>1. new.conn <= conns
    BY <1>3, <1>4
  <2>2. conns' = conns
    BY <1>2
  <2>3. QED
    BY <1>4, <1>5, <2>1, <2>2, Zenon DEF PortsOK
<1>11. \A x \in Asked' : x \in Syns /\ x[3] <= conns'
  BY <1>2, <1>7 DEF PortsOK
<1>12. ASSUME ~reused' PROVE NamesOK'
  <2>1. NamesOK /\ p \notin ports /\ ports' = ports \cup {p}
    BY <1>2, <1>12 DEF PortsOK, p
  <2>2. \A j \in Slot : sockets'[j].born # 0 => sockets'[j].local_port \in ports'
    BY <1>4, <1>5, <2>1 DEF NamesOK
  <2>3. \A j, k \in Slot : sockets'[j].born # 0 /\ sockets'[k].born # 0
                           /\ sockets'[j].local_port = sockets'[k].local_port => j = k
    BY <1>4, <1>5, <2>1 DEF NamesOK
  <2>4. ASSUME NEW x \in Asked'
        PROVE  /\ x[1] \in ports'
               /\ \A j \in Slot : sockets'[j].born # 0 /\ sockets'[j].local_port = x[1] =>
                    sockets'[j].conn = x[3] /\ sockets'[j].remote_ip = x[2]
    <3>1. /\ x[1] \in ports
          /\ \A j \in Slot : sockets[j].born # 0 /\ sockets[j].local_port = x[1] =>
               sockets[j].conn = x[3] /\ sockets[j].remote_ip = x[2]
      BY <1>7, <2>1 DEF NamesOK
    <3>2. QED
      BY <1>4, <1>5, <2>1, <3>1
  <2>5. \A x, y \in Asked' : x[3] = y[3] => x = y
    BY <1>7, <2>1 DEF NamesOK
  <2>6. QED
    BY <2>2, <2>3, <2>4, <2>5, Zenon DEF NamesOK
<1>13. QED
  BY <1>8, <1>9, <1>10, <1>11, <1>12, Zenon DEF PortsOK

\* A slot that has a name gets another one.
LEMMA PortsSlot ==
  ASSUME NetTyped, PortsOK, NEW i \in Slot, NEW t, sockets' = [sockets EXCEPT ![i] = t], UNCHANGED fds,
         t.born = sockets[i].born, t.born # 0, t.type = sockets[i].type,
         t.conn <= conns', t.conn # 0 => t.type = STREAM, conns <= conns', conns \in Nat, conns' \in Nat,
         \A x \in Asked' : x \in Syns /\ x[3] <= conns', ~reused' => NamesOK'
  PROVE  PortsOK'
<1>1. \A j \in Slot : sockets'[j] = IF j = i THEN t ELSE sockets[j]
  BY DEF NetTyped
<1>2. \A j \in Slot : sockets'[j].ref_count # 0 => sockets'[j].born # 0
  BY <1>1 DEF PortsOK
<1>3. \A fd \in 1 .. MAX_FDS : fds'[fd] # 0 => sockets'[fds'[fd]].born # 0
  <2>1. \A fd \in 1 .. MAX_FDS : fds[fd] # 0 => fds[fd] \in Slot /\ sockets[fds[fd]].born # 0
    BY FdSlots DEF PortsOK
  <2>2. QED
    BY <1>1, <2>1
<1>4. \A j \in Slot : /\ sockets'[j].conn <= conns'
                      /\ sockets'[j].conn # 0 => sockets'[j].type = STREAM /\ sockets'[j].born # 0
  <2>1. \A j \in Slot : sockets[j].conn \in Nat /\ sockets[j].conn <= conns
    BY GoodFact DEF NetTyped, PortsOK
  <2>2. \A j \in Slot : sockets[j].conn <= conns'
    BY <2>1
  <2>3. \A j \in Slot : sockets[j].conn # 0 => sockets[j].type = STREAM /\ sockets[j].born # 0
    BY DEF PortsOK
  <2>4. QED
    BY <1>1, <2>2, <2>3, Zenon
<1>5. QED
  BY <1>2, <1>3, <1>4, Zenon DEF PortsOK

LEMMA PortsBind ==
  ASSUME NetTyped, StackOK, PortsOK, NEW fd \in 1 .. MAX_FDS, NEW port \in BindPorts, Bind(fd, port)
  PROVE  PortsOK'
<1>1. PICK t \in GoodSocks : /\ sockets' = [sockets EXCEPT ![fds[fd]] = t]
                             /\ t = [sockets[fds[fd]] EXCEPT !.local_port = port]
  BY BindFact, Zenon
<1>2. /\ stack = << >> /\ fds[fd] \in Slot /\ ports' = ports \cup {port}
      /\ reused' = (reused \/ port \in ports \ {sockets[fds[fd]].local_port})
      /\ UNCHANGED <<stack, syns, conns, fds>>
  BY BindFact, Zenon
<1>3. PICK i \in Slot : i = fds[fd]
  BY <1>2
<1>4. /\ t.local_port = port /\ t.born = sockets[i].born /\ t.type = sockets[i].type /\ t.conn = sockets[i].conn
      /\ t.remote_ip = sockets[i].remote_ip /\ t.tcp_state = sockets[i].tcp_state
  <2>1. sockets[i] \in Socks
    BY GoodFact DEF NetTyped
  <2>2. QED
    BY <1>1, <1>3, <2>1 DEF Socks
<1>5. i # 0 /\ sockets[i].born # 0
  <2>1. i # 0
    BY DEF Slot
  <2>2. QED
    BY <1>3, <2>1 DEF PortsOK
<1>6. \A j \in Slot : sockets'[j] = IF j = i THEN t ELSE sockets[j]
  BY <1>1, <1>3 DEF NetTyped
<1>7. \A j \in Slot : sockets[j].tcp_state # SYN_SENT
  BY <1>2 DEF StackOK, SynsWait, Connecting
<1>8. \A x \in Asked' : x \in Asked
  <2>1. \A c : ~On(c)'
    BY <1>2 DEF On
  <2>2. \A j \in Slot : sockets'[j].tcp_state # SYN_SENT
    BY <1>4, <1>6, <1>7
  <2>3. QED
    BY <1>2, <2>1, <2>2, AskedProgram, AskedFact, Zenon
<1>9. \A x \in Asked' : x \in Syns /\ x[3] <= conns'
  BY <1>2, <1>8 DEF PortsOK
<1>10. ASSUME ~reused' PROVE NamesOK'
  <2>1. NamesOK /\ (port \notin ports \/ port = sockets[i].local_port)
    BY <1>2, <1>3, <1>10 DEF PortsOK
  <2>2. \A j \in Slot : sockets'[j].born # 0 => sockets'[j].local_port \in ports'
    BY <1>2, <1>4, <1>6, <2>1 DEF NamesOK
  <2>3. \A j, k \in Slot : sockets'[j].born # 0 /\ sockets'[k].born # 0
                           /\ sockets'[j].local_port = sockets'[k].local_port => j = k
    BY <1>4, <1>5, <1>6, <2>1 DEF NamesOK
  <2>4. ASSUME NEW x \in Asked'
        PROVE  /\ x[1] \in ports'
               /\ \A j \in Slot : sockets'[j].born # 0 /\ sockets'[j].local_port = x[1] =>
                    sockets'[j].conn = x[3] /\ sockets'[j].remote_ip = x[2]
    <3>1. /\ x[1] \in ports
          /\ \A j \in Slot : sockets[j].born # 0 /\ sockets[j].local_port = x[1] =>
               sockets[j].conn = x[3] /\ sockets[j].remote_ip = x[2]
      BY <1>8, <2>1 DEF NamesOK
    <3>2. QED
      BY <1>2, <1>4, <1>5, <1>6, <2>1, <3>1
  <2>5. \A x, y \in Asked' : x[3] = y[3] => x = y
    BY <1>8, <2>1 DEF NamesOK
  <2>6. QED
    BY <2>2, <2>3, <2>4, <2>5, Zenon DEF NamesOK
<1>11. conns \in Nat /\ conns' = conns /\ conns <= conns' /\ t.conn <= conns' /\ (t.conn # 0 => t.type = STREAM)
  <2>1. conns \in Nat /\ conns' = conns
    BY <1>2, Consts DEF NetTyped, TablesTyped
  <2>2. t.conn <= conns /\ (t.conn # 0 => t.type = STREAM)
    BY <1>4 DEF PortsOK
  <2>3. QED
    BY <2>1, <2>2
<1>12. UNCHANGED fds /\ sockets' = [sockets EXCEPT ![i] = t]
  BY <1>1, <1>2, <1>3
<1>13. QED
  BY <1>4, <1>5, <1>9, <1>10, <1>11, <1>12, PortsSlot

LEMMA PortsConnect ==
  ASSUME NetTyped, StackOK, PortsOK, NEW fd \in 1 .. MAX_FDS, NEW ip \in Hosts, Connect(fd, ip)
  PROVE  /\ PortsOK'
         /\ sockets[fds[fd]].type # STREAM => \A x \in Asked' : x \in Asked
         /\ sockets[fds[fd]].type = STREAM => \A x \in Asked' : x \in Asked \/ x = Dial(sockets'[fds[fd]])
<1>1. PICK t \in GoodSocks :
        /\ sockets' = [sockets EXCEPT ![fds[fd]] = t]
        /\ Dialled(sockets[fds[fd]], t, ip, conns + 1)
        /\ t.type = STREAM =>
             /\ conns < MaxConns /\ conns' = conns + 1
             /\ stack' = <<SendSyn(t), [at |-> "connect", slot |-> fds[fd], timeout |-> CONNECT_POLLS]>>
             /\ SendSyn(t) \in Calls
        /\ t.type # STREAM => conns' = conns /\ stack' = << >>
  BY ConnectFact, Zenon
<1>2. /\ stack = << >> /\ fds[fd] \in Slot /\ reused' = (reused \/ sockets[fds[fd]].conn # 0)
      /\ UNCHANGED <<syns, fds, ports>>
  BY ConnectFact, Zenon
<1>3. PICK i \in Slot : i = fds[fd]
  BY <1>2
<1>4. conns \in Nat /\ conns + 1 \in Nat
  BY Consts DEF NetTyped, TablesTyped
<1>5. PICK new : new = conns + 1
  OBVIOUS
<1>6. /\ t.type = sockets[i].type /\ t.local_port = sockets[i].local_port /\ t.born = sockets[i].born
      /\ t.remote_ip = ip
      /\ t.type = STREAM => t.tcp_state = SYN_SENT /\ t.conn = new
      /\ t.type # STREAM => t.tcp_state = sockets[i].tcp_state /\ t.conn = sockets[i].conn
  BY <1>1, <1>3, <1>5, Zenon DEF Dialled
<1>7. i # 0 /\ sockets[i].born # 0
  <2>1. i # 0
    BY DEF Slot
  <2>2. QED
    BY <1>3, <2>1 DEF PortsOK
<1>8. \A j \in Slot : sockets'[j] = IF j = i THEN t ELSE sockets[j]
  BY <1>1, <1>3 DEF NetTyped
<1>9. \A j \in Slot : sockets[j].tcp_state # SYN_SENT
  BY <1>2 DEF StackOK, SynsWait, Connecting
<1>10. \A x \in Asked : x \in Syns /\ x[3] <= conns /\ x[3] \in Nat /\ x[3] # 0
  <2>1. \A x \in Asked : x \in Syns /\ x[3] <= conns
    BY DEF PortsOK
  <2>2. \A x \in Syns : x[3] \in Nat /\ x[3] # 0
    BY Consts DEF Syns
  <2>3. QED
    BY <2>1, <2>2
<1>11. UNCHANGED fds /\ sockets' = [sockets EXCEPT ![i] = t] /\ conns' \in Nat /\ conns <= conns'
  <2>1. conns' = conns + 1 \/ conns' = conns
    BY <1>1
  <2>2. conns' \in Nat /\ conns <= conns'
    BY <1>4, <2>1
  <2>3. QED
    BY <1>1, <1>2, <1>3, <2>2
<1>12. CASE t.type = STREAM
  <2> DEFINE f == [at |-> "connect", slot |-> fds[fd], timeout |-> CONNECT_POLLS]
             g == SendSyn(t)
             z == Dial(t)
  <2>1. stack' = <<g, f>> /\ f.at = "connect" /\ conns' = new
    BY <1>1, <1>5, <1>12
  <2>2. g.syn = z
    BY DEF SendSyn, Dial
  <2> HIDE DEF f, g
  <2>3. \A c : On(c)' <=> c = g \/ c = f
    BY <2>1 DEF On
  <2>4. z[1] = t.local_port /\ z[2] = t.remote_ip /\ z[3] = new /\ z \in Syns
    <3>1. t.remote_ip \in Hosts /\ t.conn \in 1 .. MaxConns /\ t.local_port \in Nat
      BY <1>6, <1>12, GoodFact
    <3>2. QED
      BY <1>6, <1>12, <3>1 DEF Dial, Syns
  <2>5. ASSUME NEW x \in Asked' PROVE x \in Asked \/ x = z
    <3>1. \/ x \in syns
          \/ x # << >> /\ \E c : On(c)' /\ c.at \in {"send", "resolve"} /\ c.syn = x
          \/ \E j \in Slot : sockets'[j].tcp_state = SYN_SENT /\ x = Dial(sockets'[j])
      BY <1>2, AskedProgram, AskedFact, Zenon
    <3>2. CASE x \in syns
      BY <1>2, <3>2, AskedProgram
    <3>3. CASE \E c : On(c)' /\ c.at \in {"send", "resolve"} /\ c.syn = x
      BY <2>1, <2>2, <2>3, <3>3
    <3>4. CASE \E j \in Slot : sockets'[j].tcp_state = SYN_SENT /\ x = Dial(sockets'[j])
      <4>1. PICK j \in Slot : sockets'[j].tcp_state = SYN_SENT /\ x = Dial(sockets'[j])
        BY <3>4
      <4>2. sockets'[j] = t
        BY <1>8, <1>9, <4>1
      <4>3. QED
        BY <4>1, <4>2
    <3>5. QED
      BY <3>1, <3>2, <3>3, <3>4
  <2> HIDE DEF z
  <2>6. \A x \in Asked' : x \in Syns /\ x[3] <= conns'
    <3>1. new \in Nat /\ new <= new /\ conns <= new
      BY <1>4, <1>5
    <3>2. ASSUME NEW x \in Asked PROVE x[3] <= new
      BY <1>4, <1>5, <1>10
    <3>3. QED
      BY <1>10, <2>1, <2>4, <2>5, <3>1, <3>2
  <2>7. ASSUME ~reused' PROVE NamesOK'
    <3>1. NamesOK /\ sockets[i].conn = 0
      BY <1>2, <1>3, <2>7 DEF PortsOK
    <3>2. \A j \in Slot : sockets'[j].born = sockets[j].born /\ sockets'[j].local_port = sockets[j].local_port
      BY <1>6, <1>8
    <3>3. \A j \in Slot : sockets'[j].born # 0 => sockets'[j].local_port \in ports'
      BY <1>2, <3>1, <3>2 DEF NamesOK
    <3>4. \A j, k \in Slot : sockets'[j].born # 0 /\ sockets'[k].born # 0
                             /\ sockets'[j].local_port = sockets'[k].local_port => j = k
      BY <3>1, <3>2 DEF NamesOK
    <3>5. ASSUME NEW x \in Asked'
          PROVE  /\ x[1] \in ports'
                 /\ \A j \in Slot : sockets'[j].born # 0 /\ sockets'[j].local_port = x[1] =>
                      sockets'[j].conn = x[3] /\ sockets'[j].remote_ip = x[2]
      <4>1. CASE x = z
        <5>1. x[1] \in ports'
          BY <1>6, <1>7, <1>8, <2>4, <3>3, <4>1
        <5>2. ASSUME NEW j \in Slot, sockets'[j].born # 0, sockets'[j].local_port = x[1] PROVE j = i
          BY <1>6, <1>7, <1>8, <2>4, <3>4, <4>1, <5>2
        <5>3. QED
          BY <1>6, <1>8, <1>12, <2>4, <4>1, <5>1, <5>2
      <4>2. CASE x \in Asked
        <5>1. /\ x[1] \in ports
              /\ \A j \in Slot : sockets[j].born # 0 /\ sockets[j].local_port = x[1] =>
                   sockets[j].conn = x[3] /\ sockets[j].remote_ip = x[2]
          BY <3>1, <4>2 DEF NamesOK
        <5>2. sockets[i].local_port # x[1]
          BY <1>7, <1>10, <3>1, <4>2, <5>1
        <5>3. QED
          BY <1>2, <1>6, <1>8, <5>1, <5>2
      <4>3. QED
        BY <2>5, <4>1, <4>2
    <3>6. ASSUME NEW x \in Asked', NEW y \in Asked', x[3] = y[3] PROVE x = y
      <4>1. \A w \in Asked : w[3] # new
        BY <1>4, <1>5, <1>10
      <4>2. QED
        BY <2>4, <2>5, <3>1, <3>6, <4>1 DEF NamesOK
    <3>7. QED
      BY <1>2, <3>3, <3>4, <3>5, <3>6, Zenon DEF NamesOK
  <2>8. t.conn <= conns'
    BY <1>4, <1>5, <1>6, <1>12, <2>1
  <2>9. PortsOK'
    BY <1>4, <1>6, <1>7, <1>11, <1>12, <2>6, <2>7, <2>8, PortsSlot
  <2>10. sockets'[fds[fd]] = t /\ sockets[fds[fd]].type = STREAM
    BY <1>3, <1>6, <1>8, <1>12
  <2>11. QED
    BY <2>5, <2>9, <2>10 DEF z
<1>13. CASE t.type # STREAM
  <2>1. stack' = << >> /\ conns' = conns
    BY <1>1, <1>13
  <2>2. \A x \in Asked' : x \in Asked
    <3>1. \A c : ~On(c)'
      BY <2>1 DEF On
    <3>2. \A j \in Slot : sockets'[j].tcp_state # SYN_SENT
      BY <1>6, <1>8, <1>9, <1>13
    <3>3. QED
      BY <1>2, <3>1, <3>2, AskedProgram, AskedFact, Zenon
  <2>3. sockets[i].conn = 0 /\ t.conn = 0
    BY <1>6, <1>13 DEF PortsOK
  <2>4. \A x \in Asked' : x \in Syns /\ x[3] <= conns'
    BY <1>10, <2>1, <2>2
  <2>5. ASSUME ~reused' PROVE NamesOK'
    <3>1. NamesOK
      BY <1>2, <2>5 DEF PortsOK
    <3>2. \A j \in Slot : /\ sockets'[j].born = sockets[j].born /\ sockets'[j].local_port = sockets[j].local_port
                          /\ sockets'[j].conn = sockets[j].conn
      BY <1>6, <1>8, <1>13
    <3>3. \A j \in Slot : sockets'[j].born # 0 => sockets'[j].local_port \in ports'
      BY <1>2, <3>1, <3>2 DEF NamesOK
    <3>4. \A j, k \in Slot : sockets'[j].born # 0 /\ sockets'[k].born # 0
                             /\ sockets'[j].local_port = sockets'[k].local_port => j = k
      BY <3>1, <3>2 DEF NamesOK
    <3>5. ASSUME NEW x \in Asked'
          PROVE  /\ x[1] \in ports'
                 /\ \A j \in Slot : sockets'[j].born # 0 /\ sockets'[j].local_port = x[1] =>
                      sockets'[j].conn = x[3] /\ sockets'[j].remote_ip = x[2]
      <4>1. /\ x[1] \in ports
            /\ \A j \in Slot : sockets[j].born # 0 /\ sockets[j].local_port = x[1] =>
                 sockets[j].conn = x[3] /\ sockets[j].remote_ip = x[2]
        BY <2>2, <3>1 DEF NamesOK
      <4>2. sockets[i].local_port # x[1]
        BY <1>7, <1>10, <2>2, <2>3, <4>1
      <4>3. QED
        BY <1>2, <1>6, <1>8, <4>1, <4>2
    <3>6. \A x, y \in Asked' : x[3] = y[3] => x = y
      BY <2>2, <3>1 DEF NamesOK
    <3>7. QED
      BY <1>2, <3>3, <3>4, <3>5, <3>6, Zenon DEF NamesOK
  <2>6. t.conn <= conns'
    BY <1>4, <2>1, <2>3
  <2>7. PortsOK'
    BY <1>4, <1>6, <1>7, <1>11, <2>3, <2>4, <2>5, <2>6, PortsSlot
  <2>8. QED
    BY <1>3, <1>6, <1>13, <2>2, <2>7
<1>14. QED
  BY <1>12, <1>13

\* A call of a program that asks for no connection.
LEMMA AskedPlain ==
  ASSUME NetTyped, StackOK, stack = << >>, UNCHANGED <<syns, sockets>>,
         \A c : On(c)' => ~(c.at = "resolve") /\ (c.at = "send" => c.syn = << >>)
  PROVE  \A x \in Asked' : x \in Asked
<1>1. \A j \in Slot : sockets'[j].tcp_state # SYN_SENT
  BY DEF StackOK, SynsWait, Connecting
<1>2. Asked = syns
  BY AskedProgram
<1>3. ASSUME NEW x, Sought(x)' PROVE x \in syns
  <2>1. \/ x \in syns
        \/ x # << >> /\ \E c : On(c)' /\ c.at \in {"send", "resolve"} /\ c.syn = x
    BY <1>1, <1>3, AskedProgram, Zenon
  <2>2. QED
    BY <2>1
<1>4. QED
  BY <1>2, <1>3, AskedFact

LEMMA PortsProgram ==
  ASSUME NetTyped, StackOK, PortsOK, Program
  PROVE  PortsOK'
<1>0. /\ \A fd \in 1 .. MAX_FDS : fds[fd] # 0 => fds[fd] \in Slot
      /\ \A j \in Slot : sockets[j] \in GoodSocks
  BY FdSlots DEF NetTyped
<1>1. ASSUME NEW fd \in 1 .. MAX_FDS, Option(fd) PROVE PortsOK'
  <2>1. PICK t \in GoodSocks : sockets' = [sockets EXCEPT ![fds[fd]] = t] /\ Opted(sockets[fds[fd]], t)
    BY <1>1, OptionFact, Zenon
  <2>2. stack = << >> /\ fds[fd] \in Slot /\ SocketStep /\ UNCHANGED stack
    BY <1>1, OptionFact, Zenon
  <2>3. UNCHANGED <<conns, ports, reused, syns, fds>>
    BY <2>2 DEF SocketStep, userVars, hostVars
  <2>4. \A j \in Slot : sockets'[j] = IF j = fds[fd] THEN t ELSE sockets[j]
    BY <2>1, <2>2 DEF NetTyped
  <2>5. \A j \in Slot : sockets[j].tcp_state # SYN_SENT
    BY <2>2 DEF StackOK, SynsWait, Connecting
  <2>6. t.tcp_state # SYN_SENT
    BY <2>1, <2>2, <2>5, StateFacts DEF Opted
  <2>7. \A j \in Slot : sockets'[j].tcp_state # SYN_SENT
    BY <2>4, <2>5, <2>6
  <2>8. \A j \in Slot : /\ Same(sockets[j], sockets'[j])
                        /\ sockets'[j].ref_count # 0 => sockets[j].ref_count # 0
    <3>1. Same(sockets[fds[fd]], t) /\ t.ref_count = sockets[fds[fd]].ref_count
      BY <2>1, <2>6 DEF Same, Opted
    <3>2. \A j \in Slot : Same(sockets[j], sockets[j])
      BY <1>0, Sames DEF SameRef
    <3>3. QED
      BY <2>4, <3>1, <3>2
  <2>9. \A x \in Asked' : x \in Asked
    <3>1. \A c : ~On(c)'
      BY <2>2 DEF On
    <3>2. QED
      BY <2>2, <2>3, <2>7, <3>1, AskedProgram, AskedFact, Zenon
  <2>10. \A a \in 1 .. MAX_FDS : fds'[a] = fds[a] \/ fds'[a] = 0
    BY <2>3
  <2>11. QED
    BY <1>0, <2>3, <2>8, <2>9, <2>10, PortsSame
<1>2. ASSUME NEW fd \in 1 .. MAX_FDS, NEW shutdown \in BOOLEAN, Close(fd, shutdown) PROVE PortsOK'
  <2>1. PICK f \in Calls, g \in Calls :
          /\ stack' = <<f>> \/ stack' = <<g, f>>
          /\ f.at = "close" /\ f.slot = fds[fd] /\ g.at = "send" /\ g.syn = << >>
    BY <1>2, CloseFact, Zenon
  <2>2. /\ stack = << >> /\ fds' = (IF shutdown THEN fds ELSE [fds EXCEPT ![fd] = 0])
        /\ UNCHANGED <<sockets, syns, conns, ports, reused>>
    BY <1>2, CloseFact, Zenon
  <2>3. \A c : On(c)' => c = f \/ c = g
    BY <2>1 DEF On
  <2>4. \A x \in Asked' : x \in Asked
    BY <2>1, <2>2, <2>3, AskedPlain
  <2>5. \A a \in 1 .. MAX_FDS : fds'[a] = fds[a] \/ fds'[a] = 0
    BY <2>2 DEF NetTyped, TablesTyped
  <2>6. \A j \in Slot : /\ Same(sockets[j], sockets'[j])
                        /\ sockets'[j].ref_count # 0 => sockets[j].ref_count # 0
    BY <2>2, SameSlots
  <2>7. QED
    BY <1>0, <2>2, <2>4, <2>5, <2>6, PortsSame
<1>3. ASSUME NEW fd \in 1 .. MAX_FDS,
             \/ Accept(fd)
             \/ \E ip \in Hosts \cup {NoHost}, n \in Chunks : Sendto(fd, ip, n)
             \/ \E n \in Counts : Recv(fd, n)
             \/ \E n \in POLL_ROUNDS : SysPoll(fd, n)
      PROVE  PortsOK'
  <2>1. UNCHANGED sockets /\ SocketStep /\ stack = << >>
    BY <1>3, Zenon DEF Accept, Sendto, Recv, SysPoll, Has, InUser
  <2>2. PICK c : stack' = <<c>> /\ c.at \in {"accept", "sendto", "recv", "poll_look"}
    <3>1. CASE Accept(fd)
      BY <3>1 DEF Accept
    <3>2. ASSUME NEW ip \in Hosts \cup {NoHost}, NEW n \in Chunks, Sendto(fd, ip, n)
          PROVE  \E c : stack' = <<c>> /\ c.at \in {"accept", "sendto", "recv", "poll_look"}
      BY <3>2 DEF Sendto
    <3>3. ASSUME NEW n \in Counts, Recv(fd, n)
          PROVE  \E c : stack' = <<c>> /\ c.at \in {"accept", "sendto", "recv", "poll_look"}
      BY <3>3 DEF Recv
    <3>4. ASSUME NEW n \in POLL_ROUNDS, SysPoll(fd, n)
          PROVE  \E c : stack' = <<c>> /\ c.at \in {"accept", "sendto", "recv", "poll_look"}
      BY <3>4 DEF SysPoll
    <3>5. QED
      BY <1>3, <3>1, <3>2, <3>3, <3>4, Zenon
  <2>3. UNCHANGED <<conns, ports, reused, syns, fds>>
    BY <2>1 DEF SocketStep, userVars, hostVars
  <2>4. \A e : On(e)' => e = c
    BY <2>2 DEF On
  <2>5. \A x \in Asked' : x \in Asked
    BY <2>1, <2>2, <2>3, <2>4, AskedPlain
  <2>6. \A j \in Slot : /\ Same(sockets[j], sockets'[j])
                        /\ sockets'[j].ref_count # 0 => sockets[j].ref_count # 0
    BY <2>1, SameSlots
  <2>7. \A a \in 1 .. MAX_FDS : fds'[a] = fds[a] \/ fds'[a] = 0
    BY <2>3
  <2>8. QED
    BY <1>0, <2>3, <2>5, <2>6, <2>7, PortsSame
<1>4. QED
  BY <1>1, <1>2, <1>3, PortsSocket, PortsBind, PortsConnect, Zenon DEF Program

LEMMA AskedWorld ==
  ASSUME NetTyped, Irq \/ World \/ UNCHANGED vars
  PROVE  \A x \in Asked' : x \in Asked
<1>1. CASE Irq
  <2>1. UNCHANGED <<sockets, syns>>
    BY <1>1 DEF Irq, hostVars
  <2>2. \A c : c.at \in {"send", "resolve"} => (On(c)' <=> On(c))
    BY <1>1, OnIrq
  <2>3. ASSUME NEW x, Sought(x)' PROVE Sought(x)
    <3>1. \/ x \in syns
          \/ x # << >> /\ \E c : On(c)' /\ c.at \in {"send", "resolve"} /\ c.syn = x
          \/ \E i \in Slot : sockets[i].tcp_state = SYN_SENT /\ x = Dial(sockets[i])
      BY <2>1, <2>3 DEF Sought, Dial
    <3>2. ASSUME NEW c, On(c)', c.at \in {"send", "resolve"} PROVE On(c)
      BY <2>2, <3>2
    <3>3. QED
      BY <3>1, <3>2, Zenon DEF Sought
  <2>4. QED
    BY <2>3, AskedFact, Zenon
<1>2. CASE World \/ UNCHANGED vars
  <2>1. UNCHANGED <<sockets, syns, stack>>
    <3>1. CASE World
      BY <3>1, WorldKeeps
    <3>2. CASE UNCHANGED vars
      BY <3>2, SameVars
    <3>3. QED
      BY <1>2, <3>1, <3>2
  <2>2. QED
    BY <2>1 DEF Asked, Sending
<1>3. QED
  BY <1>1, <1>2

LEMMA PortsKept ==
  ASSUME NetTyped, StackOK, PortsOK, [Whole]_vars
  PROVE  PortsOK'
<1>0. \A fd \in 1 .. MAX_FDS : fds[fd] # 0 => fds[fd] \in Slot
  BY FdSlots
<1>1. CASE Kernel
  <2>1. UNCHANGED <<conns, ports, reused, fds>>
    <3>1. UNCHANGED userVars
      BY <1>1, Zenon DEF Kernel, SocketStep, SendPacket, Resolve, PollRx, PolledRx, IcmpInput, FinInput,
           FinSent, IrqReturn, Closed, ConnectWaits, ConnectLooks, AcceptWaits, SendtoChunk, RecvWaits,
           RecvLooks, SysPollWaits
    <3>2. QED
      BY <3>1 DEF userVars
  <2>2. \A a \in 1 .. MAX_FDS : fds'[a] = fds[a] \/ fds'[a] = 0
    BY <2>1
  <2>3. \A j \in Slot : /\ Same(sockets[j], sockets'[j])
                        /\ sockets'[j].ref_count # 0 => sockets[j].ref_count # 0
    BY <1>1, KernelSame
  <2>4. \A x \in Asked' : x \in Asked
    BY <1>1, AskedKernel
  <2>5. QED
    BY <1>0, <2>1, <2>2, <2>3, <2>4, PortsSame
<1>2. CASE Irq \/ World \/ UNCHANGED vars
  <2>1. UNCHANGED <<conns, ports, reused, fds, sockets>>
    <3>1. CASE Irq \/ World
      BY <3>1, WorldKeeps DEF Irq, userVars
    <3>2. CASE UNCHANGED vars
      BY <3>2, SameVars
    <3>3. QED
      BY <1>2, <3>1, <3>2
  <2>2. \A a \in 1 .. MAX_FDS : fds'[a] = fds[a] \/ fds'[a] = 0
    BY <2>1
  <2>3. \A j \in Slot : /\ Same(sockets[j], sockets'[j])
                        /\ sockets'[j].ref_count # 0 => sockets[j].ref_count # 0
    BY <2>1, SameSlots
  <2>4. \A x \in Asked' : x \in Asked
    BY <1>2, AskedWorld
  <2>5. QED
    BY <1>0, <2>1, <2>2, <2>3, <2>4, PortsSame
<1>3. CASE Program
  BY <1>3, PortsProgram
<1>4. QED
  BY <1>1, <1>2, <1>3 DEF Whole, Compute, StackFull

---------------------------------------------------------------------------
(* One FIN at a time *)

LEMMA FinsStay ==
  ASSUME NetTyped, FinsOK, ~reentered, NEW pre \in Seq(Calls), NEW k \in 0 .. 2, k <= Len(stack),
         Spliced(stack, stack', pre, k), \A i \in 1 .. Len(pre) : pre[i].at \notin FinKinds
  PROVE  FinsOK'
<1> DEFINE p == Len(pre)
           n == Len(stack)
           m == Len(stack')
<1>1. /\ n \in Nat /\ p \in Nat /\ m \in Nat /\ k \in Nat
      /\ \A i \in 1 .. m : \/ i \in 1 .. p /\ stack'[i] = pre[i]
                           \/ i - p + k \in 1 .. n /\ stack'[i] = stack[i - p + k]
  <2>1. k \in Nat
    OBVIOUS
  <2>2. QED
    BY <2>1, SplicedFact, Zenon
<1>2. DOMAIN stack = 1 .. n /\ DOMAIN stack' = 1 .. m
  BY DEF NetTyped, Spliced
<1>3. \A i, j \in 1 .. n : stack[i].at \in FinKinds /\ stack[j].at \in FinKinds => i = j
  BY <1>2 DEF FinsOK
<1>4. \A i \in 1 .. p : pre[i].at \notin FinKinds
  OBVIOUS
<1> HIDE DEF p, n, m
<1>5. ASSUME NEW i \in 1 .. m, NEW j \in 1 .. m, stack'[i].at \in FinKinds, stack'[j].at \in FinKinds
      PROVE  i = j
  <2>1. i - p + k \in 1 .. n /\ stack'[i] = stack[i - p + k]
    BY <1>1, <1>4, <1>5
  <2>2. j - p + k \in 1 .. n /\ stack'[j] = stack[j - p + k]
    BY <1>1, <1>4, <1>5
  <2>3. i - p + k = j - p + k
    BY <1>3, <1>5, <2>1, <2>2
  <2>4. QED
    BY <1>1, <2>3
<1>6. QED
  BY <1>2, <1>5 DEF FinsOK

\* A FIN of its own, and none before.
LEMMA FinsNew ==
  ASSUME NetTyped, NEW pre \in Seq(Calls), NEW k \in 0 .. 2, k <= Len(stack), Spliced(stack, stack', pre, k),
         \A i, j \in 1 .. Len(pre) : pre[i].at \in FinKinds /\ pre[j].at \in FinKinds => i = j,
         \A i \in 1 .. Len(stack) : i > k => stack[i].at \notin FinKinds
  PROVE  FinsOK'
<1> DEFINE p == Len(pre)
           n == Len(stack)
           m == Len(stack')
<1>1. /\ n \in Nat /\ p \in Nat /\ m \in Nat /\ k \in Nat
      /\ \A i \in 1 .. m : \/ i \in 1 .. p /\ stack'[i] = pre[i]
                           \/ i > p /\ i - p + k \in 1 .. n /\ stack'[i] = stack[i - p + k]
  <2>1. k \in Nat
    OBVIOUS
  <2>2. QED
    BY <2>1, SplicedFact, Zenon
<1>2. DOMAIN stack' = 1 .. m
  BY DEF Spliced
<1>3. \A i \in 1 .. n : i > k => stack[i].at \notin FinKinds
  OBVIOUS
<1>4. \A i, j \in 1 .. p : pre[i].at \in FinKinds /\ pre[j].at \in FinKinds => i = j
  OBVIOUS
<1> HIDE DEF p, n, m
<1>5. ASSUME NEW i \in 1 .. m, stack'[i].at \in FinKinds PROVE i \in 1 .. p /\ stack'[i] = pre[i]
  <2>1. ASSUME i > p, i - p + k \in 1 .. n, stack'[i] = stack[i - p + k] PROVE FALSE
    <3>1. i - p + k > k
      BY <1>1, <2>1
    <3>2. QED
      BY <1>3, <1>5, <2>1, <3>1
  <2>2. QED
    BY <1>1, <2>1
<1>6. QED
  BY <1>2, <1>4, <1>5 DEF FinsOK

\* While no packet is handled, no FIN is.
LEMMA NoFins ==
  ASSUME NetTyped, StackOK, Handling = {}
  PROVE  \A i \in 1 .. Len(stack) : stack[i].at \notin FinKinds
<1>1. DOMAIN stack = 1 .. Len(stack)
  BY DEF NetTyped
<1>2. QED
  BY <1>1 DEF StackOK, NestOK, FinKinds, Handling

LEMMA FinsKept ==
  ASSUME NetTyped, StackOK, FinsOK, [Whole]_vars
  PROVE  FinsOK'
<1> SUFFICES ASSUME ~reentered' PROVE FinsOK'
  BY DEF FinsOK
<1>1. Moving /\ ~reentered /\ stack \in Seq(Calls)
  BY WholeTyped, Flags DEF NetTyped
<1>2. CASE PollRx
  <2> DEFINE f == descs[s_rx_cur]
             cs == rx_calls(f)
             p == [at |-> "polled", cur |-> s_rx_cur]
             pre == cs \o <<p>>
  <2>0. stack # << >> /\ Top.at = "poll"
    BY <1>2 DEF PollRx, At
  <2>1. CASE f = NoFrame
    <3>1. Return
      BY <1>2, <2>1, Zenon DEF PollRx
    <3>2. Spliced(stack, stack', << >>, 1)
      BY <1>1, <2>0, <3>1, StackForms DEF Return
    <3>3. \A i \in 1 .. Len(<< >>) : << >>[i].at \notin FinKinds
      OBVIOUS
    <3>4. << >> \in Seq(Calls) /\ 1 \in 0 .. 2 /\ 1 <= Len(stack)
      BY <2>0, TopFacts
    <3>5. QED
      BY <1>1, <3>2, <3>3, <3>4, FinsStay
  <2>2. CASE f # NoFrame
    <3>1. Call(cs, p) /\ Handling = {}
      BY <1>2, <2>2, Zenon DEF PollRx
    <3>2. s_rx_cur \in Desc /\ f \in Frames
      BY DEF NetTyped, TablesTyped
    <3>3. RxCalls(f, cs) /\ p \in Calls /\ p.at = "polled"
      BY <3>2, RxCallsFact, MadeCalls
    <3> HIDE DEF cs, p
    <3>4. cs \in Seq(Calls) /\ \A i, j \in 1 .. Len(cs) : cs[i].at = "fin" /\ cs[j].at = "fin" => i = j
      BY <3>3 DEF RxCalls
    <3>5. \A i \in 1 .. Len(cs) : cs[i].at # "fin_sent"
      BY <3>3 DEF RxCalls
    <3>6. Spliced(stack, stack', pre, 1) /\ pre \in Seq(Calls)
      <4>1. stack' = cs \o <<p>> \o Tail(stack)
        BY <3>1 DEF Call
      <4>2. QED
        BY <1>1, <2>0, <3>3, <3>4, <4>1, StackForms
    <3>7. /\ Len(cs) \in Nat /\ Len(pre) = Len(cs) + 1 /\ pre[Len(cs) + 1] = p
          /\ \A i \in 1 .. Len(cs) : pre[i] = cs[i]
      <4> DEFINE q == <<p>>
      <4>1. q \in Seq(Calls) /\ Len(q) = 1 /\ q[1] = p
        BY <3>3
      <4>2. cs \in Seq(Calls) /\ Len(cs) \in Nat
        BY <3>4
      <4> HIDE DEF q
      <4>3. pre = cs \o q
        BY DEF q
      <4>4. QED
        BY <4>1, <4>2, <4>3
    <3> HIDE DEF pre
    <3>8. ASSUME NEW i \in 1 .. Len(pre), pre[i].at \in FinKinds
          PROVE  i \in 1 .. Len(cs) /\ cs[i].at = "fin"
      <4>1. i # Len(cs) + 1
        BY <3>3, <3>7, <3>8 DEF FinKinds
      <4>2. i \in 1 .. Len(cs)
        BY <3>7, <4>1
      <4>3. QED
        BY <3>5, <3>7, <3>8, <4>2 DEF FinKinds
    <3>9. \A i, j \in 1 .. Len(pre) : pre[i].at \in FinKinds /\ pre[j].at \in FinKinds => i = j
      BY <3>4, <3>8
    <3>10. \A i \in 1 .. Len(stack) : i > 1 => stack[i].at \notin FinKinds
      BY <3>1, NoFins
    <3>11. 1 \in 0 .. 2 /\ 1 <= Len(stack)
      BY <2>0, TopFacts
    <3>12. QED
      BY <3>6, <3>9, <3>10, <3>11, FinsNew
  <2>3. QED
    BY <2>1, <2>2
<1>3. CASE FinInput
  <2> DEFINE g == Send(sockets[Top.slot].remote_ip)
             f == [at |-> "fin_sent", slot |-> Top.slot]
             pre == <<g>> \o <<f>>
  <2>1. stack # << >> /\ Top.at = "fin" /\ Call(<<g>>, f)
    BY <1>3 DEF FinInput, At
  <2>2. Top.slot \in Slot /\ sockets[Top.slot] \in GoodSocks /\ Top = stack[1] /\ 1 \in 1 .. Len(stack)
    BY <2>1, TopSlot, TopFacts
  <2>3. g \in Calls /\ g.at = "send" /\ f \in Calls /\ f.at = "fin_sent"
    BY <2>2, GoodFact, MadeCalls DEF Send
  <2> HIDE DEF g, f
  <2>4. Spliced(stack, stack', pre, 1) /\ pre \in Seq(Calls)
    <3> DEFINE gs == <<g>>
    <3>1. gs \in Seq(Calls)
      BY <2>3
    <3>2. stack' = gs \o <<f>> \o Tail(stack)
      BY <2>1 DEF Call
    <3> HIDE DEF gs
    <3>3. Spliced(stack, stack', gs \o <<f>>, 1) /\ gs \o <<f>> \in Seq(Calls)
      BY <1>1, <2>1, <2>3, <3>1, <3>2, StackForms
    <3>4. QED
      BY <3>3 DEF gs
  <2>5. Len(pre) = 2 /\ pre[1] = g /\ pre[2] = f
    BY <2>3
  <2> HIDE DEF pre
  <2>6. \A i \in 1 .. Len(pre) : pre[i].at \in FinKinds => i = 2
    BY <2>3, <2>5 DEF FinKinds
  <2>7. \A i, j \in 1 .. Len(pre) : pre[i].at \in FinKinds /\ pre[j].at \in FinKinds => i = j
    BY <2>6
  <2>8. \A i \in 1 .. Len(stack) : i > 1 => stack[i].at \notin FinKinds
    <3>1. DOMAIN stack = 1 .. Len(stack) /\ stack[1].at \in FinKinds
      BY <1>1, <2>1, <2>2 DEF FinKinds
    <3>2. \A i \in 1 .. Len(stack) : stack[i].at \in FinKinds => i = 1
      BY <1>1, <2>2, <3>1 DEF FinsOK
    <3>3. QED
      BY <3>2
  <2>9. 1 \in 0 .. 2 /\ 1 <= Len(stack)
    BY <2>2
  <2>10. QED
    BY <2>4, <2>7, <2>8, <2>9, FinsNew
<1>4. CASE ~PollRx /\ ~FinInput
  <2>1. PICK pre \in Seq(Calls), k \in 0 .. 2 : k <= Len(stack) /\ Moves(pre, k)
    BY <1>1 DEF Moving
  <2>2. Spliced(stack, stack', pre, k)
    BY <2>1 DEF Moves
  <2>3. CASE \E i \in 1 .. Len(pre) : pre[i].at \in FinKinds
    <3>1. PICK i \in 1 .. Len(pre) : pre[i].at \in FinKinds
      BY <2>3
    <3>2. \/ k = 1 /\ stack[1].at = "fin"
          \/ pre[Len(pre)].at = "polled"
      BY <2>1, <3>1 DEF Moves, FinKinds
    <3>3. Len(pre) \in 1 .. Len(pre)
      BY <2>1
    <3>4. pre[Len(pre)].at = "polled" => k = 1 /\ stack[1].at = "poll"
      BY <2>1, <3>3, Zenon DEF Moves
    <3>5. stack # << >> /\ stack[1].at \in {"fin", "poll"} /\ Top = stack[1]
      <4>1. k = 1 /\ stack[1].at \in {"fin", "poll"}
        BY <3>2, <3>4
      <4>2. stack # << >>
        <5>1. Len(<< >>) = 0 /\ 1 <= Len(stack)
          BY <2>1, <4>1
        <5>2. QED
          BY <5>1
      <4>3. QED
        BY <4>1, <4>2, TopFacts
    <3>6. ~Kernel
      BY <1>4, <3>5 DEF Kernel, At, SendPacket, Resolve, PolledRx, IcmpInput, FinSent,
           IrqReturn, Closed, ConnectWaits, ConnectLooks, AcceptWaits, SendtoChunk, RecvWaits,
           RecvLooks, SysPollWaits
    <3>7. ~Program
      BY <3>5 DEF Program, Socket, Bind, Option, Close, Connect, Accept, Sendto, Recv, SysPoll, Has, InUser
    <3>8. UNCHANGED stack \/ Irq
      <4>1. CASE World
        BY <4>1, WorldKeeps
      <4>2. CASE UNCHANGED vars
        BY <4>2, SameVars
      <4>3. QED
        BY <3>6, <3>7, <4>1, <4>2 DEF Whole, Compute, StackFull
    <3>9. CASE UNCHANGED stack
      BY <1>1, <3>9 DEF FinsOK
    <3>10. CASE Irq
      <4> DEFINE e == [at |-> "irq"]
                 q == <<Poll, e>>
      <4>1. e \in Calls /\ e.at = "irq" /\ Poll \in Calls /\ Poll.at = "poll"
        BY MadeCalls DEF Poll
      <4> HIDE DEF e
      <4>2. q \in Seq(Calls) /\ Len(q) = 2 /\ q[1] = Poll /\ q[2] = e
        BY <4>1
      <4>3. stack' = q \o stack
        BY <3>10 DEF Irq, e
      <4> HIDE DEF q
      <4>4. Len(stack) \in Nat /\ 0 \in 0 .. Len(stack) /\ stack = SubSeq(stack, 0 + 1, Len(stack))
        BY <1>1
      <4>5. Spliced(stack, stack', q, 0)
        BY <1>1, <4>2, <4>3, <4>4, Splice
      <4>6. \A j \in 1 .. Len(q) : q[j].at \notin FinKinds
        BY <4>1, <4>2 DEF FinKinds
      <4>7. 0 \in 0 .. 2 /\ 0 <= Len(stack)
        BY <4>4
      <4>8. QED
        BY <1>1, <4>2, <4>5, <4>6, <4>7, FinsStay
    <3>11. QED
      BY <3>8, <3>9, <3>10
  <2>4. CASE ~ \E i \in 1 .. Len(pre) : pre[i].at \in FinKinds
    BY <1>1, <2>1, <2>2, <2>4, FinsStay
  <2>5. QED
    BY <2>3, <2>4
<1>5. QED
  BY <1>2, <1>3, <1>4

---------------------------------------------------------------------------
(* Packets that wait *)

\* What steps keep of a connection.
Kept(c) ==
  /\ \A n : Due(c, n) => Due(c, n)'
  /\ Waits(c) => Waits(c)'
  /\ ChainOf(c) => ChainOf(c)'
  /\ flow[c].sent <= flow'[c].sent

\* The same packets in the same order.
LEMMA NetSame ==
  ASSUME NEW c, flow'[c] = flow[c], DataOf(c)' = DataOf(c), TcpOf(c, "synack")' = TcpOf(c, "synack"),
         flow[c].sent \in Nat,
         \A d \in DataOf(c) : d \in Desc /\ Pending(d) /\ descs'[d] = descs[d],
         \A d \in TcpOf(c, "synack") : d \in Desc /\ Pending(d),
         \A d, e \in Desc : Pending(d) /\ Pending(e) => (Before(d, e)' <=> Before(d, e))
  PROVE  Kept(c)
<1>1. ASSUME NEW D, NEW E, D \subseteq DataOf(c), E = D, NEW n, Follows(c, n, D)
      PROVE  /\ E = {} => n = flow'[c].sent
             /\ \A d \in E : (\A e \in E : ~Before(e, d)') => descs'[d].first = n + 1
  BY <1>1 DEF Follows
<1>2. \A n : Due(c, n) => Due(c, n)'
  BY <1>1 DEF Due, Follows
<1>3. Waits(c) => Waits(c)'
  BY <1>2 DEF Waits
<1>4. ASSUME ChainOf(c), NEW d \in DataOf(c) PROVE (LastOf(d) <= flow[c].sent /\ Follows(c, LastOf(d), After(c, d)))'
  <2>1. LastOf(d) <= flow[c].sent /\ Follows(c, LastOf(d), After(c, d))
    BY <1>4 DEF ChainOf
  <2>2. LastOf(d)' = LastOf(d)
    BY <1>4 DEF LastOf
  <2>3. After(c, d)' = After(c, d) /\ After(c, d) \subseteq DataOf(c)
    BY <1>4 DEF After
  <2>4. /\ After(c, d)' = {} => LastOf(d) = flow'[c].sent
        /\ \A a \in After(c, d)' : (\A e \in After(c, d)' : ~Before(e, a)') => descs'[a].first = LastOf(d) + 1
    BY <1>1, <2>1, <2>3
  <2>5. QED
    BY <2>1, <2>2, <2>4 DEF Follows
<1>5. ChainOf(c) => ChainOf(c)'
  BY <1>4 DEF ChainOf
<1>6. flow[c].sent <= flow'[c].sent
  OBVIOUS
<1>7. QED
  BY <1>2, <1>3, <1>5, <1>6 DEF Kept

LEMMA FlowNat ==
  ASSUME NetTyped
  PROVE  \A c \in 1 .. MaxConns : flow[c].sent \in Nat
BY DEF NetTyped, TablesTyped

\* Nothing happens to the ring.
LEMMA NetQuiet ==
  ASSUME NetTyped, UNCHANGED <<descs, s_rx_cur, flow>>, Handling' = {} <=> Handling = {}
  PROVE  \A c \in 1 .. MaxConns : Kept(c)
<1> SUFFICES ASSUME NEW c \in 1 .. MaxConns PROVE Kept(c)
  OBVIOUS
<1>1. \A d \in Desc : Pending(d)' <=> Pending(d)
  BY DEF Pending
<1>2. DataOf(c)' = DataOf(c) /\ TcpOf(c, "synack")' = TcpOf(c, "synack")
  BY <1>1 DEF DataOf, TcpOf
<1>3. \A d, e \in Desc : Before(d, e)' <=> Before(d, e)
  BY DEF Before, Dist
<1>4. \A d \in DataOf(c) \cup TcpOf(c, "synack") : d \in Desc /\ Pending(d)
  BY DEF DataOf, TcpOf
<1>5. flow[c].sent \in Nat
  BY FlowNat
<1>6. QED
  BY <1>2, <1>3, <1>4, <1>5, NetSame

\* The packet that was handled leaves the ring.
LEMMA NetPolled ==
  ASSUME NetTyped, StackOK, RingOK, PolledRx, ~reentered
  PROVE  \A c \in 1 .. MaxConns : Kept(c)
<1> SUFFICES ASSUME NEW c \in 1 .. MaxConns PROVE Kept(c)
  OBVIOUS
<1>0. Handling = {1} /\ Handling' = {} /\ Top = stack[1]
  BY PolledEnds
<1>1. Top.cur = s_rx_cur /\ s_rx_cur \in Desc /\ descs \in [Desc -> Frames]
  BY <1>0 DEF RingOK, HandlingOK, NetTyped, TablesTyped
<1>2. /\ descs' = [descs EXCEPT ![s_rx_cur] = NoFrame] /\ s_rx_cur' = (s_rx_cur + 1) % NUM_RX_DESC
      /\ UNCHANGED flow
  BY <1>1 DEF PolledRx, hostVars
<1>3. \A d \in Desc : /\ Pending(d)' <=> Pending(d)
                      /\ Pending(d) => d # s_rx_cur /\ descs'[d] = descs[d]
  BY <1>0, <1>1, <1>2 DEF Pending
<1>4. DataOf(c)' = DataOf(c) /\ TcpOf(c, "synack")' = TcpOf(c, "synack")
  BY <1>3 DEF DataOf, TcpOf
<1>5. \A d \in DataOf(c) \cup TcpOf(c, "synack") : d \in Desc /\ Pending(d)
  BY DEF DataOf, TcpOf
<1>6. ASSUME NEW d \in Desc, NEW e \in Desc, Pending(d), Pending(e) PROVE Before(d, e)' <=> Before(d, e)
  <2>1. PICK a \in Desc : a = s_rx_cur
    BY <1>1
  <2>2. PICK b : b = s_rx_cur'
    OBVIOUS
  <2>3. b \in Desc /\ b = IF a + 1 = NUM_RX_DESC THEN 0 ELSE a + 1
    BY <1>2, <2>1, <2>2, NextDesc
  <2>4. d # a /\ e # a
    BY <1>3, <1>6, <2>1
  <2>5. From(b, d) = From(a, d) - 1 /\ From(b, e) = From(a, e) - 1
    BY <2>3, <2>4, FromNext
  <2>6. From(a, d) \in Nat /\ From(a, e) \in Nat
    BY FromFacts
  <2>7. From(b, d) < From(b, e) <=> From(a, d) < From(a, e)
    BY <2>5, <2>6
  <2>8. QED
    BY <2>1, <2>2, <2>7 DEF Before, Dist
<1>7. flow[c].sent \in Nat
  BY FlowNat
<1>8. QED
  BY <1>2, <1>3, <1>4, <1>5, <1>6, <1>7, NetSame

\* The first packet is taken.
LEMMA NetTaken ==
  ASSUME NetTyped, UNCHANGED <<descs, s_rx_cur, flow>>, Handling = {}, Handling' # {}, NEW h, h = s_rx_cur,
         NEW c \in 1 .. MaxConns
  PROVE  /\ ChainOf(c) => ChainOf(c)'
         /\ h \notin DataOf(c) => \A n : Due(c, n) => Due(c, n)'
         /\ \A n : h \in DataOf(c) /\ Due(c, n) => descs[h].first = n + 1
         /\ \A n : h \in DataOf(c) /\ ChainOf(c) /\ n = LastOf(h) => Due(c, n)' /\ n <= flow[c].sent
         /\ Waits(c) => h \notin DataOf(c)
         /\ Waits(c) /\ h \notin TcpOf(c, "synack") => Waits(c)'
<1>1. \A d \in Desc : Pending(d)' <=> Pending(d) /\ d # h
  BY DEF Pending
<1>2. DataOf(c)' = DataOf(c) \ {h} /\ TcpOf(c, "synack")' = TcpOf(c, "synack") \ {h}
  BY <1>1 DEF DataOf, TcpOf
<1>3. \A d \in DataOf(c) \cup TcpOf(c, "synack") : d \in Desc
  BY DEF DataOf, TcpOf
<1>4. h \in Desc
  BY DEF NetTyped, TablesTyped
<1>5. \A d \in Desc : Dist(d) \in Nat /\ (Dist(d) = 0 <=> d = h)
  BY <1>4, FromFacts DEF Dist
<1>6. /\ \A d \in Desc : ~Before(d, h)
      /\ \A d \in Desc : d # h => Before(h, d)
      /\ \A d, e \in Desc : Before(d, e)' <=> Before(d, e)
  <2>1. \A d \in Desc : ~Before(d, h)
    BY <1>4, <1>5 DEF Before
  <2>2. \A d \in Desc : d # h => Before(h, d)
    BY <1>4, <1>5 DEF Before
  <2>3. \A d, e \in Desc : Before(d, e)' <=> Before(d, e)
    BY DEF Before, Dist
  <2>4. QED
    BY <2>1, <2>2, <2>3
<1>7. descs' = descs /\ flow' = flow
  OBVIOUS
<1>8. ASSUME NEW D, D \subseteq DataOf(c), NEW n, Follows(c, n, D)
      PROVE  /\ D = {} => n = flow'[c].sent
             /\ \A d \in D : (\A e \in D : ~Before(e, d)') => descs'[d].first = n + 1
  BY <1>3, <1>6, <1>7, <1>8 DEF Follows
<1>9. ASSUME ChainOf(c), NEW d \in DataOf(c)
      PROVE  /\ LastOf(d)' = LastOf(d) /\ LastOf(d) <= flow[c].sent
             /\ After(c, d) = {e \in DataOf(c)' : Before(d, e)'}
             /\ After(c, d) = {} => LastOf(d) = flow'[c].sent
             /\ \A a \in After(c, d) : (\A e \in After(c, d) : ~Before(e, a)') => descs'[a].first = LastOf(d) + 1
  <2>1. LastOf(d) <= flow[c].sent /\ Follows(c, LastOf(d), After(c, d))
    BY <1>9 DEF ChainOf
  <2>2. LastOf(d)' = LastOf(d)
    BY <1>7 DEF LastOf
  <2>3. After(c, d) = {e \in DataOf(c)' : Before(d, e)'} /\ After(c, d) \subseteq DataOf(c)
    BY <1>2, <1>3, <1>4, <1>6 DEF After
  <2>4. QED
    BY <1>8, <2>1, <2>2, <2>3
<1>10. ASSUME ChainOf(c), NEW d \in DataOf(c)' PROVE (LastOf(d) <= flow[c].sent /\ Follows(c, LastOf(d), After(c, d)))'
  <2>1. d \in DataOf(c)
    BY <1>2
  <2>2. After(c, d)' = After(c, d)
    BY <1>9, <1>10, <2>1 DEF After
  <2>3. QED
    BY <1>7, <1>9, <1>10, <2>1, <2>2 DEF Follows
<1>11. ChainOf(c) => ChainOf(c)'
  BY <1>10 DEF ChainOf
<1>12. ASSUME h \notin DataOf(c), NEW n, Due(c, n) PROVE Due(c, n)'
  <2>1. DataOf(c)' = DataOf(c)
    BY <1>2, <1>12
  <2>2. QED
    BY <1>8, <1>12, <2>1 DEF Due, Follows
<1>13. ASSUME NEW n, h \in DataOf(c), Due(c, n) PROVE descs[h].first = n + 1
  BY <1>3, <1>6, <1>13 DEF Due, Follows
<1>14. ASSUME NEW n, h \in DataOf(c), ChainOf(c), n = LastOf(h) PROVE Due(c, n)' /\ n <= flow[c].sent
  <2>1. After(c, h) = DataOf(c)'
    BY <1>2, <1>3, <1>4, <1>6 DEF After
  <2>2. QED
    BY <1>9, <1>14, <2>1 DEF Due, Follows
<1>15. Waits(c) => h \notin DataOf(c)
  BY <1>3, <1>6 DEF Waits
<1>16. ASSUME Waits(c), h \notin TcpOf(c, "synack") PROVE Waits(c)'
  <2>1. DataOf(c)' = DataOf(c) /\ TcpOf(c, "synack")' = TcpOf(c, "synack")
    BY <1>2, <1>15, <1>16
  <2>2. Due(c, 0)'
    BY <1>12, <1>15, <1>16 DEF Waits
  <2>3. QED
    BY <1>3, <1>6, <1>7, <1>16, <2>1, <2>2 DEF Waits
<1>17. QED
  BY <1>11, <1>12, <1>13, <1>14, <1>15, <1>16

\* A packet comes.
LEMMA NetArrives ==
  ASSUME NetTyped, StackOK, RingOK, ~reentered, NEW f \in Frames, f # NoFrame, Arrive(f),
         f.kind = "tcp" => f \in Segments /\ SentBy(f), f.kind # "tcp" => UNCHANGED flow
  PROVE  \A c \in 1 .. MaxConns : Kept(c)
<1> SUFFICES ASSUME NEW c \in 1 .. MaxConns PROVE Kept(c)
  OBVIOUS
<1>0. /\ rdh # rdt /\ descs' = [descs EXCEPT ![rdh] = f] /\ rdh' = (rdh + 1) % NUM_RX_DESC
      /\ UNCHANGED <<s_rx_cur, rdt, stack, syns>>
  BY DEF Arrive
<1>1. FilledOK /\ HandlingOK /\ descs[rdh] = NoFrame
  <2>1. FilledOK /\ HandlingOK
    BY DEF RingOK
  <2>2. QED
    BY <1>0, <2>1, ArriveFilled
<1>2. PICK r \in Desc : r = rdh
  BY DEF NetTyped, TablesTyped
<1>3. \A d \in Desc : descs'[d] = IF d = r THEN f ELSE descs[d]
  BY <1>0, <1>2 DEF NetTyped, TablesTyped
<1>4. s_rx_cur \in Desc /\ descs[r] = NoFrame
  BY <1>1, <1>2 DEF NetTyped, TablesTyped
<1>5. \A d \in Desc : Dist(d) \in Nat /\ (descs[d] # NoFrame <=> Dist(d) < Dist(r))
  BY <1>1, <1>2, <1>4, FromFacts DEF FilledOK, Dist
<1>6. Handling' = Handling /\ (r = s_rx_cur => Handling = {})
  BY <1>0, <1>1, <1>4 DEF Handling, HandlingOK
<1>7. \A d \in Desc : Pending(d)' <=> Pending(d) \/ d = r
  BY <1>0, <1>3, <1>6 DEF Pending
<1>8. ~Pending(r)
  BY <1>4 DEF Pending
<1>9. /\ \A d \in Desc : Pending(d) => Before(d, r) /\ ~Before(r, d)
      /\ ~Before(r, r)
      /\ \A d, e \in Desc : Before(d, e)' <=> Before(d, e)
  <2>1. ASSUME NEW d \in Desc, Pending(d) PROVE Before(d, r) /\ ~Before(r, d)
    <3>1. Dist(d) < Dist(r) /\ Dist(d) \in Nat /\ Dist(r) \in Nat
      BY <1>5, <2>1 DEF Pending
    <3>2. QED
      BY <3>1 DEF Before
  <2>2. ~Before(r, r)
    <3>1. Dist(r) \in Nat
      BY <1>5
    <3>2. QED
      BY <3>1 DEF Before
  <2>3. \A d, e \in Desc : Before(d, e)' <=> Before(d, e)
    BY <1>0 DEF Before, Dist
  <2>4. QED
    BY <2>1, <2>2, <2>3
<1>10. \A d \in DataOf(c) \cup TcpOf(c, "synack") : d \in Desc /\ Pending(d) /\ d # r /\ descs'[d] = descs[d]
  BY <1>3, <1>8 DEF DataOf, TcpOf
<1>11. \A flag : TcpOf(c, flag)' = TcpOf(c, flag) \cup
          (IF f.kind = "tcp" /\ f.conn = c /\ f.flag = flag THEN {r} ELSE {})
  BY <1>3, <1>7, <1>8 DEF TcpOf
<1>12. flow \in [1 .. MaxConns -> [open : BOOLEAN, sent : Nat, fin : BOOLEAN]] /\ flow[c].sent \in Nat
  BY DEF NetTyped, TablesTyped
<1>13. CASE ~(f.kind = "tcp" /\ f.conn = c)
  <2>1. flow'[c] = flow[c]
    BY <1>13, Zenon DEF SentBy
  <2>2. DataOf(c)' = DataOf(c) /\ TcpOf(c, "synack")' = TcpOf(c, "synack")
    BY <1>11, <1>13 DEF DataOf
  <2>3. QED
    BY <1>9, <1>10, <1>12, <2>1, <2>2, NetSame
<1>14. CASE f.kind = "tcp" /\ f.conn = c /\ f.flag # "data"
  <2>1. flow'[c].sent = flow[c].sent /\ (flow'[c].open => f.flag = "synack")
    BY <1>14, Zenon DEF SentBy
  <2>2. DataOf(c)' = DataOf(c) /\ TcpOf(c, "synack") \subseteq TcpOf(c, "synack")'
    BY <1>11, <1>14, SMTT(40) DEF DataOf
  <2>3. f.flag = "synack" => TcpOf(c, "synack")' # {}
    BY <1>11, <1>14
  <2>4. ASSUME NEW D, D \subseteq DataOf(c), NEW n, Follows(c, n, D)
        PROVE  /\ D = {} => n = flow'[c].sent
               /\ \A d \in D : (\A e \in D : ~Before(e, d)') => descs'[d].first = n + 1
    BY <1>9, <1>10, <2>1, <2>4 DEF Follows
  <2>5. \A n : Due(c, n) => Due(c, n)'
    BY <2>2, <2>4 DEF Due, Follows
  <2>6. Waits(c) => Waits(c)'
    BY <1>9, <1>10, <2>1, <2>2, <2>3, <2>5 DEF Waits
  <2>7. ASSUME ChainOf(c), NEW d \in DataOf(c)
        PROVE  (LastOf(d) <= flow[c].sent /\ Follows(c, LastOf(d), After(c, d)))'
    <3>1. LastOf(d) <= flow[c].sent /\ Follows(c, LastOf(d), After(c, d))
      BY <2>7 DEF ChainOf
    <3>2. LastOf(d)' = LastOf(d)
      BY <1>10, <2>7 DEF LastOf
    <3>3. After(c, d)' = After(c, d) /\ After(c, d) \subseteq DataOf(c)
      BY <1>9, <1>10, <2>2, <2>7 DEF After
    <3>4. QED
      BY <2>1, <2>4, <3>1, <3>2, <3>3 DEF Follows
  <2>8. ChainOf(c) => ChainOf(c)'
    BY <2>2, <2>7 DEF ChainOf
  <2>9. flow[c].sent <= flow'[c].sent
    BY <1>12, <2>1
  <2>10. QED
    BY <2>5, <2>6, <2>8, <2>9 DEF Kept
<1>15. CASE f.kind = "tcp" /\ f.conn = c /\ f.flag = "data"
  <2>1. flow[c].open /\ f.first = flow[c].sent + 1 /\ flow'[c].sent = flow[c].sent + f.len
    BY <1>15, Zenon DEF SentBy
  <2>2. f.len \in Nat
    BY <1>15, BytesFact
  <2>3. DataOf(c)' = DataOf(c) \cup {r} /\ TcpOf(c, "synack") = TcpOf(c, "synack")'
    <3>1. TcpOf(c, "data")' = TcpOf(c, "data") \cup {r}
      BY <1>11, <1>15
    <3>2. f.flag # "synack"
      BY <1>15
    <3>3. TcpOf(c, "synack")' = TcpOf(c, "synack")
      BY <1>11, <3>2, Zenon
    <3>4. QED
      BY <3>1, <3>3 DEF DataOf
  <2>4. descs'[r] = f
    BY <1>3
  <2>5. ASSUME NEW D, D \subseteq DataOf(c), NEW n, Follows(c, n, D), NEW E, E = D \cup {r}
        PROVE  \A d \in E : (\A e \in E : ~Before(e, d)') => descs'[d].first = n + 1
    <3>1. ASSUME \A e \in E : ~Before(e, r)' PROVE descs'[r].first = n + 1
      <4>1. D = {}
        BY <1>9, <1>10, <2>5, <3>1
      <4>2. QED
        BY <2>1, <2>4, <2>5, <4>1 DEF Follows
    <3>2. ASSUME NEW d \in D, \A e \in E : ~Before(e, d)' PROVE descs'[d].first = n + 1
      BY <1>9, <1>10, <2>5, <3>2 DEF Follows
    <3>3. QED
      BY <2>5, <3>1, <3>2
  <2>6. ASSUME NEW n, Due(c, n) PROVE Due(c, n)'
    <3>1. \A d \in DataOf(c)' : (\A e \in DataOf(c)' : ~Before(e, d)') => descs'[d].first = n + 1
      BY <2>3, <2>5, <2>6 DEF Due
    <3>2. QED
      BY <2>3, <3>1 DEF Due, Follows
  <2>7. ASSUME Waits(c) PROVE Waits(c)'
    <3>1. TcpOf(c, "synack") # {} /\ \A d \in DataOf(c) : \E e \in TcpOf(c, "synack") : Before(e, d)
      BY <2>1, <2>7 DEF Waits
    <3>2. \A d \in DataOf(c)' : \E e \in TcpOf(c, "synack")' : Before(e, d)'
      BY <1>9, <1>10, <2>3, <3>1
    <3>3. Due(c, 0)'
      BY <2>6, <2>7 DEF Waits
    <3>4. QED
      BY <2>3, <3>1, <3>2, <3>3 DEF Waits
  <2>8. ASSUME ChainOf(c), NEW d \in DataOf(c)'
        PROVE  (LastOf(d) <= flow[c].sent /\ Follows(c, LastOf(d), After(c, d)))'
    <3>1. CASE d = r
      <4>1. LastOf(d)' = flow'[c].sent
        <5>1. LastOf(d)' = f.first + f.len - 1
          BY <2>4, <3>1 DEF LastOf
        <5>2. QED
          BY <1>12, <2>1, <2>2, <5>1
      <4>2. After(c, d)' = {}
        BY <1>9, <1>10, <2>3, <3>1 DEF After
      <4>3. flow'[c].sent \in Nat
        BY <1>12, <2>1, <2>2
      <4>4. QED
        BY <4>1, <4>2, <4>3 DEF Follows
    <3>2. CASE d # r
      <4>1. d \in DataOf(c) /\ d \in Desc /\ Pending(d) /\ descs'[d] = descs[d]
        BY <1>10, <2>3, <3>2
      <4>2. LastOf(d) <= flow[c].sent /\ Follows(c, LastOf(d), After(c, d))
        BY <2>8, <4>1 DEF ChainOf
      <4>3. LastOf(d)' = LastOf(d)
        BY <4>1 DEF LastOf
      <4>4. After(c, d)' = After(c, d) \cup {r} /\ After(c, d) \subseteq DataOf(c)
        BY <1>9, <1>10, <2>3, <4>1 DEF After
      <4>5. \A a \in After(c, d)' : (\A e \in After(c, d)' : ~Before(e, a)') => descs'[a].first = LastOf(d) + 1
        BY <2>5, <4>2, <4>4
      <4>6. After(c, d)' # {}
        BY <4>4
      <4>7. LastOf(d) <= flow'[c].sent
        <5>1. LastOf(d) \in Int
          <6>1. d \in Desc /\ descs[d] \in Frames /\ descs[d].kind = "tcp"
            BY <4>1 DEF DataOf, TcpOf, NetTyped, TablesTyped
          <6>2. descs[d] \in Segments
            BY <6>1, FrameKinds
          <6>3. QED
            BY <6>2, BytesFact DEF LastOf
        <5>2. QED
          BY <1>12, <2>1, <2>2, <4>2, <5>1
      <4>8. QED
        BY <4>3, <4>5, <4>6, <4>7 DEF Follows
    <3>3. QED
      BY <3>1, <3>2
  <2>9. ChainOf(c) => ChainOf(c)'
    BY <2>8 DEF ChainOf
  <2>10. flow[c].sent <= flow'[c].sent
    BY <1>12, <2>1, <2>2
  <2>11. QED
    BY <2>6, <2>7, <2>9, <2>10 DEF Kept
<1>16. QED
  BY <1>13, <1>14, <1>15

---------------------------------------------------------------------------
(* What a socket keeps of its stream *)

Steady(s, t) ==
  /\ t.conn = s.conn /\ StreamOf(t) = StreamOf(s) /\ t.remote_seq = s.remote_seq
  /\ t.fin_received = s.fin_received
  /\ t.ref_count # 0 => s.ref_count # 0
  /\ t.tcp_state \in {SYN_SENT, ESTABLISHED} => t.tcp_state = s.tcp_state
  /\ t.tcp_state = FIN_WAIT1 => t.ref_count = 0 \/ s.tcp_state = FIN_WAIT1
Quiet(s, t) == Steady(s, t) /\ t.local_port = s.local_port

LEMMA StreamFact ==
  ASSUME NEW s \in GoodSocks
  PROVE  StreamOf(s) \in Seq(Items) /\ Len(StreamOf(s)) \in Nat
<1>1. s.got \in Seq(Items) /\ s.rx \in Seq(Items)
  BY GoodFact
<1>2. StreamOf(s) \in Seq(Items)
  BY <1>1 DEF StreamOf
<1>3. QED
  BY <1>2

LEMMA Join3 ==
  ASSUME NEW s \in Seq(Items), NEW t \in Seq(Items), NEW u \in Seq(Items)
  PROVE  (s \o t) \o u = s \o (t \o u)
BY ConcatAssociative

\* What is received comes off the front of the buffer.
LEMMA ReceivedQuiet ==
  ASSUME NEW s \in GoodSocks, NEW n \in Nat
  PROVE  Quiet(s, received(s, n))
<1>0. s \in Socks /\ s.rx \in Seq(Items) /\ s.got \in Seq(Items) /\ Len(s.rx) \in Nat
  BY GoodFact
<1>1. CASE s.type = STREAM
  <2> DEFINE k == Lesser(n, Len(s.rx))
             a == SubSeq(s.rx, 1, k)
             b == SubSeq(s.rx, k + 1, Len(s.rx))
             g == s.got \o a
             t == [s EXCEPT !.rx = b, !.got = g]
  <2>1. received(s, n) = t
    BY <1>1, Zenon DEF received
  <2>2. k \in Nat /\ k <= Len(s.rx)
    BY <1>0 DEF Lesser
  <2> HIDE DEF k
  <2>3. /\ a \in Seq(Items) /\ Len(a) = k /\ \A j \in 1 .. k : a[j] = s.rx[j]
        /\ b \in Seq(Items) /\ Len(b) = Len(s.rx) - k /\ \A j \in 1 .. Len(s.rx) - k : b[j] = s.rx[k + j]
    BY <1>0, <2>2, SMTT(40)
  <2> HIDE DEF a, b
  <2>4. a \o b = s.rx
    <3> DEFINE c == a \o b
    <3>1. c \in Seq(Items) /\ Len(c) = Len(a) + Len(b)
          /\ \A j \in 1 .. Len(a) + Len(b) : c[j] = IF j <= Len(a) THEN a[j] ELSE b[j - Len(a)]
      BY <2>3, ConcatProperties
    <3> HIDE DEF c
    <3>2. Len(c) = Len(s.rx)
      BY <1>0, <2>2, <2>3, <3>1
    <3>3. ASSUME NEW j \in 1 .. Len(s.rx) PROVE c[j] = s.rx[j]
      <4>1. j \in 1 .. Len(a) + Len(b)
        BY <1>0, <2>2, <2>3
      <4>2. CASE j <= Len(a)
        <5>1. j \in 1 .. k
          BY <1>0, <2>2, <2>3, <4>2
        <5>2. c[j] = a[j]
          BY <3>1, <4>1, <4>2
        <5>3. QED
          BY <2>3, <5>1, <5>2
      <4>3. CASE ~(j <= Len(a))
        <5>1. j - k \in 1 .. Len(s.rx) - k /\ k + (j - k) = j
          BY <1>0, <2>2, <2>3, <4>3
        <5>2. c[j] = b[j - k]
          BY <2>3, <3>1, <4>1, <4>3
        <5>3. QED
          BY <2>3, <5>1, <5>2
      <4>4. QED
        BY <4>2, <4>3
    <3>4. c = s.rx
      BY <1>0, <3>1, <3>2, <3>3, SeqEqual
    <3>5. QED
      BY <3>4 DEF c
  <2>5. (s.got \o a) \o b = s.got \o (a \o b)
    <3>1. s.got \in Seq(Items) /\ a \in Seq(Items) /\ b \in Seq(Items)
      BY <1>0, <2>3
    <3>2. QED
      BY <3>1, Join3
  <2>6. s.got \o a \in Seq(Items)
    BY <1>0, <2>3
  <2>7. t.rx = b /\ t.got = g
    <3> HIDE DEF g
    <3>1. QED
      BY <1>0 DEF Socks
  <2>8. StreamOf(t) = StreamOf(s)
    <3> HIDE DEF t
    <3>1. QED
      BY <2>4, <2>5, <2>7 DEF StreamOf
  <2>9. /\ t.conn = s.conn /\ t.remote_seq = s.remote_seq /\ t.fin_received = s.fin_received
        /\ t.local_port = s.local_port /\ t.ref_count = s.ref_count /\ t.tcp_state = s.tcp_state
    <3> HIDE DEF g
    <3>1. QED
      BY <1>0 DEF Socks
  <2> HIDE DEF t
  <2>10. QED
    BY <2>1, <2>8, <2>9 DEF Quiet, Steady
<1>2. CASE s.type # STREAM
  <2> DEFINE r == Tail(s.dgrams)
             t == [s EXCEPT !.dgrams = r]
  <2>1. received(s, n) = t
    BY <1>2, Zenon DEF received
  <2> HIDE DEF r
  <2>2. /\ t.conn = s.conn /\ t.remote_seq = s.remote_seq /\ t.fin_received = s.fin_received
        /\ t.local_port = s.local_port /\ t.ref_count = s.ref_count /\ t.tcp_state = s.tcp_state
        /\ t.rx = s.rx /\ t.got = s.got
    BY <1>0 DEF Socks
  <2> HIDE DEF t
  <2>3. QED
    BY <2>1, <2>2 DEF Quiet, Steady, StreamOf
<1>3. QED
  BY <1>1, <1>2

LEMMA Quiets ==
  ASSUME NEW s \in GoodSocks
  PROVE  /\ Quiet(s, s) /\ Quiet(s, queued(s)) /\ Quiet(s, fin_state(s)) /\ Quiet(s, timed_out(s))
         /\ \A fin \in BOOLEAN : Quiet(s, sock_close(s, fin))
         /\ Quiet(s, [s EXCEPT !.tcp_state = CLOSED, !.error = 104])
<1>0. s \in Socks /\ \A x \in {CLOSED, CLOSE_WAIT} : x \notin {SYN_SENT, ESTABLISHED, FIN_WAIT1}
  BY GoodFact DEF CLOSED, SYN_SENT, ESTABLISHED, FIN_WAIT1, CLOSE_WAIT
<1>1. Quiet(s, s)
  BY DEF Quiet, Steady
<1>2. Quiet(s, queued(s))
  <2>1. CASE Len(s.dgrams) < MAX_DGRAM_QUEUE
    <3> DEFINE r == Append(s.dgrams, s.born)
    <3>1. queued(s) = [s EXCEPT !.dgrams = r]
      BY <2>1, Zenon DEF queued
    <3> HIDE DEF r
    <3>2. QED
      BY <1>0, <3>1 DEF Quiet, Steady, StreamOf, Socks
  <2>2. CASE ~(Len(s.dgrams) < MAX_DGRAM_QUEUE)
    <3>1. queued(s) = s
      BY <2>2, Zenon DEF queued
    <3>2. QED
      BY <1>1, <3>1
  <2>3. QED
    BY <2>1, <2>2
<1>3. Quiet(s, fin_state(s))
  BY <1>0 DEF Quiet, Steady, StreamOf, fin_state, Socks
<1>4. Quiet(s, timed_out(s))
  BY <1>0 DEF Quiet, Steady, StreamOf, timed_out, Socks
<1>5. ASSUME NEW fin \in BOOLEAN PROVE Quiet(s, sock_close(s, fin))
  <2>1. FIN_WAIT1 \notin {SYN_SENT, ESTABLISHED}
    BY DEF SYN_SENT, ESTABLISHED, FIN_WAIT1
  <2>2. QED
    BY <1>0, <2>1 DEF Quiet, Steady, StreamOf, sock_close, Socks
<1>6. Quiet(s, [s EXCEPT !.tcp_state = CLOSED, !.error = 104])
  BY <1>0 DEF Quiet, Steady, StreamOf, Socks
<1>7. QED
  BY <1>1, <1>2, <1>3, <1>4, <1>5, <1>6

\* A slot whose stream does not change.
LEMMA SlotQuiet ==
  ASSUME NEW i, NEW s \in GoodSocks, NEW t \in GoodSocks, SlotOK(i, s), Steady(s, t),
         s.conn # 0 => /\ flow[s.conn].sent \in Nat /\ flow'[s.conn].sent \in Nat
                       /\ flow[s.conn].sent <= flow'[s.conn].sent,
         t.tcp_state = SYN_SENT /\ t.ref_count # 0 /\ Waits(s.conn) => Waits(s.conn)',
         t.tcp_state = ESTABLISHED /\ t.ref_count # 0 /\ Reach(t)' =>
           Reach(s) /\ \A n : Due(s.conn, n) => Due(s.conn, n)',
         t.tcp_state = ESTABLISHED /\ Finishing(i) => Finishing(i)',
         On(FinCall("fin", i))' => On(FinCall("fin", i))
  PROVE  SlotOK(i, t)'
<1>0. /\ t.conn = s.conn /\ StreamOf(t) = StreamOf(s) /\ t.remote_seq = s.remote_seq
      /\ t.fin_received = s.fin_received
      /\ t.ref_count # 0 => s.ref_count # 0
      /\ t.tcp_state \in {SYN_SENT, ESTABLISHED} => t.tcp_state = s.tcp_state
      /\ t.tcp_state = FIN_WAIT1 => t.ref_count = 0 \/ s.tcp_state = FIN_WAIT1
  BY DEF Quiet, Steady
<1>1. t.conn = 0 => StreamOf(t) = << >> /\ t.tcp_state \notin {SYN_SENT, ESTABLISHED}
  BY <1>0 DEF SlotOK
<1>2. t.ref_count # 0 => t.tcp_state # FIN_WAIT1
  BY <1>0 DEF SlotOK
<1>3. ASSUME t.conn # 0 PROVE BytesOK(t, t.conn)'
  <2>1. BytesOK(s, s.conn)
    BY <1>0, <1>3 DEF SlotOK
  <2>2. PICK z : z = IF s.fin_received THEN 1 ELSE 0
    OBVIOUS
  <2>3. s.remote_seq <= flow[s.conn].sent + z /\ z \in Nat
    BY <2>1, <2>2 DEF BytesOK
  <2>4. s.remote_seq \in Nat
    BY GoodFact
  <2>5. s.remote_seq <= flow'[s.conn].sent + z
    BY <1>0, <1>3, <2>3, <2>4
  <2>6. z = IF t.fin_received THEN 1 ELSE 0
    BY <1>0, <2>2
  <2>7. QED
    BY <1>0, <2>1, <2>5, <2>6 DEF BytesOK
<1>4. t.conn # 0 /\ On(FinCall("fin", i))' => t.remote_seq <= flow'[t.conn].sent
  <2>1. s.remote_seq \in Nat
    BY GoodFact
  <2>2. s.conn # 0 /\ On(FinCall("fin", i)) => s.remote_seq <= flow[s.conn].sent
    BY DEF SlotOK
  <2>3. QED
    BY <1>0, <2>1, <2>2
<1>5. t.tcp_state = SYN_SENT => ~t.fin_received /\ StreamOf(t) = << >> /\ ~On(FinCall("fin", i))'
  BY <1>0 DEF SlotOK
<1>6. t.tcp_state = SYN_SENT /\ t.ref_count # 0 => Waits(t.conn)'
  BY <1>0 DEF SlotOK
<1>7. t.tcp_state = ESTABLISHED /\ t.ref_count # 0 /\ Reach(t)' => Due(t.conn, Len(StreamOf(t)))'
  BY <1>0 DEF SlotOK
<1>8. t.tcp_state = ESTABLISHED /\ t.ref_count # 0 /\ ~Finishing(i)' =>
        ~t.fin_received /\ t.remote_seq = Len(StreamOf(t))
  BY <1>0 DEF SlotOK
<1>9. QED
  BY <1>1, <1>2, <1>3, <1>4, <1>5, <1>6, <1>7, <1>8, Zenon DEF SlotOK

LEMMA ConnRange ==
  ASSUME NetTyped, PortsOK
  PROVE  \A i \in Slot : sockets[i] \in GoodSocks /\ (sockets[i].conn # 0 => sockets[i].conn \in 1 .. MaxConns)
<1> SUFFICES ASSUME NEW i \in Slot
             PROVE  sockets[i] \in GoodSocks /\ (sockets[i].conn # 0 => sockets[i].conn \in 1 .. MaxConns)
  OBVIOUS
<1>1. sockets[i] \in GoodSocks /\ conns \in 0 .. MaxConns
  BY DEF NetTyped, TablesTyped
<1>2. sockets[i].conn \in Nat /\ sockets[i].conn <= conns
  BY <1>1, GoodFact DEF PortsOK
<1>3. QED
  BY <1>1, <1>2, Consts

LEMMA ChainStays ==
  ASSUME ChainOK, \A c \in 1 .. MaxConns : ChainOf(c) => ChainOf(c)',
         conns \in Nat, conns' \in Nat, conns <= conns', UNCHANGED flow, \A x \in syns : x \in syns',
         \A d \in Desc : descs'[d].kind = "tcp" => descs'[d] = descs[d]
  PROVE  ChainOK'
<1>1. \A d \in Desc : descs'[d].kind = "tcp" => <<descs'[d].port, descs'[d].from, descs'[d].conn>> \in syns'
  <2>1. \A d \in Desc : descs[d].kind = "tcp" => <<descs[d].port, descs[d].from, descs[d].conn>> \in syns
    BY DEF ChainOK
  <2>2. QED
    BY <2>1
<1>2. \A c \in 1 .. MaxConns : ChainOf(c)'
  BY DEF ChainOK
<1>3. \A c \in 1 .. MaxConns : c > conns' => ~flow'[c].open /\ flow'[c].sent = 0
  <2>1. \A c \in 1 .. MaxConns : c > conns => ~flow[c].open /\ flow[c].sent = 0
    BY DEF ChainOK
  <2>2. \A c \in 1 .. MaxConns : c > conns' => c > conns
    OBVIOUS
  <2>3. QED
    BY <2>1, <2>2
<1>4. QED
  BY <1>1, <1>2, <1>3 DEF ChainOK

\* A step that leaves every stream alone.
LEMMA QuietStep ==
  ASSUME NetTyped, NetTyped', PortsOK, SlotsOK, \A c \in 1 .. MaxConns : Kept(c),
         \A i \in Slot : Quiet(sockets[i], sockets'[i]), \A x \in Asked' : x \in Asked,
         \A i \in Slot : sockets'[i].tcp_state = ESTABLISHED /\ Finishing(i) => Finishing(i)',
         \A i \in Slot : On(FinCall("fin", i))' => On(FinCall("fin", i))
  PROVE  SlotsOK'
<1> SUFFICES ASSUME NEW i \in Slot, NEW t, t = sockets'[i] PROVE SlotOK(i, t)'
  BY DEF SlotsOK
<1>1. PICK s : s = sockets[i]
  OBVIOUS
<1>2. SlotOK(i, s) /\ Quiet(s, t) /\ s \in GoodSocks /\ t \in GoodSocks
  BY <1>1 DEF SlotsOK, NetTyped
<1>3. s.conn # 0 => s.conn \in 1 .. MaxConns
  BY <1>1, ConnRange
<1>4. s.conn # 0 => flow[s.conn].sent \in Nat /\ flow'[s.conn].sent \in Nat /\ Kept(s.conn)
  BY <1>3 DEF NetTyped, TablesTyped
<1>5. s.conn # 0 => flow[s.conn].sent <= flow'[s.conn].sent
  BY <1>4 DEF Kept
<1>6. t.tcp_state \in {SYN_SENT, ESTABLISHED} => s.conn # 0
  BY <1>2 DEF SlotOK, Quiet, Steady
<1>7. t.tcp_state = SYN_SENT /\ Waits(s.conn) => Waits(s.conn)'
  BY <1>4, <1>6 DEF Kept
<1>8. t.tcp_state = ESTABLISHED /\ Reach(t)' => Reach(s) /\ \A n : Due(s.conn, n) => Due(s.conn, n)'
  <2>1. Reach(t)' => Reach(s)
    BY <1>2 DEF Reach, Quiet, Steady
  <2>2. QED
    BY <1>4, <1>6, <2>1 DEF Kept
<1>9. QED
  BY <1>1, <1>2, <1>4, <1>5, <1>7, <1>8, SlotQuiet DEF Quiet

LEMMA SlotIsQuiet ==
  ASSUME NetTyped, NEW i \in Slot, NEW t, Quiet(sockets[i], t), sockets' = [sockets EXCEPT ![i] = t]
  PROVE  \A j \in Slot : Quiet(sockets[j], sockets'[j])
<1>1. \A j \in Slot : Quiet(sockets[j], sockets[j])
  BY Quiets DEF NetTyped
<1>2. \A j \in Slot : sockets'[j] = IF j = i THEN t ELSE sockets[j]
  BY DEF NetTyped
<1>3. QED
  BY <1>1, <1>2, Zenon

LEMMA AllQuiet ==
  ASSUME NetTyped, UNCHANGED sockets
  PROVE  \A j \in Slot : Quiet(sockets[j], sockets'[j])
BY Quiets DEF NetTyped

LEMMA KernelQuiet ==
  ASSUME NetTyped, Kernel, ~PollRx, ~FinInput
  PROVE  \A j \in Slot : Quiet(sockets[j], sockets'[j])
<1>0. \A j \in Slot : sockets[j] \in GoodSocks
  BY DEF NetTyped
<1>1. CASE SendPacket \/ Resolve \/ PolledRx \/ IrqReturn \/ ConnectLooks \/ AcceptWaits
           \/ SendtoChunk \/ RecvLooks \/ SysPollWaits
  <2>1. UNCHANGED sockets
    BY <1>1 DEF SendPacket, Resolve, PolledRx, IrqReturn, ConnectLooks, AcceptWaits, SendtoChunk,
                RecvLooks, SysPollWaits
  <2>2. QED
    BY <2>1, AllQuiet
<1>2. CASE Closed
  <2>1. /\ stack # << >> /\ Top.at = "close"
        /\ sockets' = [sockets EXCEPT ![Top.slot] = sock_close(sockets[Top.slot], Top.fin)]
    BY <1>2 DEF Closed, At
  <2>2. Top.fin \in BOOLEAN
    BY <2>1, TopFacts DEF CloseCalls
  <2>3. Top.slot \in Slot /\ Quiet(sockets[Top.slot], sock_close(sockets[Top.slot], Top.fin))
    BY <2>1, <2>2, TopSlot, Quiets
  <2>4. QED
    BY <2>1, <2>3, SlotIsQuiet
<1>3. CASE IcmpInput
  <2>1. sockets' = socket_icmp_input(sockets, Top.from, MAX_SOCKETS)
    BY <1>3 DEF IcmpInput
  <2>2. ASSUME NEW j \in Slot PROVE Quiet(sockets[j], sockets'[j])
    <3>1. Quiet(sockets[j], sockets[j]) /\ Quiet(sockets[j], queued(sockets[j]))
      BY <1>0, Quiets
    <3>2. sockets'[j] = queued(sockets[j]) \/ sockets'[j] = sockets[j]
      BY <2>1 DEF socket_icmp_input
    <3>3. QED
      BY <3>1, <3>2
  <2>3. QED
    BY <2>2
<1>5. CASE FinSent
  <2>1. stack # << >> /\ Top.at = "fin_sent" /\ sockets' = [sockets EXCEPT ![Top.slot] = fin_state(sockets[Top.slot])]
    BY <1>5 DEF FinSent, At
  <2>2. Top.slot \in Slot /\ Quiet(sockets[Top.slot], fin_state(sockets[Top.slot]))
    BY <2>1, TopSlot, Quiets
  <2>3. QED
    BY <2>1, <2>2, SlotIsQuiet
<1>6. CASE ConnectWaits
  <2>1. /\ stack # << >> /\ Top.at = "connect"
        /\ UNCHANGED sockets \/ sockets' = [sockets EXCEPT ![Top.slot] = timed_out(sockets[Top.slot])]
    BY <1>6, Zenon DEF ConnectWaits, At
  <2>2. Top.slot \in Slot /\ Quiet(sockets[Top.slot], timed_out(sockets[Top.slot]))
    BY <2>1, TopSlot, Quiets
  <2>3. QED
    BY <2>1, <2>2, SlotIsQuiet, AllQuiet
<1>7. CASE RecvWaits
  <2>1. /\ stack # << >> /\ Top.at = "recv"
        /\ UNCHANGED sockets \/ sockets' = [sockets EXCEPT ![Top.slot] = received(sockets[Top.slot], Top.n)]
    BY <1>7, Zenon DEF RecvWaits, At
  <2>2. Top.n \in Nat
    BY <2>1, TopFacts DEF RecvCalls
  <2>3. Top.slot \in Slot /\ Quiet(sockets[Top.slot], received(sockets[Top.slot], Top.n))
    BY <2>1, <2>2, TopSlot, ReceivedQuiet
  <2>4. QED
    BY <2>1, <2>3, SlotIsQuiet, AllQuiet
<1>8. QED
  BY <1>1, <1>2, <1>3, <1>5, <1>6, <1>7 DEF Kernel

\* Whether a packet is being handled.
LEMMA HandlingBoth ==
  /\ Handling = {} <=> \A c : c.at = "polled" => ~On(c)
  /\ Handling' = {} <=> \A c : c.at = "polled" => ~On(c)'
<1>1. Handling = {} <=> \A c : c.at = "polled" => ~On(c)
  BY DEF Handling, On
<1>2. Handling' = {} <=> \A c : c.at = "polled" => ~On(c)'
  BY DEF Handling, On
<1>3. QED
  BY <1>1, <1>2

LEMMA KernelStack ==
  ASSUME NetTyped, Kernel
  PROVE  /\ stack # << >> /\ Moving /\ Top = stack[1]
         /\ ~PollRx /\ ~FinInput => stack[1].at \notin {"poll", "fin"}
         /\ ~PolledRx => stack[1].at # "polled"
         /\ ~FinSent => stack[1].at # "fin_sent"
<1>1. stack # << >>
  BY DEF Kernel, At, SendPacket, Resolve, PollRx, PolledRx, IcmpInput, FinInput,
       FinSent, IrqReturn, Closed, ConnectWaits, ConnectLooks, AcceptWaits, SendtoChunk, RecvWaits,
       RecvLooks, SysPollWaits
<1>2. Moving /\ Top = stack[1]
  BY <1>1, KernelTyped, TopFacts
<1>3. /\ ~PollRx /\ ~FinInput => Top.at \notin {"poll", "fin"}
      /\ ~PolledRx => Top.at # "polled"
      /\ ~FinSent => Top.at # "fin_sent"
  BY DEF Kernel, At, SendPacket, Resolve, PollRx, PolledRx, IcmpInput, FinInput,
       FinSent, IrqReturn, Closed, ConnectWaits, ConnectLooks, AcceptWaits, SendtoChunk, RecvWaits,
       RecvLooks, SysPollWaits
<1>4. QED
  BY <1>1, <1>2, <1>3

LEMMA KernelTables ==
  ASSUME NetTyped, Kernel
  PROVE  /\ UNCHANGED <<flow, conns, reused>> /\ \A x \in syns : x \in syns'
         /\ ~PolledRx => UNCHANGED <<descs, s_rx_cur>>
<1>1. CASE SendPacket \/ Resolve
  <2>1. UNCHANGED <<flow, conns, reused, descs, s_rx_cur>>
    BY <1>1 DEF SendPacket, Resolve, userVars, cardVars
  <2>2. UNCHANGED syns \/ Transmit(Top.syn)
    BY <1>1 DEF SendPacket, Resolve
  <2>3. QED
    BY <2>1, <2>2 DEF Transmit
<1>2. CASE PollRx
  BY <1>2, Zenon DEF PollRx, userVars, cardVars, hostVars
<1>3. CASE PolledRx
  BY <1>3, Zenon DEF PolledRx, userVars, hostVars
<1>4. CASE ~SendPacket /\ ~Resolve /\ ~PollRx /\ ~PolledRx
  <2>1. SocketStep
    BY <1>4 DEF Kernel, IcmpInput, FinInput,
       FinSent, IrqReturn, Closed, ConnectWaits, ConnectLooks, AcceptWaits, SendtoChunk, RecvWaits,
       RecvLooks, SysPollWaits
  <2>2. QED
    BY <2>1, Zenon DEF SocketStep, userVars, cardVars, hostVars
<1>5. QED
  BY <1>1, <1>2, <1>3, <1>4

LEMMA FinCallFacts ==
  ASSUME NEW i
  PROVE  /\ FinCall("fin", i).at = "fin" /\ FinCall("fin_sent", i).at = "fin_sent"
         /\ FinCall("fin", i).slot = i /\ FinCall("fin_sent", i).slot = i
BY DEF FinCall

LEMMA StreamsQuiet ==
  ASSUME NetTyped, StackOK, RingOK, PortsOK, ChainOK, SlotsOK, ~reentered, Kernel, ~PollRx, ~FinInput
  PROVE  ChainOK' /\ SlotsOK'
<1>0. /\ stack # << >> /\ Moving /\ Top = stack[1] /\ stack[1].at \notin {"poll", "fin"}
      /\ ~PolledRx => stack[1].at # "polled"
      /\ ~FinSent => stack[1].at # "fin_sent"
      /\ NetTyped'
  BY KernelStack, KernelTyped
<1>1. ASSUME NEW c, c.at \in RxKinds PROVE (On(c)' => On(c)) /\ (c # stack[1] /\ On(c) => On(c)')
  BY <1>0, <1>1, OnMoving
<1>2. /\ UNCHANGED <<flow, conns>> /\ \A x \in syns : x \in syns'
      /\ ~PolledRx => UNCHANGED <<descs, s_rx_cur>>
  BY KernelTables
<1>3. \A c \in 1 .. MaxConns : Kept(c)
  <2>1. CASE PolledRx
    BY <2>1, NetPolled
  <2>2. CASE ~PolledRx
    <3>1. ASSUME NEW c, c.at = "polled" PROVE On(c)' <=> On(c)
      BY <1>0, <1>1, <2>2, <3>1 DEF RxKinds
    <3>2. Handling' = {} <=> Handling = {}
      BY <3>1, HandlingBoth, Zenon
    <3>3. QED
      BY <1>2, <2>2, <3>2, NetQuiet
  <2>3. QED
    BY <2>1, <2>2
<1>4. \A d \in Desc : descs'[d].kind = "tcp" => descs'[d] = descs[d]
  <2>1. CASE PolledRx
    <3>1. descs' = [descs EXCEPT ![Top.cur] = NoFrame] /\ descs \in [Desc -> Frames]
      BY <2>1 DEF PolledRx, NetTyped, TablesTyped
    <3>2. QED
      BY <3>1 DEF NoFrame
  <2>2. QED
    BY <1>2, <2>1
<1>5. ChainOK'
  <2>1. \A c \in 1 .. MaxConns : ChainOf(c) => ChainOf(c)'
    BY <1>3 DEF Kept
  <2>2. conns \in Nat
    BY DEF NetTyped, TablesTyped
  <2>3. conns' \in Nat /\ conns <= conns'
    BY <1>2, <2>2
  <2>4. QED
    BY <1>2, <1>4, <2>1, <2>2, <2>3, ChainStays
<1>6. ASSUME NEW i \in Slot, sockets'[i].tcp_state = ESTABLISHED, Finishing(i) PROVE Finishing(i)'
  <2>1. FinCall("fin", i).at = "fin" /\ FinCall("fin_sent", i).at = "fin_sent" /\ FinCall("fin_sent", i).slot = i
    BY FinCallFacts
  <2>2. On(FinCall("fin", i)) => On(FinCall("fin", i))'
    BY <1>0, <1>1, <2>1 DEF RxKinds
  <2>3. FinCall("fin_sent", i) # stack[1]
    <3>1. CASE ~FinSent
      BY <1>0, <2>1, <3>1
    <3>2. CASE FinSent /\ FinCall("fin_sent", i) = stack[1]
      <4>1. Top.slot = i
        BY <1>0, <2>1, <3>2
      <4>2. sockets' = [sockets EXCEPT ![i] = fin_state(sockets[i])]
        BY <3>2, <4>1 DEF FinSent
      <4>3. sockets'[i] = fin_state(sockets[i]) /\ sockets[i] \in Socks
        BY <4>2, GoodFact DEF NetTyped
      <4>4. fin_state(sockets[i]).tcp_state # ESTABLISHED
        BY <4>3 DEF fin_state, Socks, ESTABLISHED, CLOSE_WAIT
      <4>5. QED
        BY <1>6, <4>3, <4>4
    <3>3. QED
      BY <3>1, <3>2
  <2>4. On(FinCall("fin_sent", i)) => On(FinCall("fin_sent", i))'
    BY <1>1, <2>1, <2>3 DEF RxKinds
  <2>5. QED
    BY <1>6, <2>2, <2>4 DEF Finishing
<1>7. \A i \in Slot : On(FinCall("fin", i))' => On(FinCall("fin", i))
  BY <1>1, FinCallFacts DEF RxKinds
<1>8. \A j \in Slot : Quiet(sockets[j], sockets'[j])
  BY KernelQuiet
<1>9. \A x \in Asked' : x \in Asked
  BY AskedKernel
<1>10. SlotsOK'
  BY <1>0, <1>3, <1>6, <1>7, <1>8, <1>9, QuietStep
<1>11. QED
  BY <1>5, <1>10

---------------------------------------------------------------------------
(* A FIN is noted *)

LEMMA FinsUnique ==
  /\ FinsOK /\ ~reentered => \A c, e : On(c) /\ On(e) /\ c.at \in FinKinds /\ e.at \in FinKinds => c = e
  /\ FinsOK' /\ ~reentered' => \A c, e : On(c)' /\ On(e)' /\ c.at \in FinKinds /\ e.at \in FinKinds => c = e
<1>1. FinsOK /\ ~reentered => \A c, e : On(c) /\ On(e) /\ c.at \in FinKinds /\ e.at \in FinKinds => c = e
  BY DEF FinsOK, On
<1>2. FinsOK' /\ ~reentered' => \A c, e : On(c)' /\ On(e)' /\ c.at \in FinKinds /\ e.at \in FinKinds => c = e
  BY DEF FinsOK, On
<1>3. QED
  BY <1>1, <1>2

LEMMA OnFin ==
  ASSUME NetTyped, FinInput, NEW i, i = Top.slot
  PROVE  /\ stack # << >> /\ Top = stack[1] /\ Top = FinCall("fin", i) /\ On(Top)
         /\ On(FinCall("fin_sent", i))'
         /\ \A c : c.at = "polled" => (On(c)' <=> On(c))
<1> DEFINE g == Send(sockets[i].remote_ip)
           f == FinCall("fin_sent", i)
           pre == <<g>> \o <<f>>
<1>1. stack # << >> /\ Top.at = "fin" /\ Call(<<g>>, f)
  BY DEF FinInput, At, FinCall
<1>2. i \in Slot /\ sockets[i] \in GoodSocks /\ Top = stack[1] /\ stack \in Seq(Calls) /\ Top \in FinCalls
  BY <1>1, TopSlot, TopFacts
<1>3. g \in Calls /\ g.at = "send" /\ f \in Calls /\ f.at = "fin_sent"
  BY <1>2, GoodFact, MadeCalls DEF Send, FinCall
<1>4. Top = FinCall("fin", i)
  BY <1>1, <1>2 DEF FinCalls, FinCall
<1>5. On(Top)
  BY <1>1, <1>2, OnFact
<1> HIDE DEF g, f
<1>6. Spliced(stack, stack', pre, 1) /\ pre \in Seq(Calls)
  <2> DEFINE gs == <<g>>
  <2>1. gs \in Seq(Calls)
    BY <1>3
  <2>2. stack' = gs \o <<f>> \o Tail(stack)
    BY <1>1 DEF Call
  <2> HIDE DEF gs
  <2>3. Spliced(stack, stack', gs \o <<f>>, 1) /\ gs \o <<f>> \in Seq(Calls)
    BY <1>1, <1>2, <1>3, <2>1, <2>2, StackForms
  <2>4. QED
    BY <2>3 DEF gs
<1>7. Len(pre) = 2 /\ pre[1] = g /\ pre[2] = f
  BY <1>3
<1> HIDE DEF pre
<1>8. 1 \in 0 .. 2 /\ 1 <= Len(stack)
  BY <1>1, TopFacts
<1>9. \A c : /\ On(c)' => On(c) \/ \E j \in 1 .. Len(pre) : pre[j] = c
             /\ On(c) => On(c)' \/ \E j \in 1 .. 1 : stack[j] = c
             /\ (\E j \in 1 .. Len(pre) : pre[j] = c) => On(c)'
  BY <1>6, <1>8, OnSpliced
<1>10. ASSUME NEW c, c.at = "polled" PROVE On(c)' <=> On(c)
  <2>1. \A j \in 1 .. Len(pre) : pre[j] # c
    BY <1>3, <1>7, <1>10
  <2>2. \A j \in 1 .. 1 : stack[j] # c
    BY <1>1, <1>2, <1>10
  <2>3. QED
    BY <1>9, <2>1, <2>2
<1>11. On(f)'
  <2>1. 2 \in 1 .. Len(pre)
    BY <1>7
  <2>2. QED
    BY <1>7, <1>9, <2>1
<1>12. QED
  BY <1>1, <1>2, <1>4, <1>5, <1>10, <1>11 DEF f

\* A slot that a step leaves alone.
LEMMA SlotStays ==
  ASSUME NetTyped, NetTyped', PortsOK, SlotsOK, NEW i \in Slot, NEW s, s = sockets[i], sockets'[i] = s,
         s.conn # 0 => flow[s.conn].sent <= flow'[s.conn].sent,
         s.tcp_state = SYN_SENT /\ s.ref_count # 0 /\ Waits(s.conn) => Waits(s.conn)',
         s.tcp_state = ESTABLISHED /\ s.ref_count # 0 /\ Reach(s)' =>
           Reach(s) /\ \A n : Due(s.conn, n) => Due(s.conn, n)',
         s.tcp_state = ESTABLISHED /\ Finishing(i) => Finishing(i)',
         On(FinCall("fin", i))' => On(FinCall("fin", i))
  PROVE  SlotOK(i, s)'
<1>1. SlotOK(i, s) /\ s \in GoodSocks
  BY DEF SlotsOK, NetTyped
<1>2. Quiet(s, s)
  BY <1>1, Quiets
<1>3. s.conn # 0 => s.conn \in 1 .. MaxConns
  BY ConnRange
<1>4. s.conn # 0 => flow[s.conn].sent \in Nat /\ flow'[s.conn].sent \in Nat
  BY <1>3 DEF NetTyped, TablesTyped
<1>5. QED
  BY <1>1, <1>2, <1>4, SlotQuiet DEF Quiet

LEMMA SlotSet ==
  ASSUME \A i \in Slot : \A s : s = sockets'[i] => SlotOK(i, s)'
  PROVE  SlotsOK'
BY DEF SlotsOK

LEMMA FinFields ==
  ASSUME NEW s \in GoodSocks, NEW t, t = fin_input(s)
  PROVE  /\ t.conn = s.conn /\ StreamOf(t) = StreamOf(s) /\ t.remote_seq = s.remote_seq + 1
         /\ t.fin_received = TRUE /\ t.local_port = s.local_port /\ t.ref_count = s.ref_count
         /\ t.tcp_state = s.tcp_state
<1> DEFINE q == s.remote_seq + 1
<1>1. s \in Socks
  BY GoodFact
<1>2. t = [s EXCEPT !.fin_received = TRUE, !.remote_seq = q]
  BY Zenon DEF fin_input
<1> HIDE DEF q
<1>3. /\ t.conn = s.conn /\ t.remote_seq = q /\ t.rx = s.rx /\ t.got = s.got
      /\ t.fin_received = TRUE /\ t.local_port = s.local_port /\ t.ref_count = s.ref_count
      /\ t.tcp_state = s.tcp_state
  BY <1>1, <1>2 DEF Socks
<1>4. QED
  BY <1>3 DEF q, StreamOf

LEMMA StreamsFin ==
  ASSUME NetTyped, StackOK, PortsOK, FinsOK, ChainOK, SlotsOK, ~reentered, FinInput
  PROVE  ChainOK' /\ SlotsOK'
<1>1. PICK i : i = Top.slot
  OBVIOUS
<1>2. /\ Top = FinCall("fin", i) /\ On(Top) /\ On(FinCall("fin_sent", i))'
      /\ \A c : c.at = "polled" => (On(c)' <=> On(c))
  BY <1>1, OnFin
<1>3. Kernel /\ ~PollRx /\ ~PolledRx /\ NetTyped' /\ UNCHANGED reentered
  <2>1. Kernel
    BY DEF Kernel
  <2>2. Top.at = "fin"
    BY DEF FinInput, At
  <2>3. ~PollRx /\ ~PolledRx
    BY <2>2 DEF PollRx, PolledRx, At
  <2>4. UNCHANGED reentered
    BY DEF FinInput, SocketStep
  <2>5. QED
    BY <2>1, <2>3, <2>4, KernelTyped
<1>4. UNCHANGED <<flow, conns, descs, s_rx_cur>> /\ \A x \in syns : x \in syns'
  BY <1>3, KernelTables
<1>5. FinsOK'
  BY <1>3, FinsKept DEF Whole
<1>6. \A j : ~On(FinCall("fin", j))'
  <2>1. \A j : FinCall("fin", j) # FinCall("fin_sent", i)
    BY FinCallFacts, Zenon
  <2>2. QED
    BY <1>2, <1>3, <1>5, <2>1, FinsUnique, FinCallFacts DEF FinKinds
<1>7. \A j : j # i => ~Finishing(j)
  <2>1. \A j : j # i => FinCall("fin", j) # Top /\ FinCall("fin_sent", j) # Top
    BY <1>2, FinCallFacts
  <2>2. Top.at \in FinKinds
    BY <1>2, FinCallFacts DEF FinKinds
  <2>3. \A j : FinCall("fin", j).at \in FinKinds /\ FinCall("fin_sent", j).at \in FinKinds
    BY FinCallFacts DEF FinKinds
  <2>4. QED
    BY <1>2, <2>1, <2>2, <2>3, FinsUnique DEF Finishing
<1>8. Finishing(i)'
  BY <1>2 DEF Finishing
<1>9. \A c \in 1 .. MaxConns : Kept(c)
  <2>1. Handling' = {} <=> Handling = {}
    BY <1>2, HandlingBoth, Zenon
  <2>2. QED
    BY <1>4, <2>1, NetQuiet
<1>10. ChainOK'
  <2>1. \A c \in 1 .. MaxConns : ChainOf(c) => ChainOf(c)'
    BY <1>9 DEF Kept
  <2>2. conns \in Nat
    BY DEF NetTyped, TablesTyped
  <2>3. conns' \in Nat /\ conns <= conns'
    BY <1>4, <2>2
  <2>4. QED
    BY <1>4, <2>1, <2>2, <2>3, ChainStays
<1>11. \A x \in Asked' : x \in Asked
  BY <1>3, AskedKernel
<1>12. i \in Slot /\ sockets' = [sockets EXCEPT ![i] = fin_input(sockets[i])]
  <2>1. stack # << >> /\ Top.at = "fin"
    BY DEF FinInput, At
  <2>2. QED
    BY <1>1, <2>1, TopSlot DEF FinInput
<1>13. \A j \in Slot : sockets'[j] = IF j = i THEN fin_input(sockets[i]) ELSE sockets[j]
  BY <1>12 DEF NetTyped
<1>14. ASSUME NEW j \in Slot, j # i, NEW s, s = sockets'[j] PROVE SlotOK(j, s)'
  <2>1. s = sockets[j]
    BY <1>13, <1>14
  <2>2. s.conn # 0 => Kept(s.conn)
    BY <1>9, <2>1, ConnRange
  <2>3. s.tcp_state \in {SYN_SENT, ESTABLISHED} => s.conn # 0
    BY <2>1 DEF SlotsOK, SlotOK
  <2>4. s.conn # 0 => flow[s.conn].sent <= flow'[s.conn].sent
    BY <2>2 DEF Kept
  <2>5. s.tcp_state = SYN_SENT /\ Waits(s.conn) => Waits(s.conn)'
    BY <2>2, <2>3 DEF Kept
  <2>6. s.tcp_state = ESTABLISHED /\ Reach(s)' => Reach(s) /\ \A n : Due(s.conn, n) => Due(s.conn, n)'
    BY <1>11, <2>2, <2>3 DEF Kept, Reach
  <2>7. QED
    BY <1>3, <1>6, <1>7, <1>14, <2>1, <2>4, <2>5, <2>6, SlotStays
<1>15. ASSUME NEW t, t = sockets'[i] PROVE SlotOK(i, t)'
  <2>1. PICK s : s = sockets[i]
    OBVIOUS
  <2>2. SlotOK(i, s) /\ s \in GoodSocks
    BY <1>12, <2>1 DEF SlotsOK, NetTyped
  <2>3. t = fin_input(s)
    BY <1>12, <1>13, <1>15, <2>1
  <2>4. /\ t.conn = s.conn /\ StreamOf(t) = StreamOf(s) /\ t.remote_seq = s.remote_seq + 1
        /\ t.fin_received = TRUE /\ t.local_port = s.local_port /\ t.ref_count = s.ref_count
        /\ t.tcp_state = s.tcp_state
    BY <2>2, <2>3, FinFields
  <2>5. On(FinCall("fin", i))
    BY <1>2
  <2>6. s.tcp_state # SYN_SENT
    BY <2>2, <2>5 DEF SlotOK
  <2>7. t.conn = 0 => StreamOf(t) = << >> /\ t.tcp_state \notin {SYN_SENT, ESTABLISHED}
    BY <2>2, <2>4 DEF SlotOK
  <2>8. t.ref_count # 0 => t.tcp_state # FIN_WAIT1
    BY <2>2, <2>4 DEF SlotOK
  <2>9. ASSUME t.conn # 0 PROVE BytesOK(t, t.conn)'
    <3>1. BytesOK(s, s.conn) /\ s.remote_seq <= flow[s.conn].sent
      BY <2>2, <2>4, <2>5, <2>9 DEF SlotOK
    <3>2. s.conn \in 1 .. MaxConns
      BY <1>12, <2>1, <2>4, <2>9, ConnRange
    <3>3. flow[s.conn].sent \in Nat /\ s.remote_seq \in Nat /\ Len(StreamOf(s)) \in Nat
      BY <2>2, <3>2, FlowNat, GoodFact, StreamFact
    <3>4. t.remote_seq <= flow[s.conn].sent + 1 /\ Len(StreamOf(s)) <= t.remote_seq
      <4>1. Len(StreamOf(s)) <= s.remote_seq
        BY <3>1 DEF BytesOK
      <4>2. QED
        BY <2>4, <3>1, <3>3, <4>1
    <3>5. \A k \in 1 .. Len(StreamOf(s)) : StreamOf(s)[k] = <<s.conn, k>>
      BY <3>1 DEF BytesOK
    <3>6. QED
      BY <1>4, <2>4, <3>4, <3>5 DEF BytesOK
  <2>10. t.tcp_state = ESTABLISHED /\ t.ref_count # 0 /\ Reach(t)' => Due(t.conn, Len(StreamOf(t)))'
    <3>1. Reach(t)' => Reach(s)
      BY <1>11, <2>4 DEF Reach
    <3>2. t.tcp_state = ESTABLISHED => s.conn \in 1 .. MaxConns
      BY <1>12, <2>1, <2>2, <2>4, ConnRange DEF SlotOK
    <3>3. t.tcp_state = ESTABLISHED => \A n : Due(s.conn, n) => Due(s.conn, n)'
      BY <1>9, <3>2 DEF Kept
    <3>4. QED
      BY <2>2, <2>4, <3>1, <3>3 DEF SlotOK
  <2>11. QED
    BY <1>6, <1>8, <2>4, <2>6, <2>7, <2>8, <2>9, <2>10, Zenon DEF SlotOK
<1>16. SlotsOK'
  BY <1>14, <1>15, SlotSet
<1>17. QED
  BY <1>10, <1>16

---------------------------------------------------------------------------
(* A packet is received *)

LEMMA NoFinCalls ==
  ASSUME NetTyped, StackOK, Handling = {}
  PROVE  \A i : ~On(FinCall("fin", i)) /\ ~On(FinCall("fin_sent", i)) /\ ~Finishing(i)
<1>1. \A i \in 1 .. Len(stack) : stack[i].at \notin FinKinds
  BY NoFins
<1>2. \A c : On(c) => \E k \in 1 .. Len(stack) : stack[k] = c
  BY OnFact DEF NetTyped
<1>3. \A c : On(c) => c.at \notin FinKinds
  BY <1>1, <1>2
<1>4. \A i : ~On(FinCall("fin", i)) /\ ~On(FinCall("fin_sent", i))
  BY <1>3, FinCallFacts DEF FinKinds
<1>5. QED
  BY <1>4 DEF Finishing

\* The packet that is next is of the connection of the socket that it is for.
LEMMA Meant ==
  ASSUME NetTyped, PortsOK, NamesOK, ChainOK, NEW f, f = descs[s_rx_cur], f.kind = "tcp"
  PROVE  /\ Matches(f) => /\ sockets[Target(f)].conn = f.conn /\ Reach(sockets[Target(f)])
         /\ \A j \in Slot : sockets[j].ref_count # 0 /\ sockets[j].conn = f.conn /\ Reach(sockets[j]) =>
              Matches(f) /\ j = Target(f)
<1>1. s_rx_cur \in Desc /\ f \in Segments
  BY FrameKinds DEF NetTyped, TablesTyped
<1>2. PICK x : x = <<f.port, f.from, f.conn>>
  OBVIOUS
<1>3. x \in Asked /\ x[1] = f.port /\ x[2] = f.from /\ x[3] = f.conn
  <2>1. x \in syns
    BY <1>1, <1>2 DEF ChainOK
  <2>2. QED
    BY <1>2, <2>1 DEF Asked
<1>4. \A j \in Slot : sockets[j].ref_count # 0 => sockets[j].born # 0
  BY DEF PortsOK
<1>5. ASSUME Matches(f) PROVE sockets[Target(f)].conn = f.conn /\ Reach(sockets[Target(f)])
  <2>1. PICK i : i = Target(f)
    OBVIOUS
  <2>2. i \in Slot /\ sockets[i].ref_count # 0 /\ sockets[i].local_port = f.port
    BY <1>5, <2>1, TargetFact
  <2>3. sockets[i].conn = f.conn
    BY <1>3, <1>4, <2>2 DEF NamesOK
  <2>4. Reach(sockets[i])
    BY <1>3, <2>2 DEF Reach
  <2>5. QED
    BY <2>1, <2>3, <2>4
<1>6. ASSUME NEW j \in Slot, sockets[j].ref_count # 0, sockets[j].conn = f.conn, Reach(sockets[j])
      PROVE  Matches(f) /\ j = Target(f)
  <2>1. PICK y \in Asked : y[1] = sockets[j].local_port
    BY <1>6 DEF Reach
  <2>2. sockets[j].conn = y[3] /\ sockets[j].remote_ip = y[2]
    BY <1>4, <1>6, <2>1 DEF NamesOK
  <2>3. y = x
    BY <1>3, <1>6, <2>1, <2>2 DEF NamesOK
  <2>4. sockets[j].local_port = f.port /\ sockets[j].remote_ip = f.from
    BY <1>3, <2>1, <2>2, <2>3
  <2>5. sockets[j].type = STREAM
    <3>1. f.conn # 0
      BY <1>1 DEF Segments
    <3>2. QED
      BY <1>6, <3>1 DEF PortsOK
  <2>6. j \in tcp_match(sockets, f)
    BY <1>6, <2>4, <2>5 DEF tcp_match
  <2>7. Matches(f)
    BY <2>6 DEF Matches
  <2>8. Target(f) \in Slot /\ sockets[Target(f)].ref_count # 0 /\ sockets[Target(f)].local_port = f.port
    BY <2>7, TargetFact
  <2>9. QED
    BY <1>4, <1>6, <2>4, <2>7, <2>8 DEF NamesOK
<1>7. QED
  BY <1>5, <1>6

LEMMA JoinStream ==
  ASSUME NEW a \in Seq(Items), NEW b \in Seq(Items), NEW c, NEW m \in Nat, Len(b) = m,
         \A k \in 1 .. Len(a) : a[k] = <<c, k>>, \A k \in 1 .. m : b[k] = <<c, Len(a) + k>>
  PROVE  Len(a \o b) = Len(a) + m /\ \A k \in 1 .. Len(a) + m : (a \o b)[k] = <<c, k>>
<1>1. PICK n \in Nat : n = Len(a)
  OBVIOUS
<1>2. PICK u : u = a \o b
  OBVIOUS
<1>3. Len(u) = n + m /\ \A k \in 1 .. n + m : u[k] = IF k <= n THEN a[k] ELSE b[k - n]
  BY <1>1, <1>2, ConcatProperties
<1>4. ASSUME NEW k \in 1 .. n + m PROVE u[k] = <<c, k>>
  <2>1. CASE k <= n
    <3>1. k \in 1 .. n
      BY <2>1
    <3>2. QED
      BY <1>1, <1>3, <2>1, <3>1
  <2>2. CASE ~(k <= n)
    <3>1. k - n \in 1 .. m /\ n + (k - n) = k
      BY <2>2
    <3>2. u[k] = b[k - n] /\ b[k - n] = <<c, n + (k - n)>>
      BY <1>1, <1>3, <2>2, <3>1
    <3>3. QED
      BY <3>1, <3>2
  <2>3. QED
    BY <2>1, <2>2
<1>5. QED
  BY <1>1, <1>2, <1>3, <1>4

\* What is stored goes on where the stream ends.
LEMMA StoredFields ==
  ASSUME NEW s \in GoodSocks, NEW f \in Segments, f.len <= Room(s), NEW t, t = stored(s, f),
         f.first = Len(StreamOf(s)) + 1,
         \A k \in 1 .. Len(StreamOf(s)) : StreamOf(s)[k] = <<f.conn, k>>
  PROVE  /\ t.conn = s.conn /\ t.remote_seq = s.remote_seq + f.len
         /\ t.fin_received = s.fin_received /\ t.local_port = s.local_port /\ t.ref_count = s.ref_count
         /\ t.tcp_state = s.tcp_state
         /\ Len(StreamOf(t)) = Len(StreamOf(s)) + f.len
         /\ \A k \in 1 .. Len(StreamOf(t)) : StreamOf(t)[k] = <<f.conn, k>>
<1>0. s \in Socks /\ s.rx \in Seq(Items) /\ s.got \in Seq(Items) /\ Len(s.rx) \in Nat /\ s.remote_seq \in Nat
  BY GoodFact
<1>1. /\ f.len \in Nat /\ f.conn \in Nat /\ f.first \in Nat /\ Bytes(f) \in Seq(Items) /\ Len(Bytes(f)) = f.len
      /\ \A k \in 1 .. f.len : Bytes(f)[k] = <<f.conn, f.first + k - 1>>
  BY BytesFact
<1>2. SubSeq(Bytes(f), 1, Lesser(f.len, Room(s))) = Bytes(f)
  <2>1. Room(s) \in Int
    BY <1>0, Consts DEF Room
  <2>2. Lesser(f.len, Room(s)) = Len(Bytes(f))
    BY <1>1, <2>1 DEF Lesser
  <2>3. \A u \in Seq(Items) : SubSeq(u, 1, Len(u)) = u
    OBVIOUS
  <2>4. QED
    BY <1>1, <2>2, <2>3
<1> DEFINE r == s.rx \o Bytes(f)
           q == s.remote_seq + f.len
<1>3. t = [s EXCEPT !.rx = r, !.remote_seq = q]
  BY <1>2, Zenon DEF stored
<1>4. r = s.rx \o Bytes(f)
  OBVIOUS
<1> HIDE DEF r, q
<1>5. /\ t.conn = s.conn /\ t.remote_seq = q
      /\ t.fin_received = s.fin_received /\ t.local_port = s.local_port /\ t.ref_count = s.ref_count
      /\ t.tcp_state = s.tcp_state /\ t.rx = r /\ t.got = s.got
  BY <1>0, <1>3 DEF Socks
<1>6. StreamOf(t) = StreamOf(s) \o Bytes(f)
  <2>1. s.got \o (s.rx \o Bytes(f)) = (s.got \o s.rx) \o Bytes(f)
    BY <1>0, <1>1, Join3
  <2>2. QED
    BY <1>4, <1>5, <2>1, Zenon DEF StreamOf
<1>7. \A k \in 1 .. f.len : Bytes(f)[k] = <<f.conn, Len(StreamOf(s)) + k>>
  <2>1. Len(StreamOf(s)) \in Nat
    BY StreamFact
  <2>2. ASSUME NEW k \in 1 .. f.len PROVE f.first + k - 1 = Len(StreamOf(s)) + k
    <3>1. PICK n \in Nat : n = Len(StreamOf(s))
      BY <2>1
    <3>2. f.first = n + 1 /\ k \in Nat
      BY <1>1, <3>1
    <3>3. QED
      BY <3>1, <3>2
  <2>3. QED
    BY <1>1, <2>2
<1>8. StreamOf(s) \in Seq(Items)
  BY StreamFact
<1>9. /\ Len(StreamOf(s) \o Bytes(f)) = Len(StreamOf(s)) + f.len
      /\ \A k \in 1 .. Len(StreamOf(s)) + f.len : (StreamOf(s) \o Bytes(f))[k] = <<f.conn, k>>
  BY <1>1, <1>7, <1>8, JoinStream
<1>10. QED
  BY <1>5, <1>6, <1>9 DEF q

LEMMA TargetRx ==
  ASSUME NEW i, NEW s \in GoodSocks, NEW f \in Segments, SlotOK(i, s), s.conn = f.conn, s.ref_count # 0,
         Reach(s), UNCHANGED flow, flow[f.conn].sent \in Nat, ~Finishing(i), ~Overruns(s, f),
         On(FinCall("fin", i))' => tcp_fin(s, f),
         f.flag # "data" => \A n : Due(f.conn, n) => Due(f.conn, n)',
         f.flag = "data" => \A n : Due(f.conn, n) => f.first = n + 1,
         f.flag = "data" => \A n : n = f.first + f.len - 1 => Due(f.conn, n)' /\ n <= flow[f.conn].sent,
         Waits(f.conn) => f.flag # "data",
         Waits(f.conn) /\ f.flag # "synack" => Waits(f.conn)',
         NEW t, t = tcp_input(s, f)
  PROVE  SlotOK(i, t)'
<1>0. /\ s \in Socks /\ f.conn # 0 /\ ~On(FinCall("fin", i)) /\ f.flag \in {"synack", "rst", "data"}
      /\ f.len \in Nat /\ f.first \in Nat
  BY GoodFact, BytesFact, Consts DEF Finishing, Segments
<1>1. ASSUME Quiet(s, t), t \in GoodSocks, ~tcp_fin(s, f),
             t.tcp_state \in {SYN_SENT, ESTABLISHED} => f.flag # "data",
             t.tcp_state = SYN_SENT => f.flag # "synack"
      PROVE  SlotOK(i, t)'
  <2>1. t.tcp_state = SYN_SENT /\ t.ref_count # 0 /\ Waits(s.conn) => Waits(s.conn)'
    BY <1>1
  <2>2. t.tcp_state = ESTABLISHED /\ t.ref_count # 0 /\ Reach(t)' =>
           Reach(s) /\ \A n : Due(s.conn, n) => Due(s.conn, n)'
    BY <1>1
  <2>3. flow[s.conn].sent \in Nat /\ flow'[s.conn].sent \in Nat /\ flow[s.conn].sent <= flow'[s.conn].sent
    OBVIOUS
  <2>4. QED
    BY <1>1, <2>1, <2>2, <2>3, SlotQuiet DEF Quiet
<1>2. CASE f.flag = "rst"
  <2>1. t = [s EXCEPT !.tcp_state = CLOSED, !.error = 104]
    BY <1>2, Zenon DEF tcp_input
  <2>2. Quiet(s, t) /\ t.tcp_state = CLOSED
    BY <1>0, <2>1, Quiets, ZenonT(40) DEF Socks
  <2>3. t \in GoodSocks /\ ~tcp_fin(s, f)
    BY <1>2, TcpInputGood DEF tcp_fin
  <2>4. CLOSED \notin {SYN_SENT, ESTABLISHED}
    BY DEF CLOSED, SYN_SENT, ESTABLISHED
  <2>5. QED
    BY <1>1, <1>2, <2>2, <2>3, <2>4
<1>3. CASE f.flag = "synack" /\ s.tcp_state = SYN_SENT
  <2>1. t = [s EXCEPT !.tcp_state = ESTABLISHED, !.remote_seq = 0]
    BY <1>3, Zenon DEF tcp_input
  <2>2. /\ t.conn = s.conn /\ t.remote_seq = 0 /\ t.rx = s.rx /\ t.got = s.got
        /\ t.fin_received = s.fin_received /\ t.ref_count = s.ref_count /\ t.tcp_state = ESTABLISHED
    BY <1>0, <2>1 DEF Socks
  <2>3. StreamOf(t) = << >> /\ ~t.fin_received /\ Waits(f.conn)
    BY <1>3, <2>2 DEF SlotOK, StreamOf
  <2>4. Len(StreamOf(t)) = 0 /\ 0 <= flow[f.conn].sent /\ 0 <= 0 /\ \A k \in 1 .. Len(StreamOf(t)) : FALSE
    <3>1. Len(<< >>) = 0 /\ \A k \in 1 .. 0 : FALSE
      OBVIOUS
    <3>2. QED
      BY <2>3, <3>1
  <2>5. Due(f.conn, 0)'
    BY <1>3, <2>3 DEF Waits
  <2>6. ~On(FinCall("fin", i))'
    BY <1>3 DEF tcp_fin
  <2>7. BytesOK(t, t.conn)'
    <3>1. t.remote_seq <= flow[f.conn].sent + 0
      BY <2>2, <2>4
    <3>2. QED
      BY <2>2, <2>3, <2>4, <3>1 DEF BytesOK
  <2>8. ESTABLISHED # SYN_SENT /\ ESTABLISHED # FIN_WAIT1
    BY DEF ESTABLISHED, SYN_SENT, FIN_WAIT1
  <2>9. QED
    BY <1>0, <2>2, <2>3, <2>4, <2>5, <2>6, <2>7, <2>8, Zenon DEF SlotOK
<1>4. CASE f.flag = "synack" /\ s.tcp_state # SYN_SENT
  <2>1. t = s
    BY <1>4, Zenon DEF tcp_input
  <2>2. ~tcp_fin(s, f) /\ Quiet(s, s)
    BY <1>4, Quiets DEF tcp_fin
  <2>3. QED
    BY <1>1, <1>4, <2>1, <2>2
<1>5. CASE f.flag = "data" /\ s.tcp_state = ESTABLISHED
  <2> DEFINE n == Len(StreamOf(s))
             m == n + f.len
  <2>0. s.tcp_state # SYN_SENT /\ s.tcp_state # FIN_WAIT1 /\ Streams(s)
    BY <1>5 DEF ESTABLISHED, SYN_SENT, FIN_WAIT1, Streams
  <2>1. /\ Due(f.conn, n) /\ ~s.fin_received /\ s.remote_seq = n
        /\ \A k \in 1 .. Len(StreamOf(s)) : StreamOf(s)[k] = <<f.conn, k>>
    BY <1>0, <1>5 DEF SlotOK, BytesOK
  <2>2. f.first = n + 1 /\ n \in Nat
    BY <1>5, <2>1, StreamFact
  <2>3. f.first + f.len - 1 = m /\ m \in Nat
    <3> HIDE DEF n
    <3>1. QED
      BY <1>0, <2>2
  <2>4. Due(f.conn, m)' /\ m <= flow[f.conn].sent
    <3>1. PICK k : k = m
      OBVIOUS
    <3>2. Due(f.conn, k)' /\ k <= flow[f.conn].sent
      BY <1>5, <2>3, <3>1
    <3>3. QED
      BY <3>1, <3>2
  <2>5. /\ t.conn = s.conn /\ t.remote_seq = m
        /\ t.fin_received = s.fin_received /\ t.ref_count = s.ref_count /\ t.tcp_state = s.tcp_state
        /\ Len(StreamOf(t)) = m
        /\ \A k \in 1 .. Len(StreamOf(t)) : StreamOf(t)[k] = <<f.conn, k>>
    <3>1. CASE f.len > 0
      <4>1. t = stored(s, f)
        BY <1>5, <2>0, <3>1, Zenon DEF tcp_input
      <4>2. f.len <= Room(s)
        <5>1. ~(f.len > Room(s))
          BY <1>5, <2>0 DEF Overruns
        <5>2. Room(s) \in Int
          BY GoodFact, Consts DEF Room
        <5>3. QED
          BY <1>0, <5>1, <5>2
      <4>3. QED
        BY <2>1, <2>2, <4>1, <4>2, StoredFields
    <3>2. CASE ~(f.len > 0)
      <4>1. t = s
        BY <1>5, <3>2, Zenon DEF tcp_input
      <4>2. m = n
        <5> HIDE DEF n
        <5>1. QED
          BY <1>0, <2>2, <3>2
      <4>3. QED
        BY <2>1, <4>1, <4>2
    <3>3. QED
      BY <3>1, <3>2
  <2> HIDE DEF n, m
  <2>6. t.conn # 0 /\ t.tcp_state = ESTABLISHED /\ t.tcp_state # SYN_SENT /\ t.tcp_state # FIN_WAIT1
        /\ ~t.fin_received
    BY <1>0, <1>5, <2>0, <2>1, <2>5
  <2>7. BytesOK(t, t.conn)'
    <3>1. t.remote_seq <= flow[f.conn].sent + 0 /\ m <= m
      BY <2>3, <2>4, <2>5
    <3>2. QED
      BY <2>5, <2>6, <3>1 DEF BytesOK
  <2>8. Due(t.conn, Len(StreamOf(t)))'
    <3>1. PICK k : k = m
      OBVIOUS
    <3>2. QED
      BY <2>4, <2>5, <3>1
  <2>9. t.remote_seq <= flow'[t.conn].sent /\ t.remote_seq = Len(StreamOf(t))
    BY <2>4, <2>5
  <2>10. QED
    BY <2>6, <2>7, <2>8, <2>9, Zenon DEF SlotOK
<1>6. CASE f.flag = "data" /\ s.tcp_state # ESTABLISHED
  <2>1. s.tcp_state # FIN_WAIT1 /\ s.tcp_state # SYN_SENT
    BY <1>6 DEF SlotOK
  <2>2. ~Streams(s)
    BY <1>6, <2>1 DEF Streams
  <2>3. t = s
    BY <1>6, <2>2, Zenon DEF tcp_input
  <2>4. ~tcp_fin(s, f) /\ Quiet(s, s)
    BY <2>2, Quiets DEF tcp_fin
  <2>5. QED
    BY <1>1, <1>6, <2>1, <2>3, <2>4
<1>7. QED
  BY <1>0, <1>2, <1>3, <1>4, <1>5, <1>6

\* The ring is empty.
LEMMA StreamsIdle ==
  ASSUME NetTyped, PortsOK, ChainOK, SlotsOK, PollRx, descs[s_rx_cur] = NoFrame
  PROVE  ChainOK' /\ SlotsOK'
<1>1. stack # << >> /\ Top.at = "poll" /\ Return /\ UNCHANGED sockets
  BY Zenon DEF PollRx, At
<1>2. Kernel /\ ~PolledRx
  <2>1. ~PolledRx
    BY <1>1 DEF PolledRx, At
  <2>2. QED
    BY <2>1 DEF Kernel
<1>3. stack \in Seq(Calls) /\ stack[1].at = "poll" /\ NetTyped'
  BY <1>1, <1>2, TopFacts, KernelTyped
<1>4. UNCHANGED <<flow, conns, descs, s_rx_cur>> /\ \A x \in syns : x \in syns'
  BY <1>2, KernelTables
<1>5. ASSUME NEW c, c.at # "poll" PROVE On(c)' <=> On(c)
  <2>1. Spliced(stack, stack', << >>, 1)
    BY <1>1, <1>3, StackForms DEF Return
  <2>2. << >> \in Seq(Calls) /\ ~ \E j \in 1 .. Len(<< >>) : << >>[j] = c
    OBVIOUS
  <2>3. 1 \in 0 .. 2 /\ 1 <= Len(stack)
    BY <1>1, TopFacts
  <2>4. /\ On(c)' => On(c) \/ \E j \in 1 .. Len(<< >>) : << >>[j] = c
        /\ On(c) => On(c)' \/ \E j \in 1 .. 1 : stack[j] = c
    BY <2>1, <2>2, <2>3, OnSpliced
  <2>5. ~ \E j \in 1 .. 1 : stack[j] = c
    BY <1>3, <1>5
  <2>6. QED
    BY <2>2, <2>4, <2>5
<1>6. \A c \in 1 .. MaxConns : Kept(c)
  <2>1. \A c : c.at = "polled" => (On(c)' <=> On(c))
    BY <1>5
  <2>2. Handling' = {} <=> Handling = {}
    BY <2>1, HandlingBoth, Zenon
  <2>3. QED
    BY <1>4, <2>2, NetQuiet
<1>7. ChainOK'
  <2>1. \A c \in 1 .. MaxConns : ChainOf(c) => ChainOf(c)'
    BY <1>6 DEF Kept
  <2>2. conns \in Nat
    BY DEF NetTyped, TablesTyped
  <2>3. conns' \in Nat /\ conns <= conns'
    BY <1>4, <2>2
  <2>4. QED
    BY <1>4, <2>1, <2>2, <2>3, ChainStays
<1>8. \A i : (On(FinCall("fin", i))' <=> On(FinCall("fin", i))) /\ (Finishing(i)' <=> Finishing(i))
  <2>1. \A i : (On(FinCall("fin", i))' <=> On(FinCall("fin", i)))
               /\ (On(FinCall("fin_sent", i))' <=> On(FinCall("fin_sent", i)))
    BY <1>5, FinCallFacts
  <2>2. QED
    BY <2>1 DEF Finishing
<1>9. \A j \in Slot : Quiet(sockets[j], sockets'[j])
  BY <1>1, AllQuiet
<1>10. \A x \in Asked' : x \in Asked
  BY <1>2, AskedKernel
<1>11. SlotsOK'
  BY <1>3, <1>6, <1>8, <1>9, <1>10, QuietStep
<1>12. QED
  BY <1>7, <1>11

LEMMA RxOthers ==
  ASSUME NetTyped, NEW f \in Frames, sockets' = rx_sockets(f), NEW j \in Slot, ~(Matches(f) /\ j = Target(f))
  PROVE  Quiet(sockets[j], sockets'[j])
<1>0. \A i \in Slot : sockets[i] \in GoodSocks
  BY DEF NetTyped
<1>1. Quiet(sockets[j], sockets[j]) /\ Quiet(sockets[j], queued(sockets[j]))
  BY <1>0, Quiets
<1>2. CASE f.kind = "udp"
  <2> DEFINE S == udp_match(sockets, f)
             i == First(S)
  <2>0. ~Matches(f)
    BY <1>2 DEF Matches
  <2>1. sockets' = IF S = {} THEN sockets ELSE [sockets EXCEPT ![i] = queued(sockets[i])]
    BY <1>2, <2>0, Zenon DEF rx_sockets, socket_udp_input
  <2> HIDE DEF i, S
  <2>2. sockets'[j] = sockets[j] \/ sockets'[j] = queued(sockets[j])
    BY <2>1 DEF NetTyped
  <2>3. QED
    BY <1>1, <2>2
<1>3. CASE f.kind # "udp" /\ Matches(f)
  <2> DEFINE i == Target(f)
             t == tcp_input(sockets[i], f)
  <2>1. sockets' = [sockets EXCEPT ![i] = t] /\ j # i
    BY <1>3, Zenon DEF rx_sockets
  <2> HIDE DEF i, t
  <2>2. sockets'[j] = sockets[j]
    BY <2>1 DEF NetTyped
  <2>3. QED
    BY <1>1, <2>2
<1>4. CASE f.kind # "udp" /\ ~Matches(f)
  <2>1. sockets' = sockets
    BY <1>4, Zenon DEF rx_sockets
  <2>2. QED
    BY <1>1, <2>1
<1>5. QED
  BY <1>2, <1>3, <1>4

LEMMA StreamsRx ==
  ASSUME NetTyped, StackOK, PortsOK, ChainOK, SlotsOK, ~reused, PollRx, descs[s_rx_cur] # NoFrame,
         ~reentered', ~overrun'
  PROVE  ChainOK' /\ SlotsOK'
<1>0. PICK h, f : h = s_rx_cur /\ f = descs[s_rx_cur]
  OBVIOUS
<1>1. /\ stack # << >> /\ Top.at = "poll" /\ Handling = {}
      /\ Call(rx_calls(f), [at |-> "polled", cur |-> s_rx_cur]) /\ sockets' = rx_sockets(f)
      /\ ~(Matches(f) /\ Overruns(sockets[Target(f)], f))
  BY <1>0, Zenon DEF PollRx, At
<1>2. Kernel /\ ~PolledRx /\ NetTyped'
  <2>1. ~PolledRx
    BY <1>1 DEF PolledRx, At
  <2>2. Kernel
    BY DEF Kernel
  <2>3. QED
    BY <2>1, <2>2, KernelTyped
<1>3. UNCHANGED <<flow, conns, descs, s_rx_cur>> /\ \A x \in syns : x \in syns'
  BY <1>2, KernelTables
<1>4. h \in Desc /\ f \in Frames /\ f = descs[h] /\ f # NoFrame /\ (f.kind = "tcp" => f \in Segments)
  BY <1>0, FrameKinds DEF NetTyped, TablesTyped
<1>5. RxCalls(f, rx_calls(f))
  BY <1>4, RxCallsFact
<1>6. PICK cs : cs = rx_calls(f)
  OBVIOUS
<1>7. RxCalls(f, cs) /\ Call(cs, [at |-> "polled", cur |-> s_rx_cur])
  BY <1>1, <1>5, <1>6
<1>8. /\ \E c : c.at = "polled" /\ On(c)'
      /\ \A c : c.at = "fin" => (On(c)' <=> On(c) \/ \E j \in 1 .. Len(cs) : cs[j] = c)
  BY <1>1, <1>7, OnRx
<1>9. Handling' # {}
  BY <1>8, HandlingBoth, Zenon
<1>10. \A i : ~On(FinCall("fin", i)) /\ ~Finishing(i)
  BY <1>1, NoFinCalls
<1>11. ASSUME NEW i, On(FinCall("fin", i))' PROVE Matches(f) /\ i = Target(f) /\ tcp_fin(sockets[i], f)
  <2>1. PICK e : e = FinCall("fin", i)
    OBVIOUS
  <2>2. e.at = "fin" /\ e.slot = i /\ On(e)' /\ ~On(e)
    BY <1>10, <1>11, <2>1, FinCallFacts
  <2>3. PICK j \in 1 .. Len(cs) : cs[j] = e
    BY <1>8, <2>2
  <2>4. QED
    BY <1>7, <2>2, <2>3 DEF RxCalls
<1>12. \A c \in 1 .. MaxConns :
         /\ ChainOf(c) => ChainOf(c)'
         /\ h \notin DataOf(c) => \A n : Due(c, n) => Due(c, n)'
         /\ \A n : h \in DataOf(c) /\ Due(c, n) => descs[h].first = n + 1
         /\ \A n : h \in DataOf(c) /\ ChainOf(c) /\ n = LastOf(h) => Due(c, n)' /\ n <= flow[c].sent
         /\ Waits(c) => h \notin DataOf(c)
         /\ Waits(c) /\ h \notin TcpOf(c, "synack") => Waits(c)'
  BY <1>0, <1>1, <1>3, <1>9, NetTaken
<1>13. \A c, flag : h \in TcpOf(c, flag) <=> f.kind = "tcp" /\ f.conn = c /\ f.flag = flag
  BY <1>1, <1>4 DEF TcpOf, Pending
<1>14. ChainOK'
  <2>1. \A c \in 1 .. MaxConns : ChainOf(c) => ChainOf(c)'
    BY <1>12
  <2>2. conns \in Nat
    BY DEF NetTyped, TablesTyped
  <2>3. conns' \in Nat /\ conns <= conns'
    BY <1>3, <2>2
  <2>4. QED
    BY <1>3, <2>1, <2>2, <2>3, ChainStays
<1>15. \A x \in Asked' : x \in Asked
  BY <1>2, AskedKernel
<1>16. NamesOK
  BY DEF PortsOK
<1>17. ASSUME NEW j \in Slot, ~(Matches(f) /\ j = Target(f)), NEW t, t = sockets'[j] PROVE SlotOK(j, t)'
  <2>1. PICK s : s = sockets[j]
    OBVIOUS
  <2>2. Quiet(s, t) /\ s \in GoodSocks /\ t \in GoodSocks /\ SlotOK(j, s)
    BY <1>1, <1>2, <1>4, <1>17, <2>1, RxOthers DEF NetTyped, SlotsOK
  <2>3. s.ref_count # 0 /\ Reach(s) => ~(f.kind = "tcp" /\ f.conn = s.conn)
    BY <1>0, <1>16, <1>17, <2>1, Meant
  <2>4. s.conn # 0 => s.conn \in 1 .. MaxConns
    BY <2>1, ConnRange
  <2>5. s.conn # 0 => /\ flow[s.conn].sent \in Nat /\ flow'[s.conn].sent \in Nat
                      /\ flow[s.conn].sent <= flow'[s.conn].sent
    BY <1>3, <2>4, FlowNat
  <2>6. t.tcp_state \in {SYN_SENT, ESTABLISHED} => s.conn # 0 /\ s.tcp_state = t.tcp_state
    BY <2>2 DEF Quiet, Steady, SlotOK
  <2>7. s.tcp_state = SYN_SENT => Reach(s)
    <3>1. s.tcp_state = SYN_SENT => Dial(s) \in Asked
      BY <2>1 DEF Asked
    <3>2. Dial(s)[1] = s.local_port
      BY DEF Dial
    <3>3. QED
      BY <3>1, <3>2 DEF Reach
  <2>8. Reach(t)' => Reach(s)
    BY <1>15, <2>2 DEF Quiet, Steady, Reach
  <2>9. t.ref_count # 0 => s.ref_count # 0
    BY <2>2 DEF Quiet, Steady
  <2>10. t.tcp_state = SYN_SENT /\ t.ref_count # 0 /\ Waits(s.conn) => Waits(s.conn)'
    BY <1>12, <1>13, <2>3, <2>4, <2>6, <2>7, <2>9
  <2>11. t.tcp_state = ESTABLISHED /\ t.ref_count # 0 /\ Reach(t)' =>
           Reach(s) /\ \A n : Due(s.conn, n) => Due(s.conn, n)'
    BY <1>12, <1>13, <2>3, <2>4, <2>6, <2>8, <2>9 DEF DataOf
  <2>12. ~On(FinCall("fin", j))'
    BY <1>11, <1>17
  <2>13. QED
    BY <1>10, <2>2, <2>5, <2>10, <2>11, <2>12, SlotQuiet DEF Quiet
<1>18. ASSUME Matches(f), NEW i, i = Target(f), NEW t, t = sockets'[i] PROVE SlotOK(i, t)'
  <2>1. PICK s : s = sockets[i]
    OBVIOUS
  <2>2. f.kind = "tcp" /\ i \in Slot /\ s.ref_count # 0 /\ f \in Segments
    BY <1>4, <1>18, <2>1, TargetFact
  <2>3. s \in GoodSocks /\ SlotOK(i, s)
    BY <2>1, <2>2 DEF NetTyped, SlotsOK
  <2>4. s.conn = f.conn /\ Reach(s)
    BY <1>0, <1>16, <1>18, <2>1, <2>2, Meant
  <2>5. t = tcp_input(s, f)
    <3>1. f.kind # "udp"
      BY <2>2
    <3>2. sockets' = [sockets EXCEPT ![i] = tcp_input(s, f)]
      BY <1>1, <1>18, <2>1, <3>1, Zenon DEF rx_sockets
    <3>3. QED
      BY <1>18, <2>2, <3>2 DEF NetTyped
  <2>6. PICK c : c = f.conn
    OBVIOUS
  <2>7. c \in 1 .. MaxConns /\ ChainOf(c) /\ flow[c].sent \in Nat /\ f.flag \in {"synack", "rst", "data"}
    <3>1. c \in 1 .. MaxConns /\ f.flag \in {"synack", "rst", "data"}
      BY <2>2, <2>6 DEF Segments
    <3>2. QED
      BY <3>1, FlowNat DEF ChainOK
  <2>8. /\ h \in DataOf(c) <=> f.flag = "data"
        /\ h \in TcpOf(c, "synack") <=> f.flag = "synack"
    BY <1>13, <2>2, <2>6 DEF DataOf
  <2>9. LastOf(h) = f.first + f.len - 1 /\ descs[h].first = f.first
    BY <1>4 DEF LastOf
  <2>10. f.flag # "data" => \A n : Due(f.conn, n) => Due(f.conn, n)'
    BY <1>12, <2>6, <2>7, <2>8
  <2>11. f.flag = "data" => \A n : Due(f.conn, n) => f.first = n + 1
    BY <1>12, <2>6, <2>7, <2>8, <2>9
  <2>12. f.flag = "data" => \A n : n = f.first + f.len - 1 => Due(f.conn, n)' /\ n <= flow[f.conn].sent
    BY <1>12, <2>6, <2>7, <2>8, <2>9
  <2>13. /\ Waits(f.conn) => f.flag # "data"
         /\ Waits(f.conn) /\ f.flag # "synack" => Waits(f.conn)'
    BY <1>12, <2>6, <2>7, <2>8
  <2>14. On(FinCall("fin", i))' => tcp_fin(s, f)
    BY <1>11, <2>1
  <2>15. ~Overruns(s, f) /\ UNCHANGED flow /\ flow[f.conn].sent \in Nat
    BY <1>1, <1>3, <1>18, <2>1, <2>6, <2>7
  <2>16. QED
    BY <1>10, <2>2, <2>3, <2>4, <2>5, <2>10, <2>11, <2>12, <2>13, <2>14, <2>15, TargetRx
<1>19. SlotsOK'
  BY <1>17, <1>18, SlotSet
<1>20. QED
  BY <1>14, <1>19

---------------------------------------------------------------------------
(* Calls of the program *)

LEMMA ProgramOn ==
  ASSUME NetTyped, Moving, stack = << >>
  PROVE  \A c : ~On(c) /\ (On(c)' => c.at \notin RxKinds)
<1>1. PICK pre \in Seq(Calls), k \in 0 .. 2 : k <= Len(stack) /\ Moves(pre, k)
  BY DEF Moving
<1>2. k = 0
  <2>1. Len(stack) = 0
    OBVIOUS
  <2>2. QED
    BY <1>1, <2>1
<1>3. \A c : ~On(c)
  BY DEF On
<1>4. Spliced(stack, stack', pre, k)
  BY <1>1 DEF Moves
<1>5. \A c : On(c)' => \E j \in 1 .. Len(pre) : pre[j] = c
  BY <1>1, <1>3, <1>4, OnSpliced
<1>6. ASSUME NEW j \in 1 .. Len(pre) PROVE pre[j].at \notin RxKinds
  <2>1. /\ pre[j].at \in {"fin", "fin_sent", "icmp"} => pre[Len(pre)].at = "polled"
        /\ pre[j].at # "polled"
    BY <1>1, <1>2, Zenon DEF Moves
  <2>2. Len(pre) \in 1 .. Len(pre)
    BY <1>1
  <2>3. pre[Len(pre)].at # "polled"
    BY <1>1, <1>2, <2>2, Zenon DEF Moves
  <2>4. QED
    BY <2>1, <2>3, Zenon DEF RxKinds
<1>7. QED
  BY <1>3, <1>5, <1>6

LEMMA ProgramTables ==
  ASSUME NetTyped, Program
  PROVE  stack = << >> /\ UNCHANGED <<flow, descs, s_rx_cur, syns>> /\ conns <= conns'
<1>0. conns \in Nat
  BY DEF NetTyped, TablesTyped
<1>1. stack = << >>
  BY DEF Program, Socket, Bind, Option, Close, Connect, Accept, Sendto, Recv, SysPoll, Has, InUser
<1>2. UNCHANGED <<flow, descs, s_rx_cur, syns>>
  BY ZenonT(60) DEF Program, Socket, Bind, Option, Close, Connect, Accept, Sendto, Recv, SysPoll, SocketStep,
       hostVars, cardVars
<1>3. UNCHANGED conns \/ conns' = conns + 1
  <2>1. ASSUME NEW fd \in 1 .. MAX_FDS, NEW ip \in Hosts, Connect(fd, ip)
        PROVE  UNCHANGED conns \/ conns' = conns + 1
    BY <1>0, <2>1 DEF Connect
  <2>2. QED
    BY <2>1, Zenon DEF Program, Socket, Bind, Option, Close, Accept, Sendto, Recv, SysPoll, SocketStep, userVars
<1>4. conns <= conns'
  BY <1>0, <1>3
<1>5. QED
  BY <1>1, <1>2, <1>4

LEMMA ProgramNet ==
  ASSUME NetTyped, ChainOK, Program
  PROVE  /\ NetTyped' /\ ChainOK' /\ stack = << >> /\ UNCHANGED <<flow, syns>>
         /\ \A c \in 1 .. MaxConns : Kept(c)
         /\ \A i : ~Finishing(i) /\ ~On(FinCall("fin", i))'
<1>1. Moving /\ NetTyped'
  BY ProgramTyped
<1>2. stack = << >> /\ UNCHANGED <<flow, descs, s_rx_cur, syns>> /\ conns <= conns'
  BY ProgramTables
<1>3. \A c : ~On(c) /\ (On(c)' => c.at \notin RxKinds)
  BY <1>1, <1>2, ProgramOn
<1>4. \A i : ~Finishing(i) /\ ~On(FinCall("fin", i))'
  BY <1>3, FinCallFacts DEF Finishing, RxKinds
<1>5. \A c \in 1 .. MaxConns : Kept(c)
  <2>1. Handling' = {} /\ Handling = {}
    BY <1>3, HandlingBoth DEF RxKinds
  <2>2. QED
    BY <1>2, <2>1, NetQuiet
<1>6. ChainOK'
  <2>1. \A c \in 1 .. MaxConns : ChainOf(c) => ChainOf(c)'
    BY <1>5 DEF Kept
  <2>2. conns \in Nat /\ conns' \in Nat
    BY <1>1 DEF NetTyped, TablesTyped
  <2>3. QED
    BY <1>2, <2>1, <2>2, ChainStays
<1>7. QED
  BY <1>1, <1>2, <1>4, <1>5, <1>6

\* A slot that a call of the program leaves alone.
LEMMA ProgramStays ==
  ASSUME NetTyped, PortsOK, ChainOK, SlotsOK, Program, NEW j \in Slot, NEW s, s = sockets[j], sockets'[j] = s,
         s.tcp_state = ESTABLISHED /\ Reach(s)' => Reach(s)
  PROVE  SlotOK(j, s)'
<1>1. /\ NetTyped' /\ \A c \in 1 .. MaxConns : Kept(c)
      /\ \A i : ~Finishing(i) /\ ~On(FinCall("fin", i))'
  BY ProgramNet
<1>2. s.conn # 0 => Kept(s.conn)
  BY <1>1, ConnRange
<1>3. s.tcp_state \in {SYN_SENT, ESTABLISHED} => s.conn # 0
  BY DEF SlotsOK, SlotOK
<1>4. s.conn # 0 => flow[s.conn].sent <= flow'[s.conn].sent
  BY <1>2 DEF Kept
<1>5. s.tcp_state = SYN_SENT /\ Waits(s.conn) => Waits(s.conn)'
  BY <1>2, <1>3 DEF Kept
<1>6. s.tcp_state = ESTABLISHED /\ Reach(s)' => Reach(s) /\ \A n : Due(s.conn, n) => Due(s.conn, n)'
  BY <1>2, <1>3 DEF Kept
<1>7. QED
  BY <1>1, <1>4, <1>5, <1>6, SlotStays

\* Nothing is asked for.
LEMMA AskedNone ==
  ASSUME NetTyped, StackOK, stack = << >>, UNCHANGED <<syns, stack>>,
         NEW i, NEW t, sockets' = [sockets EXCEPT ![i] = t], t.tcp_state # SYN_SENT
  PROVE  \A x \in Asked' : x \in Asked
<1>1. \A j \in Slot : sockets[j].tcp_state # SYN_SENT
  BY DEF StackOK, SynsWait, Connecting
<1>2. \A j \in Slot : sockets'[j].tcp_state # SYN_SENT
  BY <1>1 DEF NetTyped
<1>3. \A c : ~On(c)'
  BY DEF On
<1>4. QED
  BY <1>2, <1>3, AskedProgram, AskedFact, Zenon

LEMMA StreamsSocket ==
  ASSUME NetTyped, StackOK, PortsOK, ChainOK, SlotsOK, NEW type \in types, Socket(type)
  PROVE  SlotsOK'
<1>0. Program
  BY DEF Program
<1>1. PICK i \in Slot, new \in GoodSocks :
        /\ sockets' = [sockets EXCEPT ![i] = new]
        /\ Fresh(new, type, s_ephemeral_port, made + 1)
  BY SocketFact, Zenon
<1>2. stack = << >> /\ UNCHANGED <<stack, syns>>
  BY SocketFact, Zenon
<1>3. /\ new.conn = 0 /\ new.tcp_state = CLOSED /\ new.rx = << >> /\ new.got = << >>
      /\ CLOSED \notin {SYN_SENT, ESTABLISHED, FIN_WAIT1}
  BY <1>1 DEF Fresh, CLOSED, SYN_SENT, ESTABLISHED, FIN_WAIT1
<1>4. \A j \in Slot : sockets'[j] = IF j = i THEN new ELSE sockets[j]
  BY <1>1 DEF NetTyped
<1>5. \A x \in Asked' : x \in Asked
  BY <1>1, <1>2, <1>3, AskedNone
<1>6. ASSUME NEW j \in Slot, j # i, NEW s, s = sockets'[j] PROVE SlotOK(j, s)'
  <2>1. Reach(s)' => Reach(s)
    BY <1>5 DEF Reach
  <2>2. QED
    BY <1>0, <1>4, <1>6, <2>1, ProgramStays
<1>7. SlotOK(i, new)'
  <2>1. StreamOf(new) = << >>
    <3>1. << >> \o << >> = << >>
      OBVIOUS
    <3>2. QED
      BY <1>3, <3>1 DEF StreamOf
  <2>2. QED
    BY <1>3, <2>1, Zenon DEF SlotOK
<1>8. QED
  BY <1>4, <1>6, <1>7, SlotSet

LEMMA StreamsBind ==
  ASSUME NetTyped, StackOK, PortsOK, ChainOK, SlotsOK, NEW fd \in 1 .. MAX_FDS, NEW port \in BindPorts,
         Bind(fd, port), ~reused'
  PROVE  SlotsOK'
<1>0. Program
  BY Zenon DEF Program
<1>1. PICK i : i = fds[fd]
  OBVIOUS
<1>2. PICK t \in GoodSocks : sockets' = [sockets EXCEPT ![i] = t] /\ t = [sockets[i] EXCEPT !.local_port = port]
  BY <1>1, BindFact, Zenon
<1>3. /\ stack = << >> /\ i \in Slot /\ reused' = (reused \/ port \in ports \ {sockets[i].local_port})
      /\ UNCHANGED <<stack, syns>>
  BY <1>1, BindFact, Zenon
<1>4. PICK s : s = sockets[i]
  OBVIOUS
<1>5. s \in Socks /\ s \in GoodSocks /\ SlotOK(i, s)
  BY <1>3, <1>4, GoodFact DEF NetTyped, SlotsOK
<1>6. /\ t.conn = s.conn /\ t.remote_seq = s.remote_seq /\ t.fin_received = s.fin_received
      /\ t.local_port = port /\ t.ref_count = s.ref_count /\ t.tcp_state = s.tcp_state
      /\ t.rx = s.rx /\ t.got = s.got
  BY <1>2, <1>4, <1>5 DEF Socks
<1>7. Steady(s, t)
  BY <1>6 DEF Steady, StreamOf
<1>8. s.tcp_state # SYN_SENT
  BY <1>3, <1>4 DEF StackOK, SynsWait, Connecting
<1>9. \A x \in Asked' : x \in Asked
  BY <1>2, <1>3, <1>6, <1>8, AskedNone
<1>10. NamesOK /\ (port \in ports => port = s.local_port)
  BY <1>3, <1>4 DEF PortsOK
<1>11. Reach(t)' => Reach(s)
  BY <1>6, <1>9, <1>10 DEF Reach, NamesOK
<1>12. /\ NetTyped' /\ \A c \in 1 .. MaxConns : Kept(c)
       /\ \A k : ~Finishing(k) /\ ~On(FinCall("fin", k))'
  BY <1>0, ProgramNet
<1>13. s.conn # 0 => s.conn \in 1 .. MaxConns /\ Kept(s.conn)
  BY <1>3, <1>4, <1>12, ConnRange
<1>14. s.conn # 0 => flow[s.conn].sent \in Nat /\ flow'[s.conn].sent \in Nat
  BY <1>12, <1>13 DEF NetTyped, TablesTyped
<1>15. s.conn # 0 => flow[s.conn].sent <= flow'[s.conn].sent
  BY <1>13 DEF Kept
<1>16. t.tcp_state = ESTABLISHED /\ Reach(t)' => Reach(s) /\ \A n : Due(s.conn, n) => Due(s.conn, n)'
  <2>1. t.tcp_state = ESTABLISHED => s.conn # 0
    BY <1>5, <1>6 DEF SlotOK
  <2>2. QED
    BY <1>11, <1>13, <2>1 DEF Kept
<1>17. SlotOK(i, t)'
  BY <1>5, <1>6, <1>7, <1>8, <1>12, <1>14, <1>15, <1>16, SlotQuiet
<1>18. \A j \in Slot : sockets'[j] = IF j = i THEN t ELSE sockets[j]
  BY <1>2, <1>3 DEF NetTyped
<1>19. ASSUME NEW j \in Slot, j # i, NEW u, u = sockets'[j] PROVE SlotOK(j, u)'
  <2>1. Reach(u)' => Reach(u)
    BY <1>9 DEF Reach
  <2>2. QED
    BY <1>0, <1>18, <1>19, <2>1, ProgramStays
<1>20. QED
  BY <1>17, <1>18, <1>19, SlotSet

\* Of a connection that was not asked for nothing is known.
LEMMA FreshConn ==
  ASSUME NetTyped, PortsOK, ChainOK, NEW c \in 1 .. MaxConns, c > conns
  PROVE  Waits(c)
<1>0. conns \in Nat /\ c \in Nat
  BY DEF NetTyped, TablesTyped
<1>1. ASSUME NEW d \in Desc, descs[d].kind = "tcp" PROVE descs[d].conn # c
  <2>1. PICK x : x = <<descs[d].port, descs[d].from, descs[d].conn>>
    OBVIOUS
  <2>2. x \in syns /\ x[3] = descs[d].conn
    BY <1>1, <2>1 DEF ChainOK
  <2>3. x \in Syns /\ x[3] <= conns
    BY <2>2 DEF PortsOK, Asked
  <2>4. x[3] \in Nat
    BY <2>3 DEF Syns
  <2>5. QED
    BY <1>0, <2>2, <2>3, <2>4
<1>2. DataOf(c) = {}
  BY <1>1 DEF DataOf, TcpOf
<1>3. ~flow[c].open /\ flow[c].sent = 0
  BY DEF ChainOK
<1>4. QED
  BY <1>2, <1>3 DEF Waits, Due, Follows

LEMMA StreamsConnect ==
  ASSUME NetTyped, StackOK, PortsOK, ChainOK, SlotsOK, NEW fd \in 1 .. MAX_FDS, NEW ip \in Hosts,
         Connect(fd, ip), ~reused'
  PROVE  SlotsOK'
<1>0. Program
  BY Zenon DEF Program
<1>1. PICK i : i = fds[fd]
  OBVIOUS
<1>2. PICK t \in GoodSocks :
        /\ sockets' = [sockets EXCEPT ![i] = t]
        /\ Dialled(sockets[i], t, ip, conns + 1)
        /\ t.type = STREAM => conns < MaxConns /\ conns' = conns + 1
  BY <1>1, ConnectFact, Zenon
<1>3. i \in Slot /\ reused' = (reused \/ sockets[i].conn # 0)
  BY <1>1, ConnectFact, Zenon
<1>4. /\ sockets[i].type # STREAM => \A x \in Asked' : x \in Asked
      /\ sockets[i].type = STREAM => \A x \in Asked' : x \in Asked \/ x = Dial(sockets'[i])
  BY <1>1, PortsConnect
<1>5. PICK s : s = sockets[i]
  OBVIOUS
<1>6. s \in GoodSocks /\ SlotOK(i, s) /\ s.conn = 0 /\ NamesOK /\ s.born # 0
  <2>1. s.born # 0
    BY <1>1, <1>3, <1>5 DEF PortsOK, Slot
  <2>2. QED
    BY <1>3, <1>5, <2>1 DEF NetTyped, SlotsOK, PortsOK
<1>7. \A j \in Slot : sockets'[j] = IF j = i THEN t ELSE sockets[j]
  BY <1>2, <1>3 DEF NetTyped
<1>8. /\ NetTyped' /\ \A c \in 1 .. MaxConns : Kept(c)
      /\ \A k : ~Finishing(k) /\ ~On(FinCall("fin", k))'
  BY <1>0, ProgramNet
<1>9. StreamOf(s) = << >> /\ s.tcp_state \notin {SYN_SENT, ESTABLISHED}
  BY <1>6 DEF SlotOK
<1>10. CASE s.type # STREAM
  <2>1. /\ t.tcp_state = s.tcp_state /\ t.conn = s.conn /\ t.got = s.got /\ t.rx = s.rx
        /\ t.ref_count = s.ref_count
    BY <1>2, <1>5, <1>10 DEF Dialled
  <2>2. StreamOf(t) = << >> /\ t.conn = 0 /\ t.tcp_state \notin {SYN_SENT, ESTABLISHED}
    BY <1>6, <1>9, <2>1 DEF StreamOf
  <2>3. t.ref_count # 0 => t.tcp_state # FIN_WAIT1
    BY <1>6, <2>1 DEF SlotOK
  <2>4. SlotOK(i, t)'
    BY <2>2, <2>3, Zenon DEF SlotOK
  <2>5. ASSUME NEW j \in Slot, j # i, NEW u, u = sockets'[j] PROVE SlotOK(j, u)'
    <3>1. Reach(u)' => Reach(u)
      BY <1>4, <1>5, <1>10 DEF Reach
    <3>2. QED
      BY <1>0, <1>7, <2>5, <3>1, ProgramStays
  <2>6. QED
    BY <1>7, <2>4, <2>5, SlotSet
<1>11. CASE s.type = STREAM
  <2>1. PICK c : c = conns + 1
    OBVIOUS
  <2>2. /\ t.type = STREAM /\ t.tcp_state = SYN_SENT /\ t.conn = c /\ t.got = << >> /\ t.remote_seq = 0
        /\ t.fin_received = FALSE /\ t.rx = s.rx /\ t.local_port = s.local_port
    <3>1. t.fin_received \in BOOLEAN
      BY GoodFact DEF Socks
    <3>2. QED
      BY <1>2, <1>5, <1>11, <2>1, <3>1 DEF Dialled
  <2>3. c \in 1 .. MaxConns /\ c > conns /\ c # 0
    <3>1. conns \in Nat /\ conns < MaxConns
      BY <1>2, <2>2 DEF NetTyped, TablesTyped
    <3>2. QED
      BY <2>1, <3>1, Consts
  <2>4. Waits(c)'
    <3>1. Waits(c)
      BY <2>3, FreshConn
    <3>2. QED
      BY <1>8, <2>3, <3>1 DEF Kept
  <2>5. StreamOf(t) = << >>
    <3>1. s.got \in Seq(Items) /\ s.rx \in Seq(Items) /\ s.got \o s.rx = << >>
      BY <1>6, <1>9, GoodFact DEF StreamOf
    <3>2. \A a, b \in Seq(Items) : a \o b = << >> => b = << >>
      <4> SUFFICES ASSUME NEW a \in Seq(Items), NEW b \in Seq(Items), a \o b = << >> PROVE b = << >>
        OBVIOUS
      <4>1. Len(a \o b) = Len(a) + Len(b) /\ Len(a \o b) = 0
        OBVIOUS
      <4>2. Len(b) = 0
        BY <4>1
      <4>3. QED
        BY <4>2
    <3>3. s.rx = << >> /\ << >> \o << >> = << >>
      BY <3>1, <3>2
    <3>4. QED
      BY <2>2, <3>3 DEF StreamOf
  <2>6. flow'[c].sent \in Nat
    BY <1>8, <2>3 DEF NetTyped, TablesTyped
  <2>7. BytesOK(t, t.conn)'
    <3>1. Len(<< >>) = 0 /\ (\A k \in 1 .. 0 : FALSE) /\ 0 <= 0 /\ 0 <= flow'[c].sent + 0
      BY <2>6
    <3>2. QED
      BY <2>2, <2>5, <3>1 DEF BytesOK
  <2>8. SYN_SENT # ESTABLISHED /\ SYN_SENT # FIN_WAIT1
    BY DEF SYN_SENT, ESTABLISHED, FIN_WAIT1
  <2>9. SlotOK(i, t)'
    BY <1>8, <2>2, <2>3, <2>4, <2>5, <2>7, <2>8, Zenon DEF SlotOK
  <2>10. ASSUME NEW j \in Slot, j # i, NEW u, u = sockets'[j] PROVE SlotOK(j, u)'
    <3>1. u = sockets[j]
      BY <1>7, <2>10
    <3>2. ASSUME u.tcp_state = ESTABLISHED, NEW x, x \in Asked', x[1] = u.local_port PROVE x \in Asked
      <4>1. u.conn # 0
        BY <3>1, <3>2 DEF SlotsOK, SlotOK
      <4>2. u.born # 0
        BY <3>1, <4>1 DEF PortsOK
      <4>3. u.local_port # s.local_port
        BY <1>3, <1>5, <1>6, <2>10, <3>1, <4>2 DEF NamesOK
      <4>4. x \in Asked \/ x = Dial(t)
        BY <1>3, <1>4, <1>5, <1>7, <1>11, <3>2
      <4>5. Dial(t)[1] = s.local_port
        BY <2>2 DEF Dial
      <4>6. QED
        BY <3>2, <4>3, <4>4, <4>5
    <3>3. u.tcp_state = ESTABLISHED /\ Reach(u)' => Reach(u)
      BY <3>2 DEF Reach
    <3>4. QED
      BY <1>0, <3>1, <2>10, <3>3, ProgramStays
  <2>11. QED
    BY <1>7, <2>9, <2>10, SlotSet
<1>12. QED
  BY <1>10, <1>11

LEMMA WaitsOnly ==
  ASSUME NEW fd \in 1 .. MAX_FDS,
         \/ Accept(fd)
         \/ \E ip \in Hosts \cup {NoHost}, n \in Chunks : Sendto(fd, ip, n)
         \/ \E n \in Counts : Recv(fd, n)
         \/ \E n \in POLL_ROUNDS : SysPoll(fd, n)
  PROVE  \E c : stack' = <<c>> /\ c.at \in {"accept", "sendto", "recv", "poll_look"}
<1>1. CASE Accept(fd)
  BY <1>1 DEF Accept
<1>2. ASSUME NEW ip \in Hosts \cup {NoHost}, NEW n \in Chunks, Sendto(fd, ip, n)
      PROVE  \E c : stack' = <<c>> /\ c.at \in {"accept", "sendto", "recv", "poll_look"}
  BY <1>2 DEF Sendto
<1>3. ASSUME NEW n \in Counts, Recv(fd, n)
      PROVE  \E c : stack' = <<c>> /\ c.at \in {"accept", "sendto", "recv", "poll_look"}
  BY <1>3 DEF Recv
<1>4. ASSUME NEW n \in POLL_ROUNDS, SysPoll(fd, n)
      PROVE  \E c : stack' = <<c>> /\ c.at \in {"accept", "sendto", "recv", "poll_look"}
  BY <1>4 DEF SysPoll
<1>5. QED
  BY <1>1, <1>2, <1>3, <1>4, Zenon

LEMMA StreamsProgram ==
  ASSUME NetTyped, StackOK, PortsOK, ChainOK, SlotsOK, Program, ~reused'
  PROVE  ChainOK' /\ SlotsOK'
<1>0. /\ NetTyped' /\ ChainOK' /\ stack = << >> /\ UNCHANGED syns
      /\ \A c \in 1 .. MaxConns : Kept(c)
      /\ \A k : ~Finishing(k) /\ ~On(FinCall("fin", k))'
  BY ProgramNet
<1>1. ASSUME NEW fd \in 1 .. MAX_FDS, Option(fd) PROVE SlotsOK'
  <2>1. PICK t \in GoodSocks : sockets' = [sockets EXCEPT ![fds[fd]] = t] /\ Opted(sockets[fds[fd]], t)
    BY <1>1, OptionFact, Zenon
  <2>2. fds[fd] \in Slot /\ UNCHANGED stack
    BY <1>1, OptionFact, Zenon
  <2>3. PICK i, s : i = fds[fd] /\ s = sockets[i]
    OBVIOUS
  <2>4. i \in Slot /\ s \in GoodSocks /\ sockets' = [sockets EXCEPT ![i] = t] /\ Opted(s, t)
    BY <2>1, <2>2, <2>3 DEF NetTyped
  <2>5. t.fin_received = s.fin_received
    <3>1. t.fin_received \in BOOLEAN /\ s.fin_received \in BOOLEAN
      BY <2>4, GoodFact DEF Socks
    <3>2. QED
      BY <2>4, <3>1 DEF Opted
  <2>6. Quiet(s, t)
    BY <2>4, <2>5 DEF Quiet, Steady, StreamOf, Opted, LISTEN, SYN_SENT, ESTABLISHED, FIN_WAIT1
  <2>7. \A j \in Slot : Quiet(sockets[j], sockets'[j])
    BY <2>3, <2>4, <2>6, SlotIsQuiet
  <2>8. t.tcp_state # SYN_SENT
    <3>1. s.tcp_state # SYN_SENT
      BY <1>0, <2>3, <2>4 DEF StackOK, SynsWait, Connecting
    <3>2. QED
      BY <2>6, <3>1 DEF Quiet, Steady
  <2>9. \A x \in Asked' : x \in Asked
    BY <1>0, <2>2, <2>4, <2>8, AskedNone
  <2>10. QED
    BY <1>0, <2>7, <2>9, QuietStep
<1>2. ASSUME UNCHANGED sockets, \A x \in Asked' : x \in Asked PROVE SlotsOK'
  <2>1. \A j \in Slot : Quiet(sockets[j], sockets'[j])
    BY <1>2, AllQuiet
  <2>2. QED
    BY <1>0, <1>2, <2>1, QuietStep
<1>3. ASSUME NEW fd \in 1 .. MAX_FDS, NEW shutdown \in BOOLEAN, Close(fd, shutdown) PROVE SlotsOK'
  <2>1. PICK f \in Calls, g \in Calls :
          /\ stack' = <<f>> \/ stack' = <<g, f>>
          /\ f.at = "close" /\ f.slot = fds[fd] /\ g.at = "send" /\ g.syn = << >>
    BY <1>3, CloseFact, Zenon
  <2>2. UNCHANGED sockets
    BY <1>3, CloseFact, Zenon
  <2>3. \A c : On(c)' => c = f \/ c = g
    BY <2>1 DEF On
  <2>4. \A x \in Asked' : x \in Asked
    BY <1>0, <2>1, <2>2, <2>3, AskedPlain
  <2>5. QED
    BY <1>2, <2>2, <2>4
<1>4. ASSUME NEW fd \in 1 .. MAX_FDS,
             \/ Accept(fd)
             \/ \E ip \in Hosts \cup {NoHost}, n \in Chunks : Sendto(fd, ip, n)
             \/ \E n \in Counts : Recv(fd, n)
             \/ \E n \in POLL_ROUNDS : SysPoll(fd, n)
      PROVE  SlotsOK'
  <2>1. UNCHANGED sockets
    BY <1>4, Zenon DEF Accept, Sendto, Recv, SysPoll
  <2>2. PICK c : stack' = <<c>> /\ c.at \in {"accept", "sendto", "recv", "poll_look"}
    BY <1>4, WaitsOnly
  <2>3. \A e : On(e)' => e = c
    BY <2>2 DEF On
  <2>4. \A x \in Asked' : x \in Asked
    BY <1>0, <2>1, <2>2, <2>3, AskedPlain
  <2>5. QED
    BY <1>2, <2>1, <2>4
<1>5. SlotsOK'
  BY <1>1, <1>3, <1>4, StreamsSocket, StreamsBind, StreamsConnect, Zenon DEF Program
<1>6. QED
  BY <1>0, <1>5

---------------------------------------------------------------------------
(* All steps *)

LEMMA StreamsWorld ==
  ASSUME NetTyped, StackOK, RingOK, PortsOK, ChainOK, SlotsOK, ~reentered, World
  PROVE  ChainOK' /\ SlotsOK'
<1>1. PICK f \in Frames : /\ f # NoFrame /\ Arrive(f)
                          /\ f.kind = "tcp" => f \in Segments /\ SentBy(f)
                          /\ f.kind # "tcp" => UNCHANGED flow
  BY WorldFact, Zenon
<1>2. \A c \in 1 .. MaxConns : Kept(c)
  BY <1>1, NetArrives
<1>3. /\ descs' = [descs EXCEPT ![rdh] = f]
      /\ UNCHANGED <<sockets, stack, syns, conns>>
  BY <1>1, Zenon DEF Arrive, userVars
<1>4. NetTyped' /\ \A x \in Asked' : x \in Asked
  BY WorldTyped, AskedWorld
<1>5. SlotsOK'
  <2>1. \A j \in Slot : Quiet(sockets[j], sockets'[j])
    BY <1>3, AllQuiet
  <2>2. \A i : (Finishing(i)' <=> Finishing(i)) /\ (On(FinCall("fin", i))' <=> On(FinCall("fin", i)))
    BY <1>3 DEF Finishing, On
  <2>3. QED
    BY <1>2, <1>4, <2>1, <2>2, QuietStep
<1>6. ChainOK'
  <2>1. \A d \in Desc : descs'[d].kind = "tcp" => <<descs'[d].port, descs'[d].from, descs'[d].conn>> \in syns'
    <3>1. f.kind = "tcp" => <<f.port, f.from, f.conn>> \in syns
      BY <1>1 DEF SentBy
    <3>2. \A d \in Desc : descs'[d] = f \/ descs'[d] = descs[d]
      BY <1>3 DEF NetTyped, TablesTyped
    <3>3. \A d \in Desc : descs[d].kind = "tcp" => <<descs[d].port, descs[d].from, descs[d].conn>> \in syns
      BY DEF ChainOK
    <3>4. QED
      BY <1>3, <3>1, <3>2, <3>3
  <2>2. \A c \in 1 .. MaxConns : ChainOf(c)'
    BY <1>2 DEF ChainOK, Kept
  <2>3. ASSUME NEW c \in 1 .. MaxConns, c > conns' PROVE ~flow'[c].open /\ flow'[c].sent = 0
    <3>1. ~flow[c].open /\ flow[c].sent = 0 /\ c > conns
      BY <1>3, <2>3 DEF ChainOK
    <3>2. CASE f.kind = "tcp"
      <4>1. PICK x : x = <<f.port, f.from, f.conn>>
        OBVIOUS
      <4>2. x \in syns /\ x[3] = f.conn /\ \A e \in 1 .. MaxConns : e # f.conn => flow'[e] = flow[e]
        BY <1>1, <3>2, <4>1 DEF SentBy
      <4>3. x \in Syns /\ x[3] <= conns
        BY <4>2 DEF PortsOK, Asked
      <4>4. x[3] \in Nat /\ conns \in Nat /\ c \in Nat
        BY <4>3 DEF Syns, NetTyped, TablesTyped
      <4>5. c # f.conn
        BY <3>1, <4>2, <4>3, <4>4
      <4>6. QED
        BY <3>1, <4>2, <4>5
    <3>3. CASE f.kind # "tcp"
      BY <1>1, <3>1, <3>3
    <3>4. QED
      BY <3>2, <3>3
  <2>4. QED
    BY <2>1, <2>2, <2>3 DEF ChainOK
<1>7. QED
  BY <1>5, <1>6

LEMMA StreamsIrq ==
  ASSUME NetTyped, PortsOK, ChainOK, SlotsOK, Irq \/ UNCHANGED vars
  PROVE  ChainOK' /\ SlotsOK'
<1>1. UNCHANGED <<sockets, descs, s_rx_cur, flow, syns, conns>> /\ NetTyped'
  <2>1. CASE Irq
    <3>1. UNCHANGED <<sockets, descs, s_rx_cur, flow, syns, conns>>
      BY <2>1, Zenon DEF Irq, hostVars, userVars
    <3>2. QED
      BY <2>1, <3>1, IrqTyped
  <2>2. CASE UNCHANGED vars
    <3>1. UNCHANGED <<sockets, descs, s_rx_cur, flow, syns, conns>>
      BY <2>2, SameVars
    <3>2. [Whole]_vars
      BY <2>2
    <3>3. QED
      BY <3>1, <3>2, WholeTyped
  <2>3. QED
    BY <2>1, <2>2
<1>2. ASSUME NEW c, c.at \notin {"poll", "irq"} PROVE On(c)' <=> On(c)
  <2>1. CASE Irq
    BY <1>2, <2>1, OnIrq
  <2>2. CASE UNCHANGED vars
    BY <2>2, SameVars DEF On
  <2>3. QED
    BY <2>1, <2>2
<1>3. \A c \in 1 .. MaxConns : Kept(c)
  <2>1. \A c : c.at = "polled" => (On(c)' <=> On(c))
    BY <1>2
  <2>2. Handling' = {} <=> Handling = {}
    BY <2>1, HandlingBoth, Zenon
  <2>3. QED
    BY <1>1, <2>2, NetQuiet
<1>4. \A i : (Finishing(i)' <=> Finishing(i)) /\ (On(FinCall("fin", i))' <=> On(FinCall("fin", i)))
  <2>1. \A i : (On(FinCall("fin", i))' <=> On(FinCall("fin", i)))
               /\ (On(FinCall("fin_sent", i))' <=> On(FinCall("fin_sent", i)))
    BY <1>2, FinCallFacts
  <2>2. QED
    BY <2>1 DEF Finishing
<1>5. \A j \in Slot : Quiet(sockets[j], sockets'[j])
  BY <1>1, AllQuiet
<1>6. SlotsOK'
  BY <1>1, <1>3, <1>4, <1>5, AskedWorld, QuietStep
<1>7. ChainOK'
  <2>1. \A c \in 1 .. MaxConns : ChainOf(c) => ChainOf(c)'
    BY <1>3 DEF Kept
  <2>2. conns \in Nat
    BY DEF NetTyped, TablesTyped
  <2>3. conns' \in Nat /\ conns <= conns'
    BY <1>1, <2>2
  <2>4. QED
    BY <1>1, <2>1, <2>2, <2>3, ChainStays
<1>8. QED
  BY <1>6, <1>7

LEMMA StreamsKept ==
  ASSUME NetTyped, StackOK, RingOK, PortsOK, FinsOK, StreamsOK, [Whole]_vars
  PROVE  StreamsOK'
<1> SUFFICES ASSUME Good' PROVE ChainOK' /\ SlotsOK'
  BY DEF StreamsOK
<1>1. ~reused' /\ ~overrun' /\ ~reentered' /\ ~reused /\ ~overrun /\ ~reentered
  BY Flags DEF Good
<1>2. ChainOK /\ SlotsOK
  BY <1>1 DEF StreamsOK, Good
<1>3. CASE Kernel /\ ~PollRx /\ ~FinInput
  BY <1>1, <1>2, <1>3, StreamsQuiet
<1>4. CASE FinInput
  BY <1>1, <1>2, <1>4, StreamsFin
<1>5. CASE PollRx
  BY <1>1, <1>2, <1>5, StreamsIdle, StreamsRx
<1>6. CASE Program
  BY <1>1, <1>2, <1>6, StreamsProgram
<1>7. CASE World
  BY <1>1, <1>2, <1>7, StreamsWorld
<1>8. CASE Irq \/ UNCHANGED vars
  BY <1>2, <1>8, StreamsIrq
<1>9. QED
  BY <1>3, <1>4, <1>5, <1>6, <1>7, <1>8 DEF Whole, Compute, StackFull

LEMMA StreamsStart ==
  ASSUME Init
  PROVE  PortsOK /\ FinsOK /\ StreamsOK
<1>1. /\ sockets = [i \in Slot |-> Unused] /\ fds = [fd \in 1 .. MAX_FDS |-> 0] /\ stack = << >>
      /\ descs = [d \in Desc |-> NoFrame] /\ syns = {} /\ conns = 0
      /\ flow = [c \in 1 .. MaxConns |-> [open |-> FALSE, sent |-> 0, fin |-> FALSE]]
  BY DEF Init
<1>2. /\ Unused.ref_count = 0 /\ Unused.born = 0 /\ Unused.conn = 0 /\ Unused.tcp_state = CLOSED
      /\ Unused.got = << >> /\ Unused.rx = << >>
      /\ CLOSED \notin {SYN_SENT, ESTABLISHED, FIN_WAIT1}
  BY DEF Unused, CLOSED, SYN_SENT, ESTABLISHED, FIN_WAIT1
<1>3. \A i \in Slot : sockets[i] = Unused
  BY <1>1
<1>4. Asked = {}
  BY <1>1, <1>2, <1>3 DEF Asked, Sending
<1>5. PortsOK
  <2>1. NamesOK
    BY <1>2, <1>3, <1>4 DEF NamesOK
  <2>2. \A fd \in 1 .. MAX_FDS : fds[fd] = 0
    BY <1>1
  <2>3. 0 <= conns
    BY <1>1
  <2>4. QED
    BY <1>2, <1>3, <1>4, <2>1, <2>2, <2>3 DEF PortsOK
<1>6. FinsOK
  BY <1>1 DEF FinsOK
<1>7. ChainOK
  <2>1. \A d \in Desc : descs[d] = NoFrame /\ NoFrame.kind # "tcp"
    BY <1>1 DEF NoFrame
  <2>2. \A c \in 1 .. MaxConns : DataOf(c) = {}
    BY <2>1 DEF DataOf, TcpOf, Pending
  <2>3. \A c \in 1 .. MaxConns : ~flow[c].open /\ flow[c].sent = 0
    BY <1>1
  <2>4. QED
    BY <2>1, <2>2, <2>3 DEF ChainOK, ChainOf
<1>8. SlotsOK
  <2>1. << >> \o << >> = << >>
    OBVIOUS
  <2>2. ASSUME NEW i \in Slot, NEW s, s = sockets[i] PROVE SlotOK(i, s)
    <3>1. s = Unused
      BY <1>3, <2>2
    <3>2. StreamOf(s) = << >>
      BY <1>2, <2>1, <3>1 DEF StreamOf
    <3>3. QED
      BY <1>2, <3>1, <3>2 DEF SlotOK
  <2>3. QED
    BY <2>2 DEF SlotsOK
<1>9. QED
  BY <1>5, <1>6, <1>7, <1>8 DEF StreamsOK

\* Of socket_tcp_input, sock_recv and sock_connect: as long as no port is used twice, no
\* buffer overruns, no round of the driver is handled inside another and no interrupt
\* comes inside one (both of which set reentered), what a program gets from a connection is what its peer sent, from the first
\* byte on and without a gap, and no byte is acknowledged that was not sent.
THEOREM StreamsStayPeers == Spec => []StreamIsPeers
<1>1. Init => PortsOK /\ FinsOK /\ StreamsOK
  BY StreamsStart
<1>2. Base /\ Nested /\ (~reentered => PortsOK) /\ [Next]_vars => (~reentered => PortsOK)'
  <2> SUFFICES ASSUME Base, Nested, ~reentered => PortsOK, [Next]_vars, ~reentered' PROVE PortsOK'
    OBVIOUS
  <2>1. NetTyped /\ StackOK /\ PortsOK /\ [Whole]_vars
    BY Undivided DEF Base, Nested
  <2>2. QED
    BY <2>1, PortsKept
<1>3. Base /\ Nested /\ FinsOK /\ [Next]_vars => FinsOK'
  <2> SUFFICES ASSUME Base, Nested, FinsOK, [Next]_vars, ~reentered' PROVE FinsOK'
    BY DEF FinsOK
  <2>1. NetTyped /\ StackOK /\ [Whole]_vars
    BY Undivided DEF Base, Nested
  <2>2. QED
    BY <2>1, FinsKept
<1>4. Base /\ Nested /\ RingOK /\ (~reentered => PortsOK) /\ FinsOK /\ StreamsOK /\ [Next]_vars => StreamsOK'
  <2> SUFFICES ASSUME Base, Nested, RingOK, ~reentered => PortsOK, FinsOK, StreamsOK, [Next]_vars, ~reentered'
               PROVE  StreamsOK'
    BY DEF StreamsOK, Good
  <2>1. NetTyped /\ StackOK /\ PortsOK /\ [Whole]_vars
    BY Undivided DEF Base, Nested
  <2>2. QED
    BY <2>1, StreamsKept
<1>5. Base /\ StreamsOK => StreamIsPeers
  <2> SUFFICES ASSUME NetTyped, StreamsOK, Good, NEW i \in Slot, NEW s, s = sockets[i], s.conn # 0
               PROVE  /\ \A k \in DOMAIN (s.got \o s.rx) : (s.got \o s.rx)[k] = <<s.conn, k>>
                      /\ Len(s.got \o s.rx) <= s.remote_seq
                      /\ s.remote_seq <= flow[s.conn].sent + (IF s.fin_received THEN 1 ELSE 0)
    BY Zenon DEF StreamIsPeers, Good, Base
  <2>1. BytesOK(s, s.conn) /\ s \in GoodSocks
    BY DEF StreamsOK, SlotsOK, SlotOK, NetTyped
  <2>2. StreamOf(s) \in Seq(Items)
    BY <2>1, StreamFact
  <2>3. DOMAIN StreamOf(s) = 1 .. Len(StreamOf(s))
    BY <2>2
  <2>4. QED
    BY <2>1, <2>3, Zenon DEF BytesOK, StreamOf
<1>6. QED
  BY <1>1, <1>2, <1>3, <1>4, <1>5, AlwaysNested, AlwaysRing, PTL DEF Spec
=============================================================================
