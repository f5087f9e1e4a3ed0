------------------------------- MODULE MCNet -------------------------------
(* Net for TLC: a server behind a gateway. *)
EXTENDS Net

CONSTANTS far, gateway

ViaGateway == [h \in {far, NoHost} |-> gateway]

\* A slot that was given up is made anew before anything reads what it
\* holds; only the datagrams are kept apart.
Idle(i) == sockets[i].ref_count = 0 /\ i \notin ToSet(fds)

\* What lies in scope: a poll that waits twice, and so the interrupts inside a round,
\* with one socket, three packets and nothing handled twice before; what follows a
\* change that was divided, up to the end of the call, and a round that was, up to the
\* second socket; a second connection as long as something is claimed of its stream.
WaitsTwice(c) == c.at \in {"poll_look", "poll_wait"} /\ (c.sti \/ c.timeout = 2)
Waiters == {k \in DOMAIN stack : WaitsTwice(stack[k])}
Scope ==
  /\ \A k \in Waiters :
       /\ made = 1 /\ frames <= 3 /\ ~shut
       /\ ~sockets[stack[k].slot].nonblocking
       /\ reentered => stack[k].sti
  /\ reentered /\ InUser => ~torn /\ made = 1
  /\ conns = 2 => ~(reused \/ reentered \/ overrun)

\* What is left in a buffer is read only by a round that is divided.
Divided == \E k \in DOMAIN stack : stack[k].at \in {"rx_cut", "polled_cut"}
Divides == made <= 1 /\ (icr \/ frames < 3) /\ (Waiters # {} \/ ~(shut \/ reentered))
Leftovers == Divided \/ Divides

NetView ==
  <<[i \in Slot |-> IF Idle(i) /\ InUser THEN [Unused EXCEPT !.dgrams = sockets[i].dgrams]
                    ELSE sockets[i]],
    arp_table, descs, IF Leftovers THEN bufs ELSE descs, s_rx_cur, rdh, rdt, icr, stack, hostVars,
    userVars, reentered, torn, overrun>>
============================================================================
