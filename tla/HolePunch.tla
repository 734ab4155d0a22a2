----------------------------- MODULE HolePunch ------------------------------
(***************************************************************************)
(* The handshakes that punch a UDP hole (holepunch.go): two nodes behind   *)
(* cone NATs (handshakeC2C on both sides), or one behind a cone NAT        *)
(* (handshakeC2S) and one behind a symmetric NAT (handshakeS2C), which     *)
(* tries many sockets at once, of which the cone side guesses some.        *)
(*                                                                         *)
(* Both NATs are port restricted: a packet gets in only from an address    *)
(* that was sent to before.  Packets may be lost, and overtake each other. *)
(***************************************************************************)
EXTENDS Naturals

CONSTANTS
    Sockets,  \* sockets of a peer behind a symmetric NAT
    Guessed,  \* the sockets whose ports the cone side sends to
    MaxLoss   \* number of packets that get lost

Ends == Sockets \cup {"cone"}

VARIABLES
    peerCone, \* the peer is behind a cone NAT too: both run handshakeC2C
    pc,     \* where an end is: not started, at its first read, waiting for
            \* an acknowledgement, returned, or timed out
    holes,  \* <<e, f>>: e has sent to f
    net,    \* packets on their way
    remote, \* remoteHoleAddr of the cone side, once it has read a packet
    got,    \* the sockets that were put into gotCh
    local,  \* localHoleAddr of the symmetric side, once it returned
    loss

vars == <<peerCone, pc, holes, net, remote, got, local, loss>>

(* A peer behind a cone NAT has one socket, and tells its port.            *)
Live == IF peerCone THEN {CHOOSE s \in Guessed : TRUE} ELSE Sockets
Targets == Live \cap Guessed

Init ==
    /\ peerCone \in BOOLEAN
    /\ pc = [e \in Ends |-> "start"]
    /\ holes = {} /\ net = {} /\ remote = "none" /\ got = {} /\ local = "none"
    /\ loss = 0

Pkt(from, to, type) == [from |-> from, to |-> to, type |-> type]

(* UDPWrite. *)
Sends(pkts) ==
    /\ net' = net \cup pkts
    /\ holes' = holes \cup {<<p.from, p.to>> : p \in pkts}

(* Every socket, and the cone side to every port it guesses, sends one     *)
(* MsgPunchHandshake before it reads.                                      *)
SocketStarts(s) ==
    /\ s \in Live /\ pc[s] = "start" /\ pc' = [pc EXCEPT ![s] = "first"]
    /\ Sends({Pkt(s, "cone", "Handshake")})
    /\ UNCHANGED <<peerCone, remote, got, local, loss>>

ConeStarts ==
    /\ pc["cone"] = "start" /\ pc' = [pc EXCEPT !["cone"] = "first"]
    /\ Sends({Pkt("cone", s, "Handshake") : s \in Targets})
    /\ UNCHANGED <<peerCone, remote, got, local, loss>>

(* A packet gets in: the end reads and the hole is open.                   *)
Reads(e, p) ==
    /\ p \in net /\ p.to = e /\ <<e, p.from>> \in holes
    /\ pc[e] \in {"first", "ack"}

Answer(e, p, to) ==
    LET rest == net \ {p} IN
    /\ net' = rest \cup {Pkt(e, to, "Ack")}
    /\ holes' = holes \cup {<<e, to>>}

(* Mutant: every packet read makes its sender the remote address. *)
ConeReadsSender(p) ==
    /\ Reads("cone", p)
    /\ remote' = p.from
    /\ \/ /\ pc["cone"] = "first" /\ p.type = "Handshake"
          /\ Answer("cone", p, p.from) /\ pc' = [pc EXCEPT !["cone"] = "ack"]
       \/ /\ p.type = "Ack"
          /\ Answer("cone", p, p.from) /\ pc' = [pc EXCEPT !["cone"] = "ok"]
       \/ /\ pc["cone"] = "ack" /\ p.type = "Handshake"
          /\ net' = net \ {p} /\ UNCHANGED <<holes, pc>>
    /\ UNCHANGED <<peerCone, got, local, loss>>

(* handshakeC2S, and handshakeC2C: the sender of the first packet is the   *)
(* remote address for good.  A handshake is acknowledged, and then         *)
(* handshakeC2S reads on until an acknowledgement comes, while             *)
(* handshakeC2C takes the next packet, whatever it is; an acknowledgement  *)
(* is acknowledged once more.                                              *)
ConeReads(p) ==
    /\ Reads("cone", p)
    /\ remote' = IF pc["cone"] = "first" THEN p.from ELSE remote
    /\ \/ /\ pc["cone"] = "first" /\ p.type = "Handshake"
          /\ Answer("cone", p, p.from) /\ pc' = [pc EXCEPT !["cone"] = "ack"]
       \/ /\ p.type = "Ack"
          /\ Answer("cone", p, remote') /\ pc' = [pc EXCEPT !["cone"] = "ok"]
       \/ /\ pc["cone"] = "ack" /\ p.type = "Handshake"
          /\ net' = net \ {p} /\ UNCHANGED holes
          /\ pc' = [pc EXCEPT !["cone"] = IF peerCone THEN "ok" ELSE @]
    /\ UNCHANGED <<peerCone, got, local, loss>>

(* Mutant: an acknowledgement is not acknowledged. *)
SocketReadsSilent(s, p) ==
    /\ Reads(s, p)
    /\ \/ /\ pc[s] = "first" /\ p.type = "Handshake"
          /\ Answer(s, p, "cone") /\ pc' = [pc EXCEPT ![s] = "ack"] /\ UNCHANGED got
       \/ /\ p.type = "Ack"
          /\ net' = net \ {p} /\ UNCHANGED holes
          /\ pc' = [pc EXCEPT ![s] = "ok"] /\ got' = got \cup {s}
       \/ /\ pc[s] = "ack" /\ p.type = "Handshake"
          /\ net' = net \ {p} /\ UNCHANGED <<holes, pc, got>>
    /\ UNCHANGED <<peerCone, remote, local, loss>>

(* One goroutine of handshakeS2C, or handshakeC2C of the peer: gotIt ends  *)
(* the others before they answer.                                          *)
SocketReads(s, p) ==
    /\ Reads(s, p)
    /\ \/ /\ pc[s] = "first" /\ got # {} /\ net' = net \ {p} /\ UNCHANGED <<holes, got>>
          /\ pc' = [pc EXCEPT ![s] = "timeout"]
       \/ /\ pc[s] = "first" /\ got = {} /\ p.type = "Handshake"
          /\ Answer(s, p, "cone") /\ pc' = [pc EXCEPT ![s] = "ack"] /\ UNCHANGED got
       \/ /\ (pc[s] = "first") => (got = {})
          /\ p.type = "Ack"
          /\ Answer(s, p, "cone") /\ pc' = [pc EXCEPT ![s] = "ok"] /\ got' = got \cup {s}
       \/ /\ pc[s] = "ack" /\ p.type = "Handshake"
          /\ net' = net \ {p} /\ UNCHANGED holes
          /\ pc' = [pc EXCEPT ![s] = IF peerCone THEN "ok" ELSE @]
          /\ got' = IF peerCone THEN got \cup {s} ELSE got
    /\ UNCHANGED <<peerCone, remote, local, loss>>

(* The first socket that got through becomes the local address.            *)
SymmetricReturns ==
    /\ local = "none" /\ \E s \in got : local' = s
    /\ UNCHANGED <<peerCone, pc, holes, net, remote, got, loss>>

(* A packet that finds no hole, or nobody who reads, is gone.              *)
Drop(p) ==
    /\ p \in net
    /\ <<p.to, p.from>> \notin holes \/ pc[p.to] \in {"ok", "timeout"}
    /\ net' = net \ {p}
    /\ UNCHANGED <<peerCone, pc, holes, remote, got, local, loss>>

Lose(p) ==
    /\ p \in net /\ loss < MaxLoss /\ loss' = loss + 1
    /\ net' = net \ {p}
    /\ UNCHANGED <<peerCone, pc, holes, remote, got, local>>

(* HandshakeTimeout, long after every packet that was sent has arrived.    *)
Timeout(e) ==
    /\ pc[e] \in {"first", "ack"} /\ net = {}
    /\ \A f \in Live \cup {"cone"} : pc[f] # "start"
    /\ pc' = [pc EXCEPT ![e] = "timeout"]
    /\ UNCHANGED <<peerCone, holes, net, remote, got, local, loss>>

Arrive == \E p \in net : \/ ConeReads(p) \/ Drop(p)
                          \/ \E s \in Sockets : SocketReads(s, p)

Next ==
    \/ ConeStarts \/ SymmetricReturns
    \/ \E s \in Sockets : SocketStarts(s)
    \/ Arrive \/ \E p \in net : Lose(p)
    \/ \E e \in Ends : Timeout(e)

(* What happens unless packets are lost: both sides begin, as punchTs      *)
(* arranges, packets arrive, and a side that has what it needs returns.    *)
Progress ==
    \/ ConeStarts \/ SymmetricReturns \/ Arrive \/ \E s \in Sockets : SocketStarts(s)

Spec == Init /\ [][Next]_vars /\ WF_vars(Progress)

-----------------------------------------------------------------------------
(* When both sides return, they have agreed on a hole: the address the     *)
(* cone side will use is the socket the symmetric side will use, however   *)
(* many sockets got through and whatever was lost.                         *)
Agreement ==
    (pc["cone"] = "ok" /\ local # "none") => local = remote

(* If a port was guessed and nothing is lost, both sides get through, in   *)
(* whichever order they start: the first packets die at the closed holes.  *)
BothGetThrough == [](loss = 0) => <>(pc["cone"] = "ok" /\ local # "none")
=============================================================================
