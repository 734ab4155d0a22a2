----------------------------- MODULE LinkModes ------------------------------
(***************************************************************************)
(* How the client of an app looks for a direct link (addDirectTunnel): the *)
(* link modes it tries one after the other, who listens and who dials in   *)
(* each (isUnderlayServer), and which handshake and which underlay the two *)
(* sides choose, each from what it knows (handshake, connectUnderlay).     *)
(***************************************************************************)
EXTENDS Naturals, Sequences

CONSTANT Versions \* of the peer: 1 below SupportIntranetVersion, 2 below
                  \* IPv6PunchVersion, 3 below SupportUDP4DirectVersion, 4 current

NAT == {"cone", "symmetric"}

(* What addDirectTunnel looks at: the gateway's answer about the peer, the *)
(* node's own network, and the app's PunchPriority.                        *)
Env == [samePublicIP : BOOLEAN, version : Versions, bothIPv6 : BOOLEAN,
        forcev6 : BOOLEAN, v4 : BOOLEAN, peerV4 : BOOLEAN,
        nat : NAT, peerNat : NAT,
        udpOnly : BOOLEAN, tcpOnly : BOOLEAN, tcpFirst : BOOLEAN]

Attempt(mode, isUnderlayServer) == [mode |-> mode, server |-> isUnderlayServer]

Intranet(e) ==
    IF e.samePublicIP /\ e.version >= 2 THEN <<Attempt("intranet", 0)>> ELSE <<>>

TCP6(e) ==
    IF e.bothIPv6 /\ ~e.udpOnly THEN <<Attempt("tcp6", 0)>> ELSE <<>>

(* thisTunnelForcev6: set where TCP6 was tried.                            *)
Forced(e) == TCP6(e) # <<>> /\ e.forcev6

(* v4 stands for a public address or a port mapping.                       *)
IPv4(e) ==
    IF ~Forced(e) /\ (e.v4 \/ e.peerV4)
    THEN <<Attempt(IF e.udpOnly /\ e.version = 4 THEN "udp4" ELSE "tcp4",
                   IF e.v4 THEN 1 ELSE 0)>>
    ELSE <<>>

OneIsCone(e) == e.nat = "cone" \/ e.peerNat = "cone"

(* funcUDP; Cone2ConeUDPPunchMaxRetry is 1.                                *)
UDPPunch(e) ==
    IF Forced(e) \/ e.tcpOnly \/ ~OneIsCone(e) THEN <<>> ELSE <<Attempt("udppunch", 0)>>

(* funcTCP; Cone2ConeTCPPunchMaxRetry is 1.                                *)
TCPPunch(e) ==
    IF Forced(e) \/ e.udpOnly \/ ~OneIsCone(e) THEN <<>> ELSE <<Attempt("tcppunch", 0)>>

Primary(e) == IF e.tcpFirst THEN TCPPunch(e) ELSE UDPPunch(e)
Secondary(e) == IF e.tcpFirst THEN UDPPunch(e) ELSE TCPPunch(e)

Attempts(e) == Intranet(e) \o TCP6(e) \o IPv4(e) \o Primary(e) \o Secondary(e)

(* Mutant: the peer is told the client's own role. *)
PeerAttemptSame(a) == a

(* connect() tells the peer the mode and the other role, handleConnectReq  *)
(* takes both over.                                                        *)
PeerAttempt(a) == [a EXCEPT !.server = 1 - a.server]

(* handshake(): before the underlay of a UDP punch.                        *)
Handshake(nat, peerNat) ==
    CASE nat = "cone" /\ peerNat = "cone" -> "C2C"
      [] nat = "symmetric" /\ peerNat = "symmetric" -> "ErrorS2S"
      [] nat = "cone" /\ peerNat = "symmetric" -> "C2S"
      [] nat = "symmetric" /\ peerNat = "cone" -> "S2C"

(* connectUnderlayUDP: one side listens, on the hole or in v4l, the other  *)
(* dials once it is told to.                                               *)
UnderlayUDP(a) == IF a.server = 1 THEN "quic listen" ELSE "quic dial"

(* connectUnderlayTCP6, with a peer that is too old to punch: one side     *)
(* waits for v4l.                                                          *)
UnderlayTCP6(a) == IF a.server = 1 THEN "tcp listen" ELSE "tcp dial"

(* connectUnderlayTCP: in the punching modes both sides dial, and the one  *)
(* that is the server reads the first message.                             *)
UnderlayTCP(a) ==
    IF a.mode \in {"tcp4", "intranet"}
    THEN IF a.server = 1 THEN "tcp listen" ELSE "tcp dial"
    ELSE IF a.server = 1 THEN "punch and read" ELSE "punch and write"

(* connectUnderlayTCPSymmetric: the roles follow the NATs.                 *)
UnderlayTCPSymmetric(peerNat) == IF peerNat = "symmetric" THEN "c2s" ELSE "s2c"

(* connectUnderlay().  A peer below IPv6PunchVersion is taken to do what   *)
(* connectUnderlayTCP6 does.                                               *)
Underlay(a, nat, peerNat, version) ==
    CASE a.mode \in {"udp4", "udppunch"} -> UnderlayUDP(a)
      [] a.mode \in {"tcp4", "intranet"} -> UnderlayTCP(a)
      [] a.mode = "tcp6" -> IF version >= 3 THEN UnderlayTCP(a) ELSE UnderlayTCP6(a)
      [] a.mode = "tcppunch" -> IF "symmetric" \in {nat, peerNat}
                                THEN UnderlayTCPSymmetric(peerNat) ELSE UnderlayTCP(a)

-----------------------------------------------------------------------------
VARIABLES
    env,
    at,     \* the attempt under way
    result  \* what addDirectTunnel returned

vars == <<env, at, result>>

Init == env \in Env /\ at = 1 /\ result = "none"

(* newTunnel succeeded. *)
Succeed ==
    /\ result = "none" /\ at <= Len(Attempts(env))
    /\ result' = "tunnel" /\ UNCHANGED <<env, at>>

Fail ==
    /\ result = "none" /\ at <= Len(Attempts(env))
    /\ at' = at + 1 /\ UNCHANGED <<env, result>>

(* The error returned is that of the last punching function, which is nil  *)
(* when that function had nothing to try.                                  *)
GiveUp ==
    /\ result = "none" /\ at > Len(Attempts(env))
    /\ result' = IF Secondary(env) = <<>> THEN "nil, nil" ELSE "nil, err"
    /\ UNCHANGED <<env, at>>

Next == Succeed \/ Fail \/ GiveUp

Spec == Init /\ [][Next]_vars

-----------------------------------------------------------------------------
Trying == result = "none" /\ at <= Len(Attempts(env))
Current == Attempts(env)[at]

Pairs == {<<"tcp listen", "tcp dial">>, <<"quic listen", "quic dial">>,
          <<"punch and read", "punch and write">>, <<"c2s", "s2c">>}

(* In every attempt the two sides, which decide on their own, choose ends  *)
(* of the same underlay that fit each other.                               *)
UnderlaysPair ==
    LET mine == Underlay(Current, env.nat, env.peerNat, env.version)
        theirs == Underlay(PeerAttempt(Current), env.peerNat, env.nat, env.version)
    IN <<mine, theirs>> \in Pairs \/ <<theirs, mine>> \in Pairs

(* A punch is only tried where the two handshakes fit each other.          *)
HandshakesPair ==
    Current.mode = "udppunch" =>
        <<Handshake(env.nat, env.peerNat), Handshake(env.peerNat, env.nat)>> \in
            {<<"C2C", "C2C">>, <<"C2S", "S2C">>, <<"S2C", "C2S">>}

(* In the IPv4 modes the side that listens can be reached from outside.    *)
ListenerReachable ==
    Current.mode \in {"tcp4", "udp4"} => IF Current.server = 1 THEN env.v4 ELSE env.peerV4

SidesFit == Trying => UnderlaysPair /\ HandshakesPair /\ ListenerReachable
=============================================================================
