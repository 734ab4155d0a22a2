------------------------------ MODULE MCTunnels -----------------------------
(***************************************************************************)
(* The layers of an app of the engine, for TLC: the table of apps          *)
(* (AppTable), an app's tunnels (AppTunnels), the attempts to get a direct *)
(* one (LinkModes), the UDP handshake (HolePunch) and the TCP punch        *)
(* (SymmetricPunch) of such an attempt, and the connections of an app's    *)
(* users over a tunnel (Overlay, once with tcp and once with udp).  They   *)
(* share no state: the initial state chooses one and only that one moves.  *)
(***************************************************************************)
EXTENDS Naturals

CONSTANTS
    None,
    Ports, Nodes, MaxEntries, MaxApps, InitLen, MaxPushes, MaxAdds,
    Direct, Relay, CloseCap, MaxFaults, MayDegrade,
    Versions, Sockets, Guessed, MaxLoss, Conns, NoConn, MaxBreaks,
    Users, Tunnels, MaxData, MayClose, UDPUsers, OnePort, UDPData

(* Versions are the classes of LinkModes.  The names of what is no socket  *)
(* and no connection are not the names of one, the one port that a peer    *)
(* behind a cone NAT tells is the port of a socket, and who shares a port  *)
(* number is a user.                                                       *)
ASSUME VersionAssumption == Versions \subseteq 1 .. 4
ASSUME SocketAssumption ==
    "cone" \notin Sockets /\ "none" \notin Sockets /\ Guessed \subseteq Sockets /\ Guessed # {}
ASSUME UserAssumption == OnePort \subseteq UDPUsers
ASSUME ConnAssumption == NoConn \notin Conns /\ "error" \notin Conns

VARIABLES
    part,
    heap, conf, apps, snap, shared, at, runner, adding, push, pushes, adds, embed,
    slot, running, link, reader, allTunnels, closeCh, daemon, built, beat, direct, faults,
    env, trying, result,
    peerCone, pc, holes, net, answering, got, local, loss,
    conn, cone, sym, ack, success, gotCh, returned, breaks,
    appRunning, closing, loop, listener, user, client, remote, server, toPeer, toUs,
    payloads, strays, ended, overtaken

tableVars == <<heap, conf, apps, snap, shared, at, runner, adding, push, pushes, adds, embed>>
tunnelVars == <<slot, running, link, reader, allTunnels, closeCh, daemon, built,
                beat, direct, faults>>
modeVars == <<env, trying, result>>
udpPunchVars == <<peerCone, pc, holes, net, answering, got, local, loss>>
tcpPunchVars == <<conn, cone, sym, ack, success, gotCh, returned, breaks>>
punchVars == <<udpPunchVars, tcpPunchVars>>
overlayVars == <<appRunning, closing, loop, listener, user, client, remote, server,
                 toPeer, toUs, payloads, strays, ended, overtaken>>

Table == INSTANCE AppTable
App == INSTANCE AppTunnels
Modes == INSTANCE LinkModes WITH at <- trying
Punch == INSTANCE HolePunch WITH remote <- answering
TCPPunch == INSTANCE SymmetricPunch WITH result <- returned
TCP == INSTANCE Overlay WITH Protocol <- "tcp", running <- appRunning
Tunnel == CHOOSE t \in Tunnels : TRUE
UDP == INSTANCE Overlay
         WITH Protocol <- "udp", Users <- UDPUsers, Tunnels <- {Tunnel}, MaxData <- UDPData,
              MayClose <- FALSE, running <- appRunning

Unused == CHOOSE c \in Table!Config : ~c.enabled

Init ==
    /\ part \in {"table", "tunnels", "modes", "udp punch", "tcp punch", "tcp", "udp"}
    /\ part # "table" => heap = [e \in Table!Entries |-> Unused]
    /\ env \in IF part = "modes" THEN Modes!Env ELSE {CHOOSE e \in Modes!Env : TRUE}
    /\ peerCone \in IF part = "udp punch" THEN BOOLEAN ELSE {TRUE}
    /\ Table!Init /\ App!Init /\ Modes!Init /\ Punch!Init /\ TCPPunch!Init
    /\ IF part = "udp" THEN UDP!Init ELSE TCP!Init

Next ==
    /\ UNCHANGED part
    /\ \/ part = "table" /\ Table!Next /\ UNCHANGED <<tunnelVars, modeVars, punchVars, overlayVars>>
       \/ part = "tunnels" /\ App!Next /\ UNCHANGED <<tableVars, modeVars, punchVars, overlayVars>>
       \/ part = "modes" /\ Modes!Next /\ UNCHANGED <<tableVars, tunnelVars, punchVars, overlayVars>>
       \/ /\ part = "udp punch" /\ Punch!Next
          /\ UNCHANGED <<tableVars, tunnelVars, modeVars, tcpPunchVars, overlayVars>>
       \/ /\ part = "tcp punch" /\ TCPPunch!Next
          /\ UNCHANGED <<tableVars, tunnelVars, modeVars, udpPunchVars, overlayVars>>
       \/ part = "tcp" /\ TCP!Next /\ UNCHANGED <<tableVars, tunnelVars, modeVars, punchVars>>
       \/ part = "udp" /\ UDP!Next /\ UNCHANGED <<tableVars, tunnelVars, modeVars, punchVars>>

(* autorunApp calls runAll again and again; a handler that began, ends.    *)
TableFairness ==
    /\ WF_tableVars(part = "table" /\ Table!RunnerStep)
    /\ WF_tableVars(part = "table" /\ Table!PushStep)
    /\ WF_tableVars(part = "table" /\ Table!EmbedStarts)

(* The retry timers of the daemon run out, and every loop is scheduled.    *)
TunnelFairness ==
    /\ WF_tunnelVars(part = "tunnels" /\ App!DaemonStep)
    /\ WF_tunnelVars(part = "tunnels" /\ App!RunClears)
    /\ WF_tunnelVars(part = "tunnels" /\ App!HeartbeatClears)
    /\ \A t \in Direct \cup Relay :
          /\ WF_tunnelVars(part = "tunnels" /\ App!ReadFails(t))
          /\ WF_tunnelVars(part = "tunnels" /\ App!WriteFails(t))

(* Goroutines are scheduled, the tunnels deliver what they took, and a     *)
(* connection that was stopped ends; no user has to come or go.            *)
OverlayFairness == WF_overlayVars(part = "tcp" /\ TCP!Progress)

(* Both ends of a punch keep reading and sending until their timeout.      *)
PunchFairness == WF_udpPunchVars(part = "udp punch" /\ Punch!Progress)

Spec ==
    /\ Init /\ [][Next]_<<part, tableVars, tunnelVars, modeVars, punchVars, overlayVars>>
    /\ PunchFairness /\ TableFairness /\ TunnelFairness /\ OverlayFairness

(* No two running apps listen on one port, whichever pushes arrive while   *)
(* runAll walks: AddApp checks whether the app already exists.             *)
OneAppPerPort == Table!OneAppPerPort

(* Whatever is pushed and however the slice moves under runAll's feet,     *)
(* every configured app that is switched on runs in the end.               *)
EnabledAppsRun == part = "table" => Table!EnabledAppsRun

(* An app gets its tunnels back, the direct one while the peer can be      *)
(* reached directly and the relay one, whatever happened to the old ones.  *)
TunnelsHeal == part = "tunnels" => App!TunnelsHeal

(* In every attempt of every pair of peers the two sides, which decide on  *)
(* their own, fit each other: ends of the same underlay, matching          *)
(* handshakes, and a listener that can be reached.                         *)
SidesFit == Modes!SidesFit

(* The two sides of a punch go on with the same path.  UDP: the address    *)
(* the cone side will use is the socket the symmetric side will use,       *)
(* however many sockets got through and whatever was lost.  TCP: they      *)
(* never go on with different connections, however many come up, break or  *)
(* time out.                                                               *)
PeersAgree == Punch!Agreement /\ TCPPunch!SameConn

(* If a port was guessed and nothing is lost, both sides get through, in   *)
(* whichever order they start: the first packets die at closed holes.      *)
BothGetThrough == part = "udp punch" => Punch!BothGetThrough

(* What the service answers to a user's payload reaches that user: always  *)
(* with tcp, and with udp unless another user sends from the same port     *)
(* number; then it reaches one of these.                                   *)
AnswersReachSender ==
    IF part = "udp" THEN UDP!AnswersReachSender ELSE TCP!AnswersReachSender

(* In the end a tcp connection of a user whose end here has gone has ended *)
(* at the peer, unless the peer was told so before it made the connection; *)
(* one that has ended at the peer has ended here; and Close of the app has *)
(* returned.                                                               *)
BothEnd == <>[](part = "tcp" => TCP!Settled)
=============================================================================
