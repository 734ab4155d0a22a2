----------------------------- MODULE AppTunnels -----------------------------
(***************************************************************************)
(* The tunnels of one app: slot 0 holds the direct tunnel to its peer,     *)
(* slot 1 the tunnel to a relay node (p2papp.go, tunnelNum = 2).  The      *)
(* app's daemon fills both, each tunnel has a read loop and a write loop   *)
(* (p2ptunnel.go), run() of the network clears the slots of a tunnel that  *)
(* was closed (tunnelCloseCh), and the relay heartbeat loop clears slot 1  *)
(* when a write fails.                                                     *)
(***************************************************************************)
EXTENDS Naturals, Sequences, FiniteSets

CONSTANTS
    Direct, Relay, \* identities of tunnels to the peer and to a relay node
    None,
    CloseCap,      \* capacity of tunnelCloseCh
    MaxFaults,     \* number of links that die, and of read loops that leave
    MayDegrade     \* the peer may stop being reachable directly, for good

P2PTunnels == Direct \cup Relay

VARIABLES
    slot,      \* app.allTunnels
    running,   \* t.running
    link,      \* the underlay connection
    reader,    \* the read loop
    allTunnels,\* pn.allTunnels
    closeCh,   \* pn.tunnelCloseCh
    daemon,    \* where daemonP2PTunnel is
    built,     \* the tunnel it has built
    beat,      \* the tunnel the relay heartbeat loop failed to write to
    direct,    \* the peer can be reached directly
    faults

vars == <<slot, running, link, reader, allTunnels, closeCh, daemon, built,
          beat, direct, faults>>

Init ==
    /\ slot = [i \in 0..1 |-> None]
    /\ running = [t \in P2PTunnels |-> FALSE]
    /\ link = [t \in P2PTunnels |-> "none"]
    /\ reader = [t \in P2PTunnels |-> FALSE]
    /\ allTunnels = {} /\ closeCh = <<>>
    /\ daemon = "direct" /\ built = None /\ beat = None
    /\ direct = TRUE /\ faults = 0

(* isActive, checkActive: a heartbeat came back within the last period.    *)
Active(t) == running[t] /\ link[t] = "up" /\ reader[t]

Fault == faults < MaxFaults /\ faults' = faults + 1

(* close(): run() is notified unless its channel is full; a tunnel that    *)
(* runs stops, its link is closed and it leaves pn.allTunnels.             *)
Close(t) ==
    /\ closeCh' = IF Len(closeCh) < CloseCap THEN Append(closeCh, t) ELSE closeCh
    /\ running' = [running EXCEPT ![t] = FALSE]
    /\ link' = IF running[t] THEN [link EXCEPT ![t] = "dead"] ELSE link
    /\ allTunnels' = IF running[t] THEN allTunnels \ {t} ELSE allTunnels

(* A tunnel object nobody refers to any more.                              *)
Fresh(kind) ==
    {t \in kind \ allTunnels :
        /\ ~running[t] /\ ~reader[t] /\ t \notin {slot[0], slot[1], built, beat}
        /\ \A i \in DOMAIN closeCh : closeCh[i] # t}

-----------------------------------------------------------------------------
(* The tunnels.                                                            *)

(* ReadBuffer fails: the read loop closes the tunnel and ends.             *)
ReadFails(t) ==
    /\ reader[t] /\ (link[t] # "up" \/ ~running[t])
    /\ reader' = [reader EXCEPT ![t] = FALSE]
    /\ Close(t)
    /\ UNCHANGED <<slot, daemon, built, beat, direct, faults>>

(* MsgOverlayConnectRsp for an app that is gone: the read loop returns     *)
(* without closing the tunnel.                                             *)
ReadLeaves(t) ==
    /\ reader[t] /\ link[t] = "up" /\ running[t] /\ Fault
    /\ reader' = [reader EXCEPT ![t] = FALSE]
    /\ UNCHANGED <<slot, running, link, allTunnels, closeCh, daemon, built, beat, direct>>

(* A heartbeat, or data, cannot be written.                                *)
WriteFails(t) ==
    /\ running[t] /\ link[t] = "dead" /\ Close(t)
    /\ UNCHANGED <<slot, reader, daemon, built, beat, direct, faults>>

LinkDies(t) ==
    /\ link[t] = "up" /\ Fault
    /\ link' = [link EXCEPT ![t] = "dead"]
    /\ UNCHANGED <<slot, running, reader, allTunnels, closeCh, daemon, built, beat, direct>>

Degrade ==
    /\ MayDegrade /\ direct /\ direct' = FALSE
    /\ UNCHANGED <<slot, running, link, reader, allTunnels, closeCh, daemon, built,
                   beat, faults>>

-----------------------------------------------------------------------------
(* The daemon.                                                             *)

(* Mutant: any tunnel in the slot will do. *)
DaemonDirectNotNil ==
    /\ daemon = "direct"
    /\ daemon' = IF slot[0] # None THEN "relay" ELSE "find direct"
    /\ UNCHANGED <<slot, running, link, reader, allTunnels, closeCh, built, beat,
                   direct, faults>>

(* daemonDirectTunnel: nothing to do while slot 0 is active.               *)
DaemonDirect ==
    /\ daemon = "direct"
    /\ daemon' = IF slot[0] # None /\ Active(slot[0]) THEN "relay" ELSE "find direct"
    /\ UNCHANGED <<slot, running, link, reader, allTunnels, closeCh, built, beat,
                   direct, faults>>

(* daemonRelayTunnel: nothing to do while the heartbeats of slot 1 come    *)
(* back; otherwise the slot is cleared first.                              *)
DaemonRelay ==
    /\ daemon = "relay"
    /\ IF slot[1] # None /\ Active(slot[1])
       THEN daemon' = "direct" /\ UNCHANGED slot
       ELSE daemon' = "find relay" /\ slot' = [slot EXCEPT ![1] = None]
    /\ UNCHANGED <<running, link, reader, allTunnels, closeCh, built, beat, direct, faults>>

Kind == IF daemon \in {"find direct", "connect direct"} THEN Direct ELSE Relay

(* findTunnel: the first tunnel Range meets is taken if it is active, and  *)
(* otherwise closed.                                                       *)
FindTunnel ==
    /\ daemon \in {"find direct", "find relay"}
    /\ LET found == allTunnels \cap Kind
       IN \/ /\ found = {}
             /\ daemon' = IF Kind = Direct THEN "connect direct" ELSE "connect relay"
             /\ UNCHANGED <<running, link, allTunnels, closeCh, built>>
          \/ \E t \in found :
                IF Active(t)
                THEN /\ built' = t
                     /\ daemon' = IF Kind = Direct THEN "set direct" ELSE "set relay"
                     /\ UNCHANGED <<running, link, allTunnels, closeCh>>
                ELSE /\ Close(t)
                     /\ daemon' = IF Kind = Direct THEN "connect direct" ELSE "connect relay"
                     /\ UNCHANGED built
    /\ UNCHANGED <<slot, reader, beat, direct, faults>>

(* newTunnel: connect() succeeds, and its loops run from then on.          *)
Connect ==
    /\ daemon \in {"connect direct", "connect relay"}
    /\ Kind = Direct => direct
    /\ \E t \in Fresh(Kind) :
          /\ built' = t
          /\ running' = [running EXCEPT ![t] = TRUE]
          /\ link' = [link EXCEPT ![t] = "up"]
          /\ reader' = [reader EXCEPT ![t] = TRUE]
    /\ daemon' = IF Kind = Direct THEN "store direct" ELSE "store relay"
    /\ UNCHANGED <<slot, allTunnels, closeCh, beat, direct, faults>>

(* No link mode works.  The slot keeps what it has.                        *)
ConnectFails ==
    /\ daemon = "connect direct" /\ ~direct
    /\ daemon' = "relay"
    /\ UNCHANGED <<slot, running, link, reader, allTunnels, closeCh, built, beat,
                   direct, faults>>

(* newTunnel: "store it when success".                                     *)
Store ==
    /\ daemon \in {"store direct", "store relay"}
    /\ allTunnels' = allTunnels \cup {built}
    /\ daemon' = IF daemon = "store direct" THEN "set direct" ELSE "set relay"
    /\ UNCHANGED <<slot, running, link, reader, closeCh, built, beat, direct, faults>>

(* buildDirectTunnel, buildRelayTunnel: SetTunnel.                         *)
SetTunnel ==
    /\ daemon \in {"set direct", "set relay"}
    /\ slot' = [slot EXCEPT ![IF daemon = "set direct" THEN 0 ELSE 1] = built]
    /\ built' = None
    /\ daemon' = IF daemon = "set direct" THEN "relay" ELSE "direct"
    /\ UNCHANGED <<running, link, reader, allTunnels, closeCh, beat, direct, faults>>

-----------------------------------------------------------------------------
(* run(): every slot that holds the closed tunnel is cleared.              *)
RunClears ==
    /\ closeCh # <<>> /\ closeCh' = Tail(closeCh)
    /\ slot' = [i \in 0..1 |-> IF slot[i] = Head(closeCh) THEN None ELSE slot[i]]
    /\ UNCHANGED <<running, link, reader, allTunnels, daemon, built, beat, direct, faults>>

(* relayHeartbeatLoop: the write fails, and then the slot is cleared,      *)
(* whatever it holds by now.                                               *)
HeartbeatFails ==
    /\ beat = None /\ slot[1] # None
    /\ running[slot[1]] /\ link[slot[1]] = "dead"
    /\ beat' = slot[1]
    /\ UNCHANGED <<slot, running, link, reader, allTunnels, closeCh, daemon, built,
                   direct, faults>>

HeartbeatClears ==
    /\ beat # None /\ beat' = None
    /\ slot' = [slot EXCEPT ![1] = None]
    /\ UNCHANGED <<running, link, reader, allTunnels, closeCh, daemon, built, direct, faults>>

-----------------------------------------------------------------------------
DaemonStep == DaemonDirect \/ DaemonRelay \/ FindTunnel \/ Connect \/ ConnectFails
              \/ Store \/ SetTunnel

Next ==
    \/ DaemonStep \/ RunClears \/ HeartbeatFails \/ HeartbeatClears \/ Degrade
    \/ \E t \in P2PTunnels : ReadFails(t) \/ ReadLeaves(t) \/ WriteFails(t) \/ LinkDies(t)

(* The retry timers of the daemon run out, and every loop is scheduled.    *)
Spec == /\ Init /\ [][Next]_vars
        /\ WF_vars(DaemonStep) /\ WF_vars(RunClears) /\ WF_vars(HeartbeatClears)
        /\ \A t \in P2PTunnels : WF_vars(ReadFails(t)) /\ WF_vars(WriteFails(t))

-----------------------------------------------------------------------------
Alive(i) == slot[i] # None /\ Active(slot[i])

(* While the peer can be reached directly, the app gets an active direct   *)
(* tunnel back whatever happened to the old one: its link died, its read   *)
(* loop left without closing it, the notification did not fit the channel, *)
(* or it closed before it was stored.  The relay tunnel comes back too.    *)
TunnelsHeal == <>[](~direct \/ Alive(0)) /\ <>[]Alive(1)
=============================================================================
