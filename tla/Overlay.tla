------------------------------- MODULE Overlay -------------------------------
(***************************************************************************)
(* The connections an app carries (overlay.go, the listeners of p2papp.go  *)
(* and the overlay messages of p2ptunnel.go).  The app's worker listens on *)
(* the local port; for a user it has not seen it stores an overlay         *)
(* connection, asks the peer to connect to the service, waits up to 3 s    *)
(* for the answer, and starts a goroutine that forwards what the user      *)
(* sends.  Each end that ends tells the other.  A udp app has one socket:  *)
(* it is the listener and the connection of every user.                    *)
(***************************************************************************)
EXTENDS Naturals, FiniteSets, Sequences

CONSTANTS
    Users,      \* hosts (and ports) that use the app
    Protocol,   \* "tcp" or "udp"
    OnePort,    \* users that happen to send from the same port number
    Tunnels,    \* tunnels of the app: each keeps the order of its messages
    MaxData,    \* number of payloads
    MayClose,   \* the app may be closed
    None

VARIABLES
    running,   \* the app runs
    closing,   \* where app.Close is
    loop,      \* where the listening worker is: a step, or the user it waits for
    listener,  \* the local socket is open
    user,      \* per tcp user: "new", "open" or "gone" (its connection was closed)
    client,    \* overlayConns of this node: id -> where its goroutine is
    remote,    \* the user an overlay connection was created for
    server,    \* overlayConns of the peer
    toPeer, toUs,   \* messages per tunnel
    payloads,
    strays,    \* history: <<a user, another user who got the answer to its payload>>
    ended,     \* history (tcp): connections that ended at the peer
    overtaken  \* history: connections that the peer was told to end before it made them

conns == <<client, remote>>
history == <<strays, ended, overtaken>>
vars == <<running, closing, loop, listener, user, conns, server, toPeer, toUs, payloads, history>>

(* Mutant: the id is the same for all. *)
overlayIDFixed(u) == CHOOSE v \in Users : TRUE

(* rand.Uint64() for tcp.  For udp the first four of the 16 bytes that     *)
(* net.ParseIP returns, which are 0 for every IPv4 address, and the port.  *)
overlayID(u) == IF Protocol = "udp" /\ u \in OnePort THEN CHOOSE v \in OnePort : TRUE ELSE u

Init ==
    /\ running = TRUE /\ closing = "no" /\ loop = "create" /\ listener = FALSE
    /\ user = [u \in Users |-> "new"]
    /\ client = [i \in Users |-> "none"] /\ remote = [i \in Users |-> None]
    /\ server = [i \in Users |-> "none"]
    /\ toPeer = [t \in Tunnels |-> << >>] /\ toUs = [t \in Tunnels |-> << >>]
    /\ payloads = 0 /\ strays = {} /\ ended = {} /\ overtaken = {}

Message(type, id, from) == [type |-> type, id |-> id, from |-> from]
Send(net, t, messages) == [net EXCEPT ![t] = @ \o messages]

-----------------------------------------------------------------------------
(* listen and listenTCP / listenUDP: create, look at running, accept.      *)
Create ==
    /\ loop = "create" /\ listener' = TRUE /\ loop' = "check"
    /\ UNCHANGED <<running, closing, user, conns, server, toPeer, toUs, payloads, history>>

Check ==
    /\ loop = "check" /\ loop' = (IF running THEN "accept" ELSE "done")
    /\ listener' = (listener /\ running)
    /\ UNCHANGED <<running, closing, user, conns, server, toPeer, toUs, payloads, history>>

(* Accept or ReadFrom fails: the socket was closed.  listen() tries again  *)
(* after a pause as long as the app runs.                                  *)
AcceptFails ==
    /\ loop = "accept" /\ ~listener /\ loop' = (IF running THEN "create" ELSE "done")
    /\ UNCHANGED <<running, closing, listener, user, conns, server, toPeer, toUs, payloads, history>>

(* A user connects, or its datagram has an id that is not in overlayConns. *)
(* (Without a tunnel, or off the white list, nothing is stored.)           *)
AcceptNew(u) ==
    /\ loop = "accept" /\ listener /\ client[overlayID(u)] = "none"
    /\ \/ Protocol = "tcp" /\ user[u] = "new" /\ user' = [user EXCEPT ![u] = "open"] /\ UNCHANGED payloads
       \/ Protocol = "udp" /\ payloads < MaxData /\ payloads' = payloads + 1 /\ UNCHANGED user
    /\ client' = [client EXCEPT ![overlayID(u)] = "stored"] /\ remote' = [remote EXCEPT ![overlayID(u)] = u]
    /\ \E t \in Tunnels : toPeer' = Send(toPeer, t, << Message("connect", overlayID(u), u) >>)
    /\ loop' = u
    /\ UNCHANGED <<running, closing, listener, server, toUs, history>>

(* ReadMessage: the answer, or 3 s have passed; nothing tells a failed     *)
(* connect from a slow one.  Then the goroutine runs, unless it was        *)
(* stopped, and takes the datagram that opened the connection.             *)
Answered(u) ==
    /\ loop = u /\ loop' = "check" /\ client' = [client EXCEPT ![overlayID(u)] = IF @ = "stored" THEN "run" ELSE @]
    /\ IF Protocol = "udp" /\ client[overlayID(u)] = "stored"
       THEN \E t \in Tunnels : toPeer' = Send(toPeer, t, << Message("data", overlayID(u), u) >>)
       ELSE UNCHANGED toPeer
    /\ UNCHANGED <<running, closing, listener, user, remote, server, toUs, payloads, history>>

(* A user sends: through its own connection, or, with udp, through what    *)
(* the listener finds under its id.                                        *)
UserSends(u) ==
    /\ payloads < MaxData /\ payloads' = payloads + 1
    /\ client[overlayID(u)] = "run"
    /\ IF Protocol = "udp" THEN loop = "accept" /\ listener ELSE user[u] = "open"
    /\ \E t \in Tunnels : toPeer' = Send(toPeer, t, << Message("data", overlayID(u), u) >>)
    /\ UNCHANGED <<running, closing, loop, listener, user, conns, server, toUs, history>>

-----------------------------------------------------------------------------
(* handleOverlayConnectReq: the service is dialled in readLoop; when that  *)
(* fails nothing is answered.                                              *)
HandleConnect(t) ==
    /\ toPeer[t] # << >> /\ Head(toPeer[t]).type = "connect"
    /\ toPeer' = [toPeer EXCEPT ![t] = Tail(@)]
    /\ \/ server' = [server EXCEPT ![Head(toPeer[t]).id] = "run"]
       \/ UNCHANGED server
    /\ UNCHANGED <<running, closing, loop, listener, user, conns, toUs, payloads, history>>

(* MsgOverlayData at the peer: the service answers each payload.           *)
HandleData(t) ==
    /\ toPeer[t] # << >> /\ Head(toPeer[t]).type = "data"
    /\ toPeer' = [toPeer EXCEPT ![t] = Tail(@)]
    /\ IF server[Head(toPeer[t]).id] = "run"
       THEN \E s \in Tunnels : toUs' = Send(toUs, s, << Head(toPeer[t]) >>)
       ELSE UNCHANGED toUs
    /\ UNCHANGED <<running, closing, loop, listener, user, conns, server, payloads, history>>

(* Mutant: a connection that was disconnected is left running. *)
HandleDisconnectIgnored(t) ==
    /\ toPeer[t] # << >> /\ Head(toPeer[t]).type = "disconnect"
    /\ toPeer' = [toPeer EXCEPT ![t] = Tail(@)]
    /\ UNCHANGED <<running, closing, loop, listener, user, conns, server, toUs, payloads, history>>

Connecting(i) == \E t \in Tunnels : \E k \in DOMAIN toPeer[t] : toPeer[t][k].type = "connect" /\ toPeer[t][k].id = i

(* MsgOverlayDisconnectReq at the peer.  It may have overtaken the connect *)
(* request, which AvailableTunnel had sent through another tunnel.         *)
HandleDisconnect(t) ==
    /\ toPeer[t] # << >> /\ Head(toPeer[t]).type = "disconnect"
    /\ toPeer' = [toPeer EXCEPT ![t] = Tail(@)]
    /\ LET i == Head(toPeer[t]).id IN
          /\ server' = [server EXCEPT ![i] = IF @ = "run" THEN "stopped" ELSE @]
          /\ overtaken' = IF Connecting(i) THEN overtaken \cup {i} ELSE overtaken
    /\ UNCHANGED <<running, closing, loop, listener, user, conns, toUs, payloads, strays, ended>>

(* The goroutine at the peer ends, because the service closed or because   *)
(* it was stopped, and notifies this node.                                 *)
ServerEnds(i) ==
    /\ server[i] \in {"run", "stopped"} /\ server' = [server EXCEPT ![i] = "none"]
    /\ ended' = IF Protocol = "tcp" THEN ended \cup {i} ELSE ended
    /\ \E t \in Tunnels : toUs' = Send(toUs, t, << Message("disconnect", i, None) >>)
    /\ UNCHANGED <<running, closing, loop, listener, user, conns, toPeer, payloads, strays, overtaken>>

-----------------------------------------------------------------------------
(* MsgOverlayData here: it is written to the user the connection was       *)
(* created for; with a closed socket the write fails and ends it.          *)
ReceiveData(t) ==
    /\ toUs[t] # << >> /\ Head(toUs[t]).type = "data" /\ toUs' = [toUs EXCEPT ![t] = Tail(@)]
    /\ LET m == Head(toUs[t]) IN
          \/ /\ client[m.id] \notin {"stored", "run"} /\ UNCHANGED <<client, strays>>
          \/ /\ client[m.id] \in {"stored", "run"} /\ (Protocol = "udp" => listener)
             /\ strays' = strays \cup ({<<m.from, remote[m.id]>>} \ {<<m.from, m.from>>}) /\ UNCHANGED client
          \/ /\ client[m.id] \in {"stored", "run"} /\ Protocol = "udp" /\ ~listener
             /\ client' = [client EXCEPT ![m.id] = "stopped"] /\ UNCHANGED strays
    /\ UNCHANGED <<running, closing, loop, listener, user, remote, server, toPeer, payloads, ended, overtaken>>

(* What overlayConn.Close and the end of run() do to the socket: a tcp     *)
(* connection is the user's own, the udp socket is everybody's.            *)
CloseSocket(i) ==
    /\ listener' = (listener /\ Protocol = "tcp")
    /\ user' = IF Protocol = "tcp" THEN [user EXCEPT ![remote[i]] = "gone"] ELSE user

ReceiveDisconnect(t) ==
    /\ toUs[t] # << >> /\ Head(toUs[t]).type = "disconnect" /\ toUs' = [toUs EXCEPT ![t] = Tail(@)]
    /\ LET i == Head(toUs[t]).id IN
          IF client[i] \in {"stored", "run"}
          THEN client' = [client EXCEPT ![i] = "stopped"] /\ CloseSocket(i)
          ELSE UNCHANGED <<client, listener, user>>
    /\ UNCHANGED <<running, closing, loop, remote, server, toPeer, payloads, history>>

(* run() ends: the user closed, 5 minutes without a datagram, or stopped.  *)
(* It closes the socket, forgets the connection and notifies the peer.     *)
ClientEnds(i) ==
    /\ client[i] = "run" \/ (client[i] = "stopped" /\ loop # remote[i])
    /\ client' = [client EXCEPT ![i] = "none"] /\ remote' = [remote EXCEPT ![i] = None]
    /\ CloseSocket(i)
    /\ \E t \in Tunnels : toPeer' = Send(toPeer, t, << Message("disconnect", i, None) >>)
    /\ UNCHANGED <<running, closing, loop, server, toUs, payloads, history>>

-----------------------------------------------------------------------------
(* app.Close: running is reset, then the listener is closed if there is    *)
(* one, then the overlay connections, then the workers are waited for.     *)
CloseBegins ==
    /\ MayClose /\ closing = "no" /\ closing' = "listener" /\ running' = FALSE
    /\ UNCHANGED <<loop, listener, user, conns, server, toPeer, toUs, payloads, history>>

CloseListener ==
    /\ closing = "listener" /\ closing' = "conns" /\ listener' = FALSE
    /\ UNCHANGED <<running, loop, user, conns, server, toPeer, toUs, payloads, history>>

closeOverlayConns ==
    /\ closing = "conns" /\ closing' = "wait"
    /\ client' = [i \in Users |-> IF client[i] \in {"stored", "run"} THEN "stopped" ELSE client[i]]
    /\ UNCHANGED <<running, loop, listener, user, remote, server, toPeer, toUs, payloads, history>>

CloseReturns ==
    /\ closing = "wait" /\ loop = "done" /\ closing' = "returned"
    /\ UNCHANGED <<running, loop, listener, user, conns, server, toPeer, toUs, payloads, history>>

Listening == Create \/ Check \/ AcceptFails \/ \E u \in Users : Answered(u)
Delivery(t) == \/ HandleConnect(t) \/ HandleData(t) \/ HandleDisconnect(t)
               \/ ReceiveData(t) \/ ReceiveDisconnect(t)
Closing == CloseListener \/ closeOverlayConns \/ CloseReturns

Next ==
    \/ Listening \/ CloseBegins \/ Closing
    \/ \E u \in Users : AcceptNew(u) \/ UserSends(u)
    \/ \E t \in Tunnels : Delivery(t)
    \/ \E i \in Users : ServerEnds(i) \/ ClientEnds(i)

StoppedEnds(i) == (client[i] = "stopped" /\ ClientEnds(i)) \/ (server[i] = "stopped" /\ ServerEnds(i))

Progress ==
    \/ Listening \/ Closing
    \/ \E t \in Tunnels : Delivery(t)
    \/ \E i \in Users : StoppedEnds(i)

(* Goroutines are scheduled, the tunnels deliver what they took, and a     *)
(* connection that was stopped ends; no user has to come or go.  A tcp app *)
(* takes finitely many of these steps between two steps of its users, so   *)
(* one condition on all of them starves none.                              *)
Spec == Init /\ [][Next]_vars /\ WF_vars(Progress)

-----------------------------------------------------------------------------
(* What the service answers to a user's payload reaches that user: always  *)
(* with tcp, and with udp unless another user sends from the same port     *)
(* number; then it reaches one of these.                                   *)
AnswersReachSender == strays \subseteq IF Protocol = "udp" THEN OnePort \X OnePort ELSE {}

(* When the users of a tcp app have come and gone, a connection whose end  *)
(* here has gone has ended at the peer, unless the peer was told so before *)
(* it made the connection; and one that has ended at the peer has ended    *)
(* here.  (One that the peer could not make has no end there, and stays    *)
(* here until its user goes.)  And Close has returned: the worker does not *)
(* stay in Accept.                                                         *)
Settled ==
    /\ \A i \in Users : /\ server[i] = "run" /\ client[i] = "none" => i \in overtaken
                        /\ i \in ended => client[i] = "none"
    /\ closing \in {"no", "returned"}

BothEnd == <>[]Settled
=============================================================================
