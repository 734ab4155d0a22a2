----------------------------- MODULE V4Listener -----------------------------
(***************************************************************************)
(* The listener for direct connections of a node with a public address     *)
(* (v4listener.go).  One goroutine per protocol listens, accepts, and      *)
(* listens again after a pause; a goroutine per connection reads the id of *)
(* the tunnel it is for and puts it into conns; the tunnel polls conns.    *)
(* Stop closes what listeners there are and waits for the two goroutines,  *)
(* while Engine.Stop holds networkMu.                                      *)
(***************************************************************************)
EXTENDS Naturals, FiniteSets

CONSTANTS
    Tunnels,    \* ids of tunnels that wait for a connection
    Conns,      \* connections that arrive
    Polls,      \* times a tunnel looks (100)
    QueueSize,  \* capacity of acceptCh (500)
    MayStop,    \* stop may be called
    None

Protocols == {"tcp", "udp"}

VARIABLES
    running,
    worker,    \* per protocol: where its goroutine is
    listener,  \* per protocol: "nil", "open" or "closed"
    expired,   \* the context all AcceptStream calls of a udp listener share is over
    stop,      \* where stop is
    conn,      \* per connection: where it is
    hello,     \* the tunnel it is for
    conns,     \* tunnel -> connection
    acceptCh,  \* number of tokens
    left,      \* polls a tunnel has left
    got        \* what getUnderlay returned

workers == <<running, worker, listener, expired, stop>>
vars == <<workers, conn, hello, conns, acceptCh, left, got>>

Init ==
    /\ running = TRUE /\ worker = [p \in Protocols |-> "check"]
    /\ listener = [p \in Protocols |-> "nil"] /\ expired = FALSE /\ stop = "idle"
    /\ conn = [c \in Conns |-> "away"] /\ hello \in [Conns -> Tunnels]
    /\ conns = [t \in Tunnels |-> None] /\ acceptCh = 0
    /\ left = [t \in Tunnels |-> Polls] /\ got = [t \in Tunnels |-> None]

-----------------------------------------------------------------------------
(* The goroutine of start: for vl.running { listen; sleep }.               *)
Check(p) ==
    /\ worker[p] = "check"
    /\ worker' = [worker EXCEPT ![p] = IF running THEN "listen" ELSE "done"]
    /\ UNCHANGED <<running, listener, expired, stop, conn, hello, conns, acceptCh, left, got>>

(* Listening may fail; running is not looked at again.                     *)
ListenOn(p) ==
    /\ worker[p] = "listen"
    /\ \/ /\ listener' = [listener EXCEPT ![p] = "open"]
          /\ worker' = [worker EXCEPT ![p] = "accept"]
          /\ expired' = IF p = "udp" THEN FALSE ELSE expired
       \/ /\ worker' = [worker EXCEPT ![p] = "check"] /\ UNCHANGED <<listener, expired>>
    /\ UNCHANGED <<running, stop, conn, hello, conns, acceptCh, left, got>>

(* Accept fails once the listener is closed.                               *)
ListenEnds(p) ==
    /\ worker[p] = "accept" /\ listener[p] = "closed"
    /\ listener' = [listener EXCEPT ![p] = "nil"] /\ worker' = [worker EXCEPT ![p] = "check"]
    /\ UNCHANGED <<running, expired, stop, conn, hello, conns, acceptCh, left, got>>

ContextExpires ==
    /\ worker["udp"] = "accept" /\ ~expired /\ expired' = TRUE
    /\ UNCHANGED <<running, worker, listener, stop, conn, hello, conns, acceptCh, left, got>>

(* AcceptStream fails when the context is over before the session has a    *)
(* stream; that closes the listener.                                       *)
Accept(p, c) ==
    /\ worker[p] = "accept" /\ listener[p] = "open" /\ conn[c] = "away"
    /\ \/ conn' = [conn EXCEPT ![c] = "handshake"] /\ UNCHANGED listener
       \/ /\ p = "udp" /\ expired
          /\ listener' = [listener EXCEPT ![p] = "closed"] /\ conn' = [conn EXCEPT ![c] = "lost"]
    /\ UNCHANGED <<running, worker, expired, stop, hello, conns, acceptCh, left, got>>

-----------------------------------------------------------------------------
(* handleConnection: the id is read or not; connections that waited too    *)
(* long are dropped from conns; a token is left when there is room.        *)
HandleConnection(c) ==
    /\ conn[c] = "handshake"
    /\ \/ conn' = [conn EXCEPT ![c] = "lost"] /\ UNCHANGED <<conns, acceptCh>>
       \/ /\ conn' = [conn EXCEPT ![c] = "stored"]
          /\ \E old \in SUBSET {t \in Tunnels : conns[t] # None} :
                conns' = [[t \in Tunnels |-> IF t \in old THEN None ELSE conns[t]]
                             EXCEPT ![hello[c]] = c]
          /\ acceptCh' = IF acceptCh < QueueSize THEN acceptCh + 1 ELSE acceptCh
    /\ UNCHANGED <<workers, hello, left, got>>

(* Mutant: the connection is looked up and left there. *)
TakeLeaves(t) == conns' = conns

(* LoadAndDelete.                                                          *)
Take(t) == conns' = [conns EXCEPT ![t] = None]

(* One round of getUnderlay, after 50 ms or with a token.                  *)
GetUnderlay(t) ==
    /\ left[t] > 0 /\ got[t] = None
    /\ acceptCh' \in {acceptCh, acceptCh - 1} /\ acceptCh' >= 0
    /\ Take(t)
    /\ got' = [got EXCEPT ![t] = conns[t]]
    /\ left' = [left EXCEPT ![t] = @ - 1]
    /\ UNCHANGED <<workers, conn, hello>>

(* The tunnel is built again after it got its connection.                  *)
WaitAgain(t) ==
    /\ got[t] # None /\ left[t] > 0 /\ conn' = [conn EXCEPT ![got[t]] = "used"]
    /\ got' = [got EXCEPT ![t] = None]
    /\ UNCHANGED <<workers, hello, conns, acceptCh, left>>

-----------------------------------------------------------------------------
StopBegins ==
    /\ MayStop /\ stop = "idle" /\ running' = FALSE /\ stop' = "tcp"
    /\ UNCHANGED <<worker, listener, expired, conn, hello, conns, acceptCh, left, got>>

StopCloses(p) ==
    /\ stop = p /\ stop' = IF p = "tcp" THEN "udp" ELSE "wait"
    /\ listener' = [listener EXCEPT ![p] = IF @ = "open" THEN "closed" ELSE @]
    /\ UNCHANGED <<running, worker, expired, conn, hello, conns, acceptCh, left, got>>

StopReturns ==
    /\ stop = "wait" /\ \A p \in Protocols : worker[p] = "done" /\ stop' = "returned"
    /\ UNCHANGED <<running, worker, listener, expired, conn, hello, conns, acceptCh, left, got>>

Worker(p) == Check(p) \/ ListenOn(p) \/ ListenEnds(p)
Stop == StopReturns \/ \E p \in Protocols : StopCloses(p)

Next ==
    \/ \E p \in Protocols : Worker(p)
    \/ \E p \in Protocols, c \in Conns : Accept(p, c)
    \/ ContextExpires \/ StopBegins \/ Stop
    \/ \E c \in Conns : HandleConnection(c)
    \/ \E t \in Tunnels : GetUnderlay(t) \/ WaitAgain(t)

Spec == Init /\ [][Next]_vars

-----------------------------------------------------------------------------
(* A connection is handed to one tunnel and handed over once: no two       *)
(* owners read the same stream.                                            *)
OneOwner ==
    \A t \in Tunnels : got[t] # None =>
        /\ conn[got[t]] = "stored"
        /\ \A s \in Tunnels : conns[s] # got[t] /\ (s # t => got[s] # got[t])
=============================================================================
