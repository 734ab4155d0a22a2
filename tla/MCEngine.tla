------------------------------ MODULE MCEngine ------------------------------
(***************************************************************************)
(* The engine's own goroutines, for TLC: Start and Stop of the module      *)
(* (Engine, with one caller and with two), the connection to the gateway   *)
(* (Gateway, as it recovers and is stopped), the shared listeners          *)
(* (V4Listener) and the tunnels in config.json (ConfigFile; "store": two   *)
(* commands at a time, "config": one command and the engine's own saves).  *)
(* They share no state: the initial state chooses one and only that one    *)
(* moves.                                                                  *)
(***************************************************************************)
EXTENDS Naturals

CONSTANTS
    None,
    Sockets, Closers, MaxFaults,
    Callers, MaxStarts,
    Tunnels, Conns, Polls, QueueSize, MayStop,
    Users, Pair, WG, OnePort, NoSave, MaxCommands, MaxCrashes

(* None is no connection, NoSave no configuration, and the two internal    *)
(* tunnels, which are bound to reserved ports, are no tunnels of a user.   *)
ASSUME ConnAssumption == None \notin Conns
ASSUME ConfigAssumption ==
    /\ Pair \notin Users /\ WG \notin Users
    /\ \A apps \in SUBSET (Users \cup {Pair, WG}) : apps # NoSave

VARIABLES
    part,
    shutdownCh, running, online, conn, link, restartCh, run, delay, reader, auto,
    report, stop, uncounted, twice, faults,
    moduleRun, moduleID, GNetwork, live, loggedIn, dialing, leftover, caller, loop, state, last,
    reported,
    listening, worker, listener, expired, stopping, arrived, hello, conns, acceptCh, left, got,
    file, gConf, on, saving, mu, call, session, count, asked, late

gatewayVars == <<shutdownCh, running, online, conn, link, restartCh, run, delay, reader,
                 auto, report, stop, uncounted, twice, faults>>
moduleVars == <<moduleRun, moduleID, GNetwork, live, loggedIn, dialing, leftover, caller, loop,
                state, last, reported>>
listenVars == <<listening, worker, listener, expired, stopping, arrived, hello, conns,
                acceptCh, left, got>>
configVars == <<file, gConf, on, saving, mu, call, session, count, asked, late>>

Gateway == INSTANCE Gateway WITH Conns <- Sockets
Caller == CHOOSE c \in Callers : TRUE
One == INSTANCE Engine WITH Callers <- {Caller}, online <- loggedIn, run <- loop
Many == INSTANCE Engine WITH online <- loggedIn, run <- loop
Listen == INSTANCE V4Listener WITH running <- listening, stop <- stopping, conn <- arrived
Store == INSTANCE ConfigFile WITH Pairs <- FALSE, MaxSaves <- 0, MaxPushes <- 0
Config == INSTANCE ConfigFile
            WITH Callers <- {Caller}, Pairs <- TRUE, MaxSaves <- 2, MaxPushes <- 1

Init ==
    /\ part \in {"gateway", "engine", "engines", "listen", "store", "config"}
    /\ Gateway!Init /\ Listen!Init
    /\ IF part = "store" THEN Store!Init ELSE Config!Init
    /\ IF part = "engines" THEN Many!Init ELSE One!Init
    /\ part # "listen" => hello = [k \in Conns |-> CHOOSE t \in Tunnels : TRUE]

Next ==
    /\ UNCHANGED part
    /\ \/ part = "gateway" /\ Gateway!Next /\ UNCHANGED <<moduleVars, listenVars, configVars>>
       \/ part = "engine" /\ One!Next /\ UNCHANGED <<gatewayVars, listenVars, configVars>>
       \/ part = "engines" /\ Many!Next /\ UNCHANGED <<gatewayVars, listenVars, configVars>>
       \/ part = "listen" /\ Listen!Next /\ UNCHANGED <<gatewayVars, moduleVars, configVars>>
       \/ part = "store" /\ Store!Next /\ UNCHANGED <<gatewayVars, moduleVars, listenVars>>
       \/ part = "config" /\ Config!Next /\ UNCHANGED <<gatewayVars, moduleVars, listenVars>>

(* Every goroutine is scheduled.  A dial that is not refused by a fault    *)
(* succeeds, which takes a v4l.stop() that returns, and a report goroutine *)
(* ends within its two timeouts.  Nothing is assumed of writers, of faults *)
(* or of Stop.                                                             *)
InGateway == part = "gateway"

GatewayFairness ==
    /\ WF_gatewayVars(InGateway /\ Gateway!RunStep)
    /\ WF_gatewayVars(InGateway /\ Gateway!InitSucceeds)
    /\ WF_gatewayVars(InGateway /\ Gateway!KeepAlive)
    /\ \A c \in Sockets : /\ WF_gatewayVars(InGateway /\ Gateway!ReaderStep(c))
                          /\ WF_gatewayVars(InGateway /\ Gateway!AutorunStep(c))
                          /\ WF_gatewayVars(InGateway /\ Gateway!ReportEnds(c))

(* The goroutines are scheduled, an init() ends, and of a network that is  *)
(* not shut down it succeeds sooner or later.  shutdown() returns unless   *)
(* the network logged in meanwhile.  Nobody has to call Start or Stop.     *)
EngineFairness ==
    /\ WF_moduleVars(part = "engine" /\ One!CallerStep(Caller))
    /\ WF_moduleVars(part = "engine" /\ GNetwork \notin loggedIn /\ One!StopNetworkEnds(Caller))
    /\ \A i \in One!IDs : WF_moduleVars(part = "engine" /\ One!RunStep(i))
    /\ WF_moduleVars(part = "engine" /\ One!Dials)
    /\ SF_moduleVars(part = "engine" /\ One!LiveLogsIn)

Spec ==
    /\ Init /\ [][Next]_<<part, gatewayVars, moduleVars, listenVars, configVars>>
    /\ GatewayFairness /\ EngineFairness

(* No read loop of an earlier websocket survives a reconnect: ReadMessage  *)
(* may only be called by one goroutine, and readLoop reads pn.conn.        *)
(* Whoever closes the websocket, and whenever; but for the read loop that  *)
(* had not counted itself when run() looked.                               *)
OneReader == Gateway!OneReader

(* Once the environment stops misbehaving the network comes back online    *)
(* and stays so: after a broken websocket, a failed init(), a failed       *)
(* report, a restart pushed by the gateway, and a refused login, which     *)
(* only keepAlive sees; unless a failure was reported again after run()    *)
(* took the first report, or two read loops read one websocket.  After     *)
(* Stop the reconnect loop of run() ends whatever it was doing.  With one  *)
(* caller at a time, an engine that is running in the end has a network    *)
(* that is online.                                                         *)
EngineSettles ==
    /\ part = "gateway" => Gateway!Reconnects /\ Gateway!RunEnds
    /\ part = "engine" => One!RunningIsOnline

(* However Start, Stop and the goroutines of earlier runs interleave, one  *)
(* network is in use, and no other is logged in under the node's name but  *)
(* one that was shut down while its run() was in init().                   *)
OneNetwork == Many!OneNetwork

(* A connection is handed to one tunnel and handed over once: no two       *)
(* owners read the same stream.                                            *)
OneOwner == Listen!OneOwner

(* The tunnels in config.json are the ones a user asked for last, however  *)
(* two commands of users overlap, as long as the engine saves nothing      *)
(* itself and no server edits a tunnel.  When nothing is under way, the    *)
(* engine runs the tunnels of config.json and a client session has both of *)
(* its internal tunnels, with one command at a time and whatever was       *)
(* configured, pushed and saved meanwhile, unless a save outlived the      *)
(* engine that began it.                                                   *)
ConfigKept ==
    /\ part = "store" => Store!TunnelsKept
    /\ part = "config" => Config!EngineRunsFile /\ Config!SessionTunnels
=============================================================================
