------------------------------- MODULE Engine -------------------------------
(***************************************************************************)
(* Starting and stopping the embedded engine (embedded.go).  Start sets    *)
(* moduleRun under moduleMu and leaves the rest to a goroutine,            *)
(* runEmbedded, which creates the network under networkMu; Stop resets     *)
(* moduleRun under moduleMu, then shuts the network down under networkMu,  *)
(* then reports.  Every Start and every Stop takes a new moduleID.         *)
(*                                                                         *)
(* The first init() of a network runs under networkMu.  If it failed, the  *)
(* network's run() dials again, under no lock, until it has logged in, and *)
(* does not look whether it was shut down meanwhile.  What else happens to *)
(* a connection is the subject of Gateway; a network whose connection was  *)
(* lost is here one whose first init() failed.                             *)
(***************************************************************************)
EXTENDS Naturals

CONSTANTS
    Callers,    \* goroutines that call Start and Stop
    MaxStarts,  \* number of Starts
    None

IDs == 1..(2 * MaxStarts)

VARIABLES
    moduleRun, moduleID,
    GNetwork,  \* the network, named after the run that created it, or None
    live,      \* the networks that were created and not shut down
    online,    \* the networks that are logged in
    dialing,   \* the networks whose run() is in init()
    leftover,  \* history: the networks that were shut down while in init()
    caller,    \* where a caller is
    run,       \* where runEmbedded(id) is
    state,     \* the state it has computed
    last,      \* the state it reported last
    reported   \* the last value passed to OnState

network == <<GNetwork, live, online, dialing, leftover>>

vars == <<moduleRun, moduleID, network, caller, run, state, last, reported>>

Init ==
    /\ moduleRun = FALSE /\ moduleID = 0 /\ GNetwork = None
    /\ live = {} /\ online = {} /\ dialing = {} /\ leftover = {}
    /\ caller = [c \in Callers |-> "idle"]
    /\ run = [i \in IDs |-> "none"] /\ state = [i \in IDs |-> ""]
    /\ last = [i \in IDs |-> ""] /\ reported = "stopped"

-----------------------------------------------------------------------------
(* A Start that finds the engine running, or no usable configuration,      *)
(* changes nothing.                                                        *)
Start(c) ==
    /\ caller[c] = "idle" /\ ~moduleRun /\ moduleID + 2 <= 2 * MaxStarts
    /\ moduleRun' = TRUE /\ moduleID' = moduleID + 1
    /\ run' = [run EXCEPT ![moduleID + 1] = "create"]
    /\ reported' = "starting"
    /\ UNCHANGED <<network, caller, state, last>>

StopBegins(c) ==
    /\ caller[c] = "idle" /\ moduleRun
    /\ moduleRun' = FALSE /\ moduleID' = moduleID + 1
    /\ caller' = [caller EXCEPT ![c] = "network"]
    /\ UNCHANGED <<network, run, state, last, reported>>

(* networkMu is held by a Stop, from the lookup of the network until its   *)
(* shutdown() has returned.                                                *)
Locked == \E c \in Callers : caller[c] = "shutting"

(* shutdown() of whatever network there is by now: it is marked, told to   *)
(* end and its connection closed,                                          *)
StopNetwork(c) ==
    /\ caller[c] = "network" /\ ~Locked
    /\ live' = live \ {GNetwork} /\ online' = online \ {GNetwork}
    /\ leftover' = leftover \cup ({GNetwork} \cap dialing)
    /\ caller' = [caller EXCEPT ![c] = "shutting"]
    /\ UNCHANGED <<moduleRun, moduleID, GNetwork, dialing, run, state, last, reported>>

(* and wgReconnect waited for, which counts an init().                     *)
StopNetworkEnds(c) ==
    /\ caller[c] = "shutting" /\ GNetwork \notin dialing
    /\ GNetwork' = None
    /\ caller' = [caller EXCEPT ![c] = "report"]
    /\ UNCHANGED <<moduleRun, moduleID, live, online, dialing, leftover, run, state, last, reported>>

StopReports(c) ==
    /\ caller[c] = "report" /\ reported' = "stopped"
    /\ caller' = [caller EXCEPT ![c] = "idle"]
    /\ UNCHANGED <<moduleRun, moduleID, network, run, state, last>>

-----------------------------------------------------------------------------
(* Mutant: whoever comes creates a network. *)
CreateAlways(i) ==
    /\ run[i] = "create" /\ ~Locked /\ run' = [run EXCEPT ![i] = "loop"]
    /\ live' = live \cup {i} /\ GNetwork' = i
    /\ UNCHANGED <<moduleRun, moduleID, online, dialing, leftover, caller, state, last, reported>>

(* P2PNetworkInstance, under networkMu: a network that is there and not    *)
(* shut down is used, and a new one logs in at once or fails to.  The      *)
(* module's state and the run's id are not looked at.                      *)
Create(i) ==
    /\ run[i] = "create" /\ ~Locked /\ run' = [run EXCEPT ![i] = "loop"]
    /\ \/ GNetwork \in live /\ UNCHANGED <<GNetwork, live, online>>
       \/ /\ GNetwork \notin live
          /\ GNetwork' = i /\ live' = live \cup {i} /\ online' \in {online, online \cup {i}}
    /\ UNCHANGED <<moduleRun, moduleID, dialing, leftover, caller, state, last, reported>>

(* One round of runEmbedded's loop: it ends when the run is not current,   *)
(* and reports a state that changed.                                       *)
Observe(i) ==
    /\ run[i] = "loop" /\ ~Locked
    /\ IF ~(moduleRun /\ moduleID = i)
       THEN run' = [run EXCEPT ![i] = "done"] /\ UNCHANGED state
       ELSE \E s \in {"starting", "online", "faulted"} :
               /\ (s = "online") <=> (GNetwork \in online)
               /\ (GNetwork = None) => (s = "starting")
               /\ s # last[i]
               /\ state' = [state EXCEPT ![i] = s]
               /\ run' = [run EXCEPT ![i] = "check"]
    /\ UNCHANGED <<moduleRun, moduleID, network, caller, last, reported>>

(* stateFor: the run is checked under moduleMu, OnState called after.      *)
StateForChecks(i) ==
    /\ run[i] = "check"
    /\ run' = [run EXCEPT ![i] = IF moduleRun /\ moduleID = i THEN "callback" ELSE "loop"]
    /\ last' = [last EXCEPT ![i] = state[i]]
    /\ UNCHANGED <<moduleRun, moduleID, network, caller, state, reported>>

StateForReports(i) ==
    /\ run[i] = "callback" /\ run' = [run EXCEPT ![i] = "loop"]
    /\ reported' = state[i]
    /\ UNCHANGED <<moduleRun, moduleID, network, caller, state, last>>

(* run() of a network that is not online has seen that it is not shut down *)
(* and calls init(),                                                       *)
Redial(n) ==
    /\ n \in live \ online /\ n \notin dialing /\ dialing' = dialing \cup {n}
    /\ UNCHANGED <<moduleRun, moduleID, GNetwork, live, online, leftover, caller, run, state, last, reported>>

(* which fails, or logs in, whatever happened meanwhile.                   *)
RedialFails(n) ==
    /\ n \in dialing /\ dialing' = dialing \ {n}
    /\ UNCHANGED <<moduleRun, moduleID, GNetwork, live, online, leftover, caller, run, state, last, reported>>

LogsIn(n) ==
    /\ n \in dialing /\ dialing' = dialing \ {n} /\ online' = online \cup {n}
    /\ UNCHANGED <<moduleRun, moduleID, GNetwork, live, leftover, caller, run, state, last, reported>>

(* The gateway gives up a network that was shut down: nobody sends its     *)
(* heartbeats and nobody closes its websocket.                             *)
LeftoverEnds(n) ==
    /\ n \in online \ live /\ online' = online \ {n}
    /\ UNCHANGED <<moduleRun, moduleID, GNetwork, live, dialing, leftover, caller, run, state, last, reported>>

-----------------------------------------------------------------------------
CallerStep(c) == StopNetwork(c) \/ StopReports(c)
RunStep(i) == Create(i) \/ Observe(i) \/ StateForChecks(i) \/ StateForReports(i)
Dials == \E n \in IDs : Redial(n) \/ RedialFails(n) \/ LogsIn(n)
LiveLogsIn == \E n \in live : LogsIn(n)

Next ==
    \/ \E c \in Callers : Start(c) \/ StopBegins(c) \/ CallerStep(c) \/ StopNetworkEnds(c)
    \/ \E i \in IDs : RunStep(i) \/ LeftoverEnds(i)
    \/ Dials

(* The goroutines are scheduled, an init() ends, and of a network that is  *)
(* not shut down it succeeds sooner or later.  shutdown() returns unless   *)
(* the network logged in meanwhile: then the goroutines it waits for may   *)
(* never end.  Nobody has to call Start or Stop.                           *)
Spec == /\ Init /\ [][Next]_vars
        /\ \A c \in Callers : /\ WF_vars(CallerStep(c))
                              /\ WF_vars(GNetwork \notin online /\ StopNetworkEnds(c))
        /\ \A i \in IDs : WF_vars(RunStep(i))
        /\ WF_vars(Dials) /\ SF_vars(LiveLogsIn)

-----------------------------------------------------------------------------
(* However Start, Stop and the goroutines of earlier runs interleave, one  *)
(* network is in use, and no other is logged in under the node's name but  *)
(* one that was shut down while its run() was in init().                   *)
OneNetwork ==
    /\ \A i, j \in live : i = j
    /\ online \ live \subseteq leftover

(* Once nothing changes any more, an engine that is running has a network  *)
(* that is online.                                                         *)
RunningIsOnline == <>[](moduleRun => GNetwork \in online)
=============================================================================
