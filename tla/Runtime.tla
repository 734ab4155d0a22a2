------------------------------- MODULE Runtime -------------------------------
(***************************************************************************)
(* The runtime (core/runtime.go): one engine, one virtual adapter, and     *)
(* three modes that exclude each other: hosting a room, joining one, and   *)
(* ordinary tunnels.  r.mu guards the fields but not the calls: a command  *)
(* looks at the room service, takes r.mu for its own check, and starts and *)
(* stops the engine after it released it.  Commands run concurrently: each *)
(* WebSocket request in its own goroutine, and room.join in one of its own *)
(* on the standard streams too.  A step is one critical section or one     *)
(* call that changes state; the engine's Start and Stop are one step here  *)
(* and have their own module, Engine.                                      *)
(***************************************************************************)
EXTENDS Naturals

CONSTANTS
    Callers,    \* goroutines that execute commands
    Commands,   \* the commands they may execute
    MaxCalls,   \* number of commands
    MaxJoins,   \* number of joins among them
    HostMayRefuse,  \* the host may remove a member that has joined
    None

(* The goroutine that runs syncDevices for the Join of a caller is the     *)
(* caller in a tuple.                                                      *)
Syncs == {<<c>> : c \in Callers}
Goroutines == Callers \cup Syncs

VARIABLES
    running,          \* room service: a room is running
    manager,          \* the host's WireGuard manager and relay exist
    clientSession,    \* a Join is under way or joined
    joinCancel,       \* the caller whose Join is under way, or None
    clientCancel,     \* the caller whose Join started syncDevices, or None
    client,           \* the caller whose Join created the adapter, or None
    ordinaryRunning,
    engine,           \* the engine runs
    networkMode, lifecycleState,
    report,           \* a lifecycle that onProcessState decided on, or None
    pc, then,         \* next step of a goroutine, and where a Leave returns to
    seen,             \* the flag a command read before it took r.mu
    cancelled,        \* the context of the caller's Join is cancelled
    calls, joins,
    closed,           \* Close was called
    swapped,          \* history: the network account changed under an active room
    failed,           \* history: the engine was to be restarted and did not start
    taken             \* history: the callers whose Join lost its joinCancel to
                      \* an earlier Join that took the session for its own

fields == <<running, manager, clientSession, joinCancel, clientCancel, client, ordinaryRunning>>
status == <<networkMode, lifecycleState>>
control == <<pc, then, seen, cancelled, calls, joins, closed>>
history == <<swapped, failed, taken>>
vars == <<fields, engine, status, report, control, history>>

Init ==
    /\ running = FALSE /\ manager = FALSE /\ clientSession = FALSE /\ ordinaryRunning = FALSE
    /\ joinCancel = None /\ clientCancel = None /\ client = None /\ engine = FALSE
    /\ networkMode = "idle" /\ lifecycleState = "idle" /\ report = None
    /\ pc = [g \in Goroutines |-> "idle"] /\ then = [g \in Goroutines |-> "idle"]
    /\ seen = [g \in Goroutines |-> FALSE] /\ cancelled = [c \in Callers |-> FALSE]
    /\ calls = 0 /\ joins = 0 /\ closed = FALSE /\ swapped = FALSE /\ failed = FALSE /\ taken = {}

Status(mode, lifecycle) == networkMode' = mode /\ lifecycleState' = lifecycle
Goto(c, label) == pc' = [pc EXCEPT ![c] = label]
At(c, label) == pc[c] = label

(* startOpenP2PEngine: nothing happens when the engine runs; it may fail   *)
(* otherwise (the configuration cannot be read, the log not be opened).    *)
EngineStarts == engine' = TRUE /\ failed' = FALSE
EngineFailsToStart == ~engine /\ engine' = FALSE /\ failed' = TRUE

(* restartOpenP2P stops the engine first, which never fails.               *)
EngineRestarts == EngineStarts \/ (engine' = FALSE /\ failed' = TRUE)
EngineIsLeft == engine' = engine /\ failed' = failed
EngineStops == engine' = FALSE /\ failed' = failed

-----------------------------------------------------------------------------
(* A command begins.  The ones that look at Rooms().Snapshot().Running     *)
(* keep what they saw; Leave returns to the caller, Close goes on.         *)
Call(c) ==
    /\ At(c, "idle") /\ calls < MaxCalls /\ ~closed /\ calls' = calls + 1
    /\ \E command \in Commands :
          /\ joins' = IF command = "join" THEN joins + 1 ELSE joins
          /\ joins' <= MaxJoins /\ (command = "join" => At(<<c>>, "idle"))
          /\ Goto(c, command) /\ closed' = (command = "close")
          /\ then' = [then EXCEPT ![c] = IF command = "close" THEN "closeRoom" ELSE "idle"]
    /\ seen' = [seen EXCEPT ![c] = running]
    /\ UNCHANGED <<fields, engine, status, report, cancelled, history>>

(* room.Start and startNetwork, under both locks: nothing happens when a   *)
(* mode is active; the engine or the adapter may fail to start; the rest   *)
(* of room.Start may fail afterwards, and stopNetwork then runs unlocked.  *)
StartRoom(c) ==
    /\ At(c, "startRoom")
    /\ \/ /\ running \/ manager \/ clientSession \/ ordinaryRunning
          /\ Goto(c, "idle") /\ EngineIsLeft /\ UNCHANGED <<running, manager, status>>
       \/ /\ ~(running \/ manager \/ clientSession \/ ordinaryRunning)
          /\ \/ /\ EngineIsLeft \/ EngineStops
                /\ Status("idle", "faulted") /\ Goto(c, "idle")
                /\ UNCHANGED <<running, manager>>
             \/ /\ EngineStarts /\ manager' = TRUE /\ Status("host", "listening")
                /\ \/ running' = TRUE /\ Goto(c, "idle")
                   \/ running' = running /\ Goto(c, "stopNetwork")
    /\ UNCHANGED <<clientSession, joinCancel, clientCancel, client, ordinaryRunning,
                   report, then, seen, cancelled, calls, joins, closed, swapped, taken>>

(* room.Stop, under the service's lock; also the second step of Close.     *)
StopRoom(c) ==
    /\ At(c, "stopRoom") \/ At(c, "closeRoom")
    /\ running' = FALSE
    /\ then' = [then EXCEPT ![c] = IF At(c, "closeRoom") THEN "closeEngine" ELSE "idle"]
    /\ Goto(c, IF running THEN "stopNetwork" ELSE then'[c])
    /\ UNCHANGED <<manager, clientSession, joinCancel, clientCancel, client, ordinaryRunning,
                   engine, status, report, seen, cancelled, calls, joins, closed, history>>

StopNetwork(c) ==
    /\ At(c, "stopNetwork") /\ manager' = FALSE /\ Goto(c, "readOrdinary")
    /\ lifecycleState' = "stopping"
    /\ UNCHANGED <<running, clientSession, joinCancel, clientCancel, client, ordinaryRunning, engine,
                   networkMode, report, then, seen, cancelled, calls, joins, closed, history>>

StopNetworkReads(c) ==
    /\ At(c, "readOrdinary") /\ seen' = [seen EXCEPT ![c] = ordinaryRunning]
    /\ Goto(c, "stopEngine")
    /\ UNCHANGED <<fields, engine, status, report, then, cancelled, calls, joins, closed, history>>

(* stopNetwork leaves the engine of ordinary tunnels alone, unless the     *)
(* configuration cannot be read.                                           *)
StopNetworkEngine(c) ==
    /\ At(c, "stopEngine") /\ engine' \in {engine /\ seen[c], FALSE} /\ Goto(c, "setIdle")
    /\ UNCHANGED <<fields, status, report, then, seen, cancelled, calls, joins, closed, history>>

(* The last step of stopNetwork, Leave and Close.                          *)
SetIdle(g) ==
    /\ At(g, "setIdle") /\ networkMode' = "idle" /\ lifecycleState' \in {"idle", "faulted"}
    /\ Goto(g, then[g])
    /\ UNCHANGED <<fields, engine, report, then, seen, cancelled, calls, joins, closed, history>>

-----------------------------------------------------------------------------
(* Mutant: the check under the lock is dropped. *)
StartOpenP2PUnchecked(c) ==
    /\ At(c, "start")
    /\ IF seen[c]
       THEN Goto(c, "idle") /\ UNCHANGED ordinaryRunning
       ELSE Goto(c, "startEngine") /\ ordinaryRunning' = TRUE
    /\ UNCHANGED <<running, manager, clientSession, joinCancel, clientCancel, client, engine, status,
                   report, then, seen, cancelled, calls, joins, closed, history>>

(* StartOpenP2P under r.mu, with what it saw of the room service before.   *)
StartOpenP2P(c) ==
    /\ At(c, "start")
    /\ IF seen[c] \/ clientSession \/ ordinaryRunning
       THEN Goto(c, "idle") /\ UNCHANGED ordinaryRunning
       ELSE Goto(c, "startEngine") /\ ordinaryRunning' = TRUE
    /\ UNCHANGED <<running, manager, clientSession, joinCancel, clientCancel, client, engine, status,
                   report, then, seen, cancelled, calls, joins, closed, history>>

StartEngine(c) ==
    /\ At(c, "startEngine") /\ Goto(c, "idle")
    /\ \/ EngineStarts /\ Status("ordinary", "starting_openp2p") /\ UNCHANGED ordinaryRunning
       \/ EngineFailsToStart /\ ordinaryRunning' = FALSE /\ Status("idle", "faulted")
    /\ UNCHANGED <<running, manager, clientSession, joinCancel, clientCancel, client, report,
                   then, seen, cancelled, calls, joins, closed, swapped, taken>>

StopOpenP2P(c) ==
    /\ At(c, "stop")
    /\ Goto(c, IF seen[c] \/ clientSession \/ ~ordinaryRunning THEN "idle" ELSE "stopOrdinary")
    /\ UNCHANGED <<fields, engine, status, report, then, seen, cancelled, calls, joins, closed, history>>

StopOrdinary(c) ==
    /\ At(c, "stopOrdinary") /\ engine' = FALSE /\ lifecycleState' = "stopping"
    /\ Goto(c, "stopped")
    /\ UNCHANGED <<fields, networkMode, report, then, seen, cancelled, calls, joins, closed, history>>

(* Mutant: the flag is left when the engine has stopped. *)
OrdinaryStoppedKeeps(c) ==
    /\ At(c, "stopped") /\ Status("idle", "idle") /\ Goto(c, "idle")
    /\ UNCHANGED <<fields, engine, report, then, seen, cancelled, calls, joins, closed, history>>

OrdinaryStopped(c) ==
    /\ At(c, "stopped") /\ ordinaryRunning' = FALSE /\ Status("idle", "idle") /\ Goto(c, "idle")
    /\ UNCHANGED <<running, manager, clientSession, joinCancel, clientCancel, client, engine,
                   report, then, seen, cancelled, calls, joins, closed, history>>

-----------------------------------------------------------------------------
(* ReplaceTunnels saves the list, which may fail, stops the engine and     *)
(* then asks whether anything runs.                                        *)
ReplaceTunnels(c) ==
    /\ At(c, "tunnels")
    /\ (engine' = FALSE /\ Goto(c, "readFlags")) \/ (UNCHANGED engine /\ Goto(c, "idle"))
    /\ UNCHANGED <<fields, status, report, then, seen, cancelled, calls, joins, closed, history>>

ReadFlags(c) ==
    /\ At(c, "readFlags") /\ seen' = [seen EXCEPT ![c] = ordinaryRunning \/ clientSession]
    /\ Goto(c, "restart")
    /\ UNCHANGED <<fields, engine, status, report, then, cancelled, calls, joins, closed, history>>

(* The engine starts again for what runs; when it fails to, the mode stays *)
(* without one.                                                            *)
Restart(c) ==
    /\ At(c, "restart") /\ Goto(c, "idle")
    /\ IF running \/ seen[c] THEN EngineStarts \/ EngineFailsToStart ELSE EngineIsLeft
    /\ UNCHANGED <<fields, status, report, then, seen, cancelled, calls, joins, closed, swapped, taken>>

(* ReplaceConfig reads the flags under r.mu; a change of the network       *)
(* account is refused while a room is active.                              *)
ReplaceConfig(c) ==
    /\ At(c, "config")
    /\ \E active \in {seen[c] \/ clientSession}, account \in BOOLEAN :
          /\ Goto(c, IF active /\ account THEN "idle" ELSE IF account THEN "replaceAccount" ELSE "replace")
          /\ seen' = [seen EXCEPT ![c] = active \/ ordinaryRunning]
    /\ UNCHANGED <<fields, engine, status, report, then, cancelled, calls, joins, closed, history>>

(* It saves the configuration, which may fail, and restarts the engine of  *)
(* what it saw run, which may fail too.                                    *)
ReplaceAndRestart(c) ==
    /\ At(c, "replaceAccount") \/ At(c, "replace")
    /\ Goto(c, "idle")
    /\ \/ EngineIsLeft /\ UNCHANGED swapped
       \/ /\ swapped' = (swapped \/ (At(c, "replaceAccount") /\ (running \/ clientSession)))
          /\ IF seen[c] THEN EngineRestarts ELSE EngineIsLeft
    /\ UNCHANGED <<fields, status, report, then, seen, cancelled, calls, joins, closed, taken>>

-----------------------------------------------------------------------------
(* Join under r.mu: it asks for the other two modes, not for the room, of  *)
(* which it knows what it saw before.                                      *)
JoinBegins(c) ==
    /\ At(c, "join")
    /\ IF seen[c] \/ clientSession \/ ordinaryRunning
       THEN Goto(c, "idle") /\ UNCHANGED <<clientSession, joinCancel, cancelled, taken>>
       ELSE /\ clientSession' = TRUE /\ joinCancel' = c
            /\ cancelled' = [cancelled EXCEPT ![c] = FALSE] /\ taken' = taken \ {c}
            /\ Goto(c, "joining")
    /\ UNCHANGED <<running, manager, clientCancel, client, ordinaryRunning, engine, status, report,
                   then, seen, calls, joins, closed, swapped, failed>>

(* It restarts the engine with the pairing tunnel, or fails before.        *)
JoinEngine(c) ==
    /\ At(c, "joining") /\ Status("client", "joining")
    /\ \/ EngineStarts /\ Goto(c, "pairing")
       \/ (EngineIsLeft \/ EngineStops) /\ Goto(c, "failed")
    /\ UNCHANGED <<fields, report, then, seen, cancelled, calls, joins, closed, swapped, taken>>

(* Pairing is retried until the host answers: with a terminal error, or    *)
(* with an assignment, for which configure creates the adapter.            *)
PairAnswered(c) ==
    /\ At(c, "pairing")
    /\ \/ Goto(c, "failed") /\ UNCHANGED client
       \/ /\ clientSession /\ client' = c /\ Goto(c, "configured")
    /\ UNCHANGED <<running, manager, clientSession, joinCancel, clientCancel, ordinaryRunning, engine,
                   status, report, then, seen, cancelled, calls, joins, closed, history>>

(* A cancelled context ends the retries; the control session may fail.     *)
JoinCancelled(c) ==
    /\ (At(c, "pairing") /\ cancelled[c]) \/ At(c, "configured")
    /\ Goto(c, "failed")
    /\ UNCHANGED <<fields, engine, status, report, then, seen, cancelled, calls, joins, closed, history>>

(* The session must be there; that it is the one of this Join is not asked. *)
JoinSucceeds(c) ==
    /\ At(c, "configured")
    /\ IF clientSession
       THEN /\ clientCancel' = c /\ joinCancel' = None
            /\ taken' = taken \cup ({joinCancel} \ {c, None})
            /\ pc' = [pc EXCEPT ![c] = "idle", ![<<c>>] = "synced"] /\ lifecycleState' = "online"
       ELSE Goto(c, "failed") /\ UNCHANGED <<clientCancel, joinCancel, lifecycleState, taken>>
    /\ UNCHANGED <<running, manager, clientSession, client, ordinaryRunning, engine, networkMode,
                   report, then, seen, cancelled, calls, joins, closed, swapped, failed>>

-----------------------------------------------------------------------------
(* Mutant: the Join under way is not cancelled. *)
TakeSessionNoCancel ==
    /\ clientSession' = FALSE /\ joinCancel' = None /\ clientCancel' = None /\ client' = None
    /\ UNCHANGED cancelled

(* What Leave takes under r.mu, the Join it cancels included.              *)
TakeSession ==
    /\ clientSession' = FALSE /\ joinCancel' = None /\ clientCancel' = None /\ client' = None
    /\ cancelled' = [c \in Callers |-> cancelled[c] \/ c = joinCancel]

(* Leave: a command, the first step of Close, what a Join that failed has  *)
(* deferred, or the end of syncDevices when the host refuses the member.   *)
(* It cancels the syncDevices of the session it takes.                     *)
Leave(g) ==
    /\ At(g, "leave") \/ At(g, "close") \/ At(g, "failed") \/ At(g, "refused")
    /\ TakeSession
    /\ pc' = [h \in Goroutines |->
                 IF h = g THEN IF clientSession THEN "leaveReads" ELSE then[g]
                 ELSE IF h = <<clientCancel>> /\ pc[h] \in {"synced", "broken"} THEN "cancelled"
                 ELSE pc[h]]
    /\ lifecycleState' = IF clientSession THEN "stopping" ELSE lifecycleState
    /\ UNCHANGED <<running, manager, ordinaryRunning, engine, networkMode, report, then, seen,
                   calls, joins, closed, history>>

LeaveReads(g) ==
    /\ At(g, "leaveReads") /\ seen' = [seen EXCEPT ![g] = ordinaryRunning] /\ Goto(g, "leaveEngine")
    /\ UNCHANGED <<fields, engine, status, report, then, cancelled, calls, joins, closed, history>>

(* The engine is restarted for ordinary tunnels, which may fail, and       *)
(* stopped otherwise, and when the configuration cannot be read.           *)
LeaveEngine(g) ==
    /\ At(g, "leaveEngine") /\ Goto(g, "setIdle")
    /\ EngineStops \/ (seen[g] /\ EngineRestarts)
    /\ UNCHANGED <<fields, status, report, then, seen, cancelled, calls, joins, closed, swapped, taken>>

(* Close ends with the engine, whatever runs.                              *)
CloseEngine(c) ==
    /\ At(c, "closeEngine") /\ engine' = FALSE /\ Goto(c, "setIdle")
    /\ then' = [then EXCEPT ![c] = "idle"]
    /\ UNCHANGED <<fields, status, report, seen, cancelled, calls, joins, closed, history>>

-----------------------------------------------------------------------------
(* syncDevices: the session breaks and is made again, or the host refuses  *)
(* the member; a cancelled context ends it.                                *)
SyncBreaks(g) ==
    /\ At(g, "synced") /\ Goto(g, "broken") /\ lifecycleState' = "joining"
    /\ UNCHANGED <<fields, engine, networkMode, report, then, seen, cancelled, calls, joins, closed, history>>

SyncReconnects(g) ==
    /\ At(g, "broken") /\ Goto(g, IF clientSession THEN "synced" ELSE "idle")
    /\ lifecycleState' = IF clientSession THEN "online" ELSE lifecycleState
    /\ UNCHANGED <<fields, engine, networkMode, report, then, seen, cancelled, calls, joins, closed, history>>

SyncRefused(g) ==
    /\ HostMayRefuse /\ (At(g, "synced") \/ At(g, "broken")) /\ Goto(g, "refused")
    /\ UNCHANGED <<fields, engine, status, report, then, seen, cancelled, calls, joins, closed, history>>

SyncCancelled(g) ==
    /\ At(g, "cancelled") /\ Goto(g, "idle")
    /\ UNCHANGED <<fields, engine, status, report, then, seen, cancelled, calls, joins, closed, history>>

-----------------------------------------------------------------------------
(* onProcessState: what it makes of the lifecycle it loads.                *)
Reaction(value) ==
    CASE lifecycleState \in {"stopping", "idle"} -> None
      [] value = "faulted" -> "faulted"
      [] value = "starting" -> IF lifecycleState = "joining" THEN None ELSE "starting_openp2p"
      [] value = "online" /\ networkMode = "host" ->
            IF lifecycleState = "starting_openp2p" THEN None ELSE "listening"
      [] value = "online" /\ networkMode = "client" ->
            IF lifecycleState = "joining" THEN None ELSE "online"
      [] value = "online" /\ networkMode = "ordinary" -> "online"
      [] OTHER -> None

OnProcessState ==
    /\ engine /\ report = None
    /\ \E value \in {"starting", "online", "faulted"} : report' = Reaction(value) /\ report' # None
    /\ UNCHANGED <<fields, engine, status, control, history>>

(* Load and Store are two operations on an atomic.                         *)
SetLifecycle ==
    /\ report # None /\ lifecycleState' = report /\ report' = None
    /\ UNCHANGED <<fields, engine, networkMode, control, history>>

-----------------------------------------------------------------------------
(* The steps a goroutine takes on its own once its command has begun.      *)
Step(c) ==
    \/ StartRoom(c) \/ StopRoom(c) \/ StopNetwork(c) \/ StopNetworkReads(c) \/ StopNetworkEngine(c)
    \/ StartOpenP2P(c) \/ StartEngine(c) \/ StopOpenP2P(c) \/ StopOrdinary(c)
    \/ OrdinaryStopped(c) \/ ReplaceTunnels(c) \/ ReadFlags(c) \/ Restart(c) \/ ReplaceConfig(c)
    \/ ReplaceAndRestart(c) \/ JoinBegins(c) \/ JoinEngine(c) \/ JoinCancelled(c)
    \/ CloseEngine(c)

LeaveStep(g) == Leave(g) \/ LeaveReads(g) \/ LeaveEngine(g) \/ SetIdle(g)

Sync(g) == SyncBreaks(g) \/ SyncReconnects(g) \/ SyncRefused(g) \/ SyncCancelled(g)

Next ==
    \/ \E c \in Callers : Call(c) \/ Step(c) \/ PairAnswered(c) \/ JoinSucceeds(c)
    \/ \E g \in Syncs : Sync(g)
    \/ \E g \in Goroutines : LeaveStep(g)
    \/ OnProcessState \/ SetLifecycle

(* Every goroutine proceeds; no host has to answer a Join.                 *)
Spec == /\ Init /\ [][Next]_vars /\ WF_vars(SetLifecycle)
        /\ \A c \in Callers : WF_vars(Step(c))
        /\ \A g \in Goroutines : WF_vars(LeaveStep(g))

-----------------------------------------------------------------------------
Modes == {m \in {"host", "client", "ordinary"} :
             \/ m = "host" /\ running
             \/ m = "client" /\ clientSession
             \/ m = "ordinary" /\ ordinaryRunning}
AtRest == \A g \in Goroutines : pc[g] \in {"idle", "pairing", "configured", "synced", "broken", "cancelled"}

(* A room that runs, a join and ordinary tunnels exclude each other.       *)
OneMode == \A m, n \in Modes : m = n

(* A join and ordinary tunnels, both checked under r.mu, exclude each      *)
(* other however the commands interleave.                                  *)
JoinOrOrdinary == ~(clientSession /\ ordinaryRunning)

(* When no command is half-way, no engine runs that no mode needs, none is *)
(* left after Close (which does not reset ordinaryRunning), and a mode is  *)
(* without its engine only where a restart of it failed and none since has *)
(* succeeded.  The mode reported is the mode there is.                     *)
EngineServesMode ==
    AtRest =>
        /\ engine => Modes # {} /\ ~closed
        /\ Modes # {} /\ ~closed => engine \/ failed
        /\ Modes = {} \/ closed => networkMode = "idle"
        /\ ~closed => \A m \in Modes : networkMode = m

(* The network account does not change under an active room.               *)
AccountKept == ~swapped

(* Once a Join's session was taken away, the Join returns: nobody retries  *)
(* for a session that is gone.  The one that does not is a Join whose      *)
(* joinCancel was cleared by an earlier one, left with its answer at hand. *)
LeftJoinReturns ==
    \A c \in Callers : (pc[c] = "pairing" /\ ~clientSession /\ c \notin taken) ~> (pc[c] = "idle")
=============================================================================
