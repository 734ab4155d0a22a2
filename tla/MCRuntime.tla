------------------------------ MODULE MCRuntime -----------------------------
(***************************************************************************)
(* Runtime for TLC: "serial", all commands one after the other; "joins",   *)
(* two callers that join and leave at a time; and "overlap", two callers   *)
(* that start and stop ordinary tunnels, join once and leave at a time.    *)
(* The initial state chooses.                                              *)
(***************************************************************************)
CONSTANTS Callers, AllCommands, OverlapCommands, None

(* The commands are the ones of Runtime, and a caller is not the goroutine *)
(* of a syncDevices.                                                       *)
ASSUME CommandsAssumption ==
    AllCommands \subseteq {"startRoom", "stopRoom", "start", "stop", "tunnels", "config", "join", "leave", "close"}
ASSUME CallersAssumption == Callers # {} /\ \A c, d \in Callers : c # <<d>>

VARIABLES
    part,
    running, manager, clientSession, joinCancel, clientCancel, client, ordinaryRunning,
    engine, networkMode, lifecycleState, report, pc, then, seen, cancelled, calls, joins,
    closed, swapped, failed, taken

vars == <<running, manager, clientSession, joinCancel, clientCancel, client, ordinaryRunning,
          engine, networkMode, lifecycleState, report, pc, then, seen, cancelled, calls,
          joins, closed, swapped, failed, taken>>

Caller == CHOOSE c \in Callers : TRUE

Serial == INSTANCE Runtime
            WITH Commands <- AllCommands, MaxCalls <- 5, MaxJoins <- 3, HostMayRefuse <- FALSE
Joins == INSTANCE Runtime
           WITH Commands <- OverlapCommands, MaxCalls <- 4, MaxJoins <- 2, HostMayRefuse <- TRUE

Init == \/ part = "serial" /\ Serial!Init
        \/ part \in {"joins", "overlap"} /\ Joins!Init

(* In "serial" one caller executes all the commands.                       *)
OthersIdle == \A c \in Callers \ {Caller} : pc'[c] = "idle"

(* The bounds of the two others: which commands begin.                     *)
Called ==
    /\ part = "joins" => \A c \in Callers : pc'[c] \notin {"start", "stop"}
    /\ part = "overlap" => joins' \in {0, 1}

Next == \/ part = "serial" /\ Serial!Next /\ OthersIdle /\ UNCHANGED part
        \/ part # "serial" /\ Joins!Next /\ Called /\ UNCHANGED part

(* Every goroutine proceeds; no host has to answer a Join.                 *)
Fairness ==
    /\ WF_vars(part # "serial" /\ Joins!SetLifecycle)
    /\ \A c \in Callers : WF_vars(part # "serial" /\ Joins!Step(c))
    /\ \A g \in Joins!Goroutines : WF_vars(part # "serial" /\ Joins!LeaveStep(g))

Spec == Init /\ [][Next]_<<part, vars>> /\ Fairness

(* One command at a time, a room that runs, a join and ordinary tunnels    *)
(* exclude each other; a join and ordinary tunnels, which are both checked *)
(* under r.mu, do so however the commands interleave.                      *)
OneMode == IF part = "serial" THEN Serial!OneMode ELSE Joins!JoinOrOrdinary

(* When no command is half-way, no engine runs that no mode needs; a mode  *)
(* is without its engine only where a restart of it failed and none since  *)
(* has succeeded; the mode reported is the mode there is; and the network  *)
(* account of an active room has not changed under it.                     *)
EngineServesMode == part = "serial" => Serial!EngineServesMode /\ Serial!AccountKept

(* Of two Joins and the Leaves between them: once a Join's session was     *)
(* taken away, the Join returns, and nobody retries for a session that is  *)
(* gone, but for one case: an earlier Join, left with its answer at hand,  *)
(* took the session for its own and cleared the joinCancel of this one.    *)
LeftJoinReturns == part # "serial" => Joins!LeftJoinReturns
=============================================================================
