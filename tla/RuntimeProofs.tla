---------------------------- MODULE RuntimeProofs ---------------------------
(***************************************************************************)
(* The safety invariants of MCRuntime, for every set of callers: commands  *)
(* that run one after the other never bring up two modes at a time, and    *)
(* whenever none is half-way the engine runs for exactly the mode there    *)
(* is, or has failed to restart for it; a join and ordinary tunnels        *)
(* exclude each other even when commands overlap.                          *)
(***************************************************************************)
EXTENDS MCRuntime, TLAPS

-----------------------------------------------------------------------------
(* One command at a time.  What holds depends on where the caller is.      *)

(* The label of the one caller, and where it returns to. *)
p == pc[Caller]
back == then[Caller]

(* No room is hosted or joined; no mode at all.                            *)
NoRoom == ~running /\ ~manager /\ ~clientSession
NoMode == NoRoom /\ ~ordinaryRunning

(* There is one mode, and it is the one reported.                          *)
InMode ==
    \/ running /\ manager /\ ~clientSession /\ ~ordinaryRunning /\ networkMode = "host"
    \/ ~running /\ ~manager /\ clientSession /\ ~ordinaryRunning /\ networkMode = "client"
    \/ NoRoom /\ ordinaryRunning /\ networkMode = "ordinary"
    \/ NoMode /\ networkMode = "idle"

(* The engine runs for the mode there is, unless a restart of it failed.   *)
Served ==
    /\ InMode
    /\ engine => running \/ clientSession \/ ordinaryRunning
    /\ running \/ clientSession \/ ordinaryRunning => engine \/ failed

(* The variables have their types, and the other goroutines do not act: no *)
(* other caller has a command, and no syncDevices leaves on its own.       *)
Quiet ==
    /\ running \in BOOLEAN /\ manager \in BOOLEAN /\ clientSession \in BOOLEAN
    /\ ordinaryRunning \in BOOLEAN /\ engine \in BOOLEAN /\ closed \in BOOLEAN /\ failed \in BOOLEAN
    /\ swapped = FALSE
    /\ pc = [g \in Serial!Goroutines |-> pc[g]]
    /\ then = [g \in Serial!Goroutines |-> then[g]]
    /\ seen \in [Serial!Goroutines -> BOOLEAN]
    /\ \A d \in Callers \ {Caller} : pc[d] = "idle"
    /\ \A g \in Serial!Syncs : pc[g] \in {"idle", "synced", "broken", "cancelled"}

(* Between commands.                                                       *)
Resting ==
    p = "idle" => IF closed THEN NoRoom /\ ~engine /\ networkMode = "idle" ELSE Served

(* A command has begun.                                                    *)
Begun ==
    p \in {"startRoom", "stopRoom", "start", "stop", "tunnels", "config", "join", "leave", "close"} =>
        /\ Served /\ seen[Caller] = running /\ (closed <=> p = "close")
        /\ back = IF p = "close" THEN "closeRoom" ELSE "idle"

(* Starting and stopping a room, Leave and Close.                          *)
Stopping ==
    /\ p \in {"stopNetwork", "readOrdinary", "stopEngine"} =>
          /\ ~running /\ ~clientSession /\ ~ordinaryRunning
          /\ back = IF closed THEN "closeEngine" ELSE "idle"
    /\ p \in {"readOrdinary", "stopEngine"} => ~manager
    /\ p \in {"leaveReads", "leaveEngine"} =>
          NoMode /\ back = IF closed THEN "closeRoom" ELSE "idle"
    /\ p \in {"stopEngine", "leaveEngine"} => ~seen[Caller]
    /\ p = "setIdle" =>
          /\ NoRoom /\ ~engine /\ back \in {"closeRoom", "closeEngine", "idle"}
          /\ closed \/ (back = "idle" /\ ~ordinaryRunning)
          /\ back = "closeRoom" => ~ordinaryRunning
    /\ p = "closeRoom" => Served /\ ~clientSession /\ closed
    /\ p = "closeEngine" => NoRoom /\ closed

(* Ordinary tunnels.                                                       *)
Ordinary ==
    /\ p \in {"startEngine", "stopOrdinary", "stopped"} => NoRoom /\ ordinaryRunning /\ ~closed
    /\ p \in {"startEngine", "stopped"} => ~engine

(* The configuration is replaced.                                          *)
Replacing ==
    /\ p \in {"readFlags", "restart"} => InMode /\ ~engine /\ ~closed
    /\ p = "restart" => seen[Caller] = (ordinaryRunning \/ clientSession)
    /\ p \in {"replace", "replaceAccount"} =>
          Served /\ ~closed /\ seen[Caller] = (running \/ clientSession \/ ordinaryRunning)
    /\ p = "replaceAccount" => ~running /\ ~clientSession

(* A Join.                                                                 *)
Joining ==
    /\ p \in {"joining", "pairing", "configured", "failed"} =>
          ~running /\ ~manager /\ clientSession /\ ~ordinaryRunning /\ ~closed /\ back = "idle"
    /\ p \in {"pairing", "configured"} => engine /\ networkMode = "client"

(* Every label a caller can be at.                                         *)
Labels ==
    {"idle", "startRoom", "stopRoom", "start", "stop", "tunnels", "config", "join", "leave", "close",
     "stopNetwork", "readOrdinary", "stopEngine", "leaveReads", "leaveEngine", "setIdle", "closeRoom",
     "closeEngine", "startEngine", "stopOrdinary", "stopped", "readFlags", "restart", "replace",
     "replaceAccount", "joining", "pairing", "configured", "failed"}

(* The inductive invariant of "serial".                                    *)
SerialInv ==
    Quiet /\ p \in Labels /\ Resting /\ Begun /\ Stopping /\ Ordinary /\ Replacing /\ Joining


(* The one caller is one of the callers, and no caller is a goroutine of   *)
(* syncDevices.                                                            *)
LEMMA CallerIsOne ==
    /\ Caller \in Callers /\ Caller \in Serial!Goroutines
    /\ \A g \in Serial!Syncs : g # Caller /\ g \in Serial!Goroutines
    /\ \A c \in Callers : c \in Serial!Goroutines /\ c \notin Serial!Syncs
    /\ \A c \in Callers : <<c>> \in Serial!Syncs
BY CallersAssumption DEF Caller, Serial!Goroutines, Serial!Syncs

(* A step of the caller that only moves its label and sets what it saw.    *)
LEMMA MovesQuietly ==
    ASSUME Quiet, NEW label, pc' = [pc EXCEPT ![Caller] = label],
           seen' \in [Serial!Goroutines -> BOOLEAN],
           then' = [g \in Serial!Goroutines |-> then'[g]],
           running' \in BOOLEAN, manager' \in BOOLEAN, clientSession' \in BOOLEAN,
           ordinaryRunning' \in BOOLEAN, engine' \in BOOLEAN, closed' \in BOOLEAN, failed' \in BOOLEAN,
           swapped' = FALSE
    PROVE  Quiet' /\ p' = label
<1>1. pc'[Caller] = label /\ \A g \in Serial!Goroutines : g # Caller => pc'[g] = pc[g]
  BY CallerIsOne DEF Quiet
<1>2. pc' = [g \in Serial!Goroutines |-> pc'[g]]
  BY DEF Quiet
<1> QED
  BY <1>1, <1>2, CallerIsOne DEF Quiet, p

(* A command begins.                                                       *)
LEMMA CallKeeps ==
    ASSUME SerialInv, Serial!Call(Caller)
    PROVE  SerialInv'
<1> USE CallerIsOne
<1>1. Quiet'
  BY MovesQuietly DEF SerialInv, Quiet, Serial!Call, Serial!Goto, Serial!At, Serial!fields, Serial!status, Serial!history, Serial!EngineStarts,
    Serial!EngineFailsToStart, Serial!EngineRestarts, Serial!EngineIsLeft, Serial!EngineStops
<1>2. PICK command \in AllCommands :
          /\ Serial!Goto(Caller, command) /\ closed' = (command = "close")
          /\ then' = [then EXCEPT ![Caller] = IF command = "close" THEN "closeRoom" ELSE "idle"]
  BY DEF Serial!Call
<1>3. command \in {"startRoom", "stopRoom", "start", "stop", "tunnels", "config", "join", "leave", "close"}
  BY CommandsAssumption
<1>4. p' = command
  BY <1>2 DEF Serial!Goto, p, SerialInv, Quiet
<1>5. Served' /\ seen'[Caller] = running' /\ p = "idle" /\ ~closed
  BY DEF SerialInv, Quiet, Resting, p, Serial!Call, Serial!At, Serial!fields, Serial!status, Serial!history,
         Served, InMode, NoMode, NoRoom
<1>6. back' = IF command = "close" THEN "closeRoom" ELSE "idle"
  BY <1>2 DEF back, SerialInv, Quiet
<1> QED
  BY <1>1, <1>2, <1>3, <1>4, <1>5, <1>6
     DEF SerialInv, Resting, Begun, Stopping, Ordinary, Replacing, Joining, Labels

(* Room.Start brings up the room's mode from none, or leaves what there is. *)
LEMMA StartRoomKeeps ==
    ASSUME SerialInv, Serial!StartRoom(Caller)
    PROVE  SerialInv'
<1> USE CallerIsOne DEF Serial!StartRoom, Serial!Goto, Serial!At, Serial!Status, Serial!fields, Serial!status, Serial!history, Serial!EngineStarts,
    Serial!EngineFailsToStart, Serial!EngineRestarts, Serial!EngineIsLeft, Serial!EngineStops
<1>1. Quiet'
  BY MovesQuietly DEF SerialInv, Quiet
<1> QED
  BY <1>1 DEF SerialInv, Resting, Begun, Stopping, Ordinary, Replacing, Joining, Labels,
              Served, InMode, NoMode, NoRoom, p, back, Quiet

(* Room.Stop takes the room away; the rest of it follows.                  *)
LEMMA StopRoomKeeps ==
    ASSUME SerialInv, Serial!StopRoom(Caller)
    PROVE  SerialInv'
<1> USE CallerIsOne DEF Serial!StopRoom, Serial!Goto, Serial!At, Serial!Status, Serial!fields, Serial!status, Serial!history, Serial!EngineStarts,
    Serial!EngineFailsToStart, Serial!EngineRestarts, Serial!EngineIsLeft, Serial!EngineStops
<1>1. Quiet'
  BY MovesQuietly DEF SerialInv, Quiet
<1> QED
  BY <1>1 DEF SerialInv, Resting, Begun, Stopping, Ordinary, Replacing, Joining, Labels,
              Served, InMode, NoMode, NoRoom, p, back, Quiet

(* StopNetwork closes the host's manager.                                  *)
LEMMA StopNetworkKeeps ==
    ASSUME SerialInv, Serial!StopNetwork(Caller)
    PROVE  SerialInv'
<1> USE CallerIsOne DEF Serial!StopNetwork, Serial!Goto, Serial!At, Serial!Status, Serial!fields, Serial!status, Serial!history, Serial!EngineStarts,
    Serial!EngineFailsToStart, Serial!EngineRestarts, Serial!EngineIsLeft, Serial!EngineStops
<1>1. Quiet'
  BY MovesQuietly DEF SerialInv, Quiet
<1> QED
  BY <1>1 DEF SerialInv, Resting, Begun, Stopping, Ordinary, Replacing, Joining, Labels,
              Served, InMode, NoMode, NoRoom, p, back, Quiet

(* StopNetwork sees no ordinary tunnels.                                   *)
LEMMA StopNetworkReadsKeeps ==
    ASSUME SerialInv, Serial!StopNetworkReads(Caller)
    PROVE  SerialInv'
<1> USE CallerIsOne DEF Serial!StopNetworkReads, Serial!Goto, Serial!At, Serial!Status, Serial!fields, Serial!status, Serial!history, Serial!EngineStarts,
    Serial!EngineFailsToStart, Serial!EngineRestarts, Serial!EngineIsLeft, Serial!EngineStops
<1>1. Quiet'
  BY MovesQuietly DEF SerialInv, Quiet
<1> QED
  BY <1>1 DEF SerialInv, Resting, Begun, Stopping, Ordinary, Replacing, Joining, Labels,
              Served, InMode, NoMode, NoRoom, p, back, Quiet

(* And stops the engine.                                                   *)
LEMMA StopNetworkEngineKeeps ==
    ASSUME SerialInv, Serial!StopNetworkEngine(Caller)
    PROVE  SerialInv'
<1> USE CallerIsOne DEF Serial!StopNetworkEngine, Serial!Goto, Serial!At, Serial!Status, Serial!fields, Serial!status, Serial!history, Serial!EngineStarts,
    Serial!EngineFailsToStart, Serial!EngineRestarts, Serial!EngineIsLeft, Serial!EngineStops
<1>1. Quiet'
  BY MovesQuietly DEF SerialInv, Quiet
<1> QED
  BY <1>1 DEF SerialInv, Resting, Begun, Stopping, Ordinary, Replacing, Joining, Labels,
              Served, InMode, NoMode, NoRoom, p, back, Quiet

(* Ordinary tunnels begin where there is no other mode.                    *)
LEMMA StartOpenP2PKeeps ==
    ASSUME SerialInv, Serial!StartOpenP2P(Caller)
    PROVE  SerialInv'
<1> USE CallerIsOne DEF Serial!StartOpenP2P, Serial!Goto, Serial!At, Serial!Status, Serial!fields, Serial!status, Serial!history, Serial!EngineStarts,
    Serial!EngineFailsToStart, Serial!EngineRestarts, Serial!EngineIsLeft, Serial!EngineStops
<1>1. Quiet'
  BY MovesQuietly DEF SerialInv, Quiet
<1> QED
  BY <1>1 DEF SerialInv, Resting, Begun, Stopping, Ordinary, Replacing, Joining, Labels,
              Served, InMode, NoMode, NoRoom, p, back, Quiet

(* And are reported once the engine runs.                                  *)
LEMMA StartEngineKeeps ==
    ASSUME SerialInv, Serial!StartEngine(Caller)
    PROVE  SerialInv'
<1> USE CallerIsOne DEF Serial!StartEngine, Serial!Goto, Serial!At, Serial!Status, Serial!fields, Serial!status, Serial!history, Serial!EngineStarts,
    Serial!EngineFailsToStart, Serial!EngineRestarts, Serial!EngineIsLeft, Serial!EngineStops
<1>1. Quiet'
  BY MovesQuietly DEF SerialInv, Quiet
<1> QED
  BY <1>1 DEF SerialInv, Resting, Begun, Stopping, Ordinary, Replacing, Joining, Labels,
              Served, InMode, NoMode, NoRoom, p, back, Quiet

(* Ordinary tunnels are stopped only where they run.                       *)
LEMMA StopOpenP2PKeeps ==
    ASSUME SerialInv, Serial!StopOpenP2P(Caller)
    PROVE  SerialInv'
<1> USE CallerIsOne DEF Serial!StopOpenP2P, Serial!Goto, Serial!At, Serial!Status, Serial!fields, Serial!status, Serial!history, Serial!EngineStarts,
    Serial!EngineFailsToStart, Serial!EngineRestarts, Serial!EngineIsLeft, Serial!EngineStops
<1>1. Quiet'
  BY MovesQuietly DEF SerialInv, Quiet
<1> QED
  BY <1>1 DEF SerialInv, Resting, Begun, Stopping, Ordinary, Replacing, Joining, Labels,
              Served, InMode, NoMode, NoRoom, p, back, Quiet

(* Their engine stops.                                                     *)
LEMMA StopOrdinaryKeeps ==
    ASSUME SerialInv, Serial!StopOrdinary(Caller)
    PROVE  SerialInv'
<1> USE CallerIsOne DEF Serial!StopOrdinary, Serial!Goto, Serial!At, Serial!Status, Serial!fields, Serial!status, Serial!history, Serial!EngineStarts,
    Serial!EngineFailsToStart, Serial!EngineRestarts, Serial!EngineIsLeft, Serial!EngineStops
<1>1. Quiet'
  BY MovesQuietly DEF SerialInv, Quiet
<1> QED
  BY <1>1 DEF SerialInv, Resting, Begun, Stopping, Ordinary, Replacing, Joining, Labels,
              Served, InMode, NoMode, NoRoom, p, back, Quiet

(* And then the mode ends.                                                 *)
LEMMA OrdinaryStoppedKeeps ==
    ASSUME SerialInv, Serial!OrdinaryStopped(Caller)
    PROVE  SerialInv'
<1> USE CallerIsOne DEF Serial!OrdinaryStopped, Serial!Goto, Serial!At, Serial!Status, Serial!fields, Serial!status, Serial!history, Serial!EngineStarts,
    Serial!EngineFailsToStart, Serial!EngineRestarts, Serial!EngineIsLeft, Serial!EngineStops
<1>1. Quiet'
  BY MovesQuietly DEF SerialInv, Quiet
<1> QED
  BY <1>1 DEF SerialInv, Resting, Begun, Stopping, Ordinary, Replacing, Joining, Labels,
              Served, InMode, NoMode, NoRoom, p, back, Quiet

(* ReplaceTunnels stops the engine of whatever mode there is.              *)
LEMMA ReplaceTunnelsKeeps ==
    ASSUME SerialInv, Serial!ReplaceTunnels(Caller)
    PROVE  SerialInv'
<1> USE CallerIsOne DEF Serial!ReplaceTunnels, Serial!Goto, Serial!At, Serial!Status, Serial!fields, Serial!status, Serial!history, Serial!EngineStarts,
    Serial!EngineFailsToStart, Serial!EngineRestarts, Serial!EngineIsLeft, Serial!EngineStops
<1>1. Quiet'
  BY MovesQuietly DEF SerialInv, Quiet
<1> QED
  BY <1>1 DEF SerialInv, Resting, Begun, Stopping, Ordinary, Replacing, Joining, Labels,
              Served, InMode, NoMode, NoRoom, p, back, Quiet

(* And reads which one it is.                                              *)
LEMMA ReadFlagsKeeps ==
    ASSUME SerialInv, Serial!ReadFlags(Caller)
    PROVE  SerialInv'
<1> USE CallerIsOne DEF Serial!ReadFlags, Serial!Goto, Serial!At, Serial!Status, Serial!fields, Serial!status, Serial!history, Serial!EngineStarts,
    Serial!EngineFailsToStart, Serial!EngineRestarts, Serial!EngineIsLeft, Serial!EngineStops
<1>1. Quiet'
  BY MovesQuietly DEF SerialInv, Quiet
<1> QED
  BY <1>1 DEF SerialInv, Resting, Begun, Stopping, Ordinary, Replacing, Joining, Labels,
              Served, InMode, NoMode, NoRoom, p, back, Quiet

(* Which gets its engine back.                                             *)
LEMMA RestartKeeps ==
    ASSUME SerialInv, Serial!Restart(Caller)
    PROVE  SerialInv'
<1> USE CallerIsOne DEF Serial!Restart, Serial!Goto, Serial!At, Serial!Status, Serial!fields, Serial!status, Serial!history, Serial!EngineStarts,
    Serial!EngineFailsToStart, Serial!EngineRestarts, Serial!EngineIsLeft, Serial!EngineStops
<1>1. Quiet'
  BY MovesQuietly DEF SerialInv, Quiet
<1> QED
  BY <1>1 DEF SerialInv, Resting, Begun, Stopping, Ordinary, Replacing, Joining, Labels,
              Served, InMode, NoMode, NoRoom, p, back, Quiet

(* ReplaceConfig reads the flags.                                          *)
LEMMA ReplaceConfigKeeps ==
    ASSUME SerialInv, Serial!ReplaceConfig(Caller)
    PROVE  SerialInv'
<1> USE CallerIsOne DEF Serial!ReplaceConfig, Serial!Goto, Serial!At, Serial!Status, Serial!fields, Serial!status, Serial!history, Serial!EngineStarts,
    Serial!EngineFailsToStart, Serial!EngineRestarts, Serial!EngineIsLeft, Serial!EngineStops
<1>1. Quiet'
  BY MovesQuietly DEF SerialInv, Quiet
<1> QED
  BY <1>1 DEF SerialInv, Resting, Begun, Stopping, Ordinary, Replacing, Joining, Labels,
              Served, InMode, NoMode, NoRoom, p, back, Quiet

(* And restarts no engine that did not run.                                *)
LEMMA ReplaceAndRestartKeeps ==
    ASSUME SerialInv, Serial!ReplaceAndRestart(Caller)
    PROVE  SerialInv'
<1> USE CallerIsOne DEF Serial!ReplaceAndRestart, Serial!Goto, Serial!At, Serial!Status, Serial!fields, Serial!status, Serial!history, Serial!EngineStarts,
    Serial!EngineFailsToStart, Serial!EngineRestarts, Serial!EngineIsLeft, Serial!EngineStops
<1>1. Quiet'
  BY MovesQuietly DEF SerialInv, Quiet, Replacing, p
<1> QED
  BY <1>1 DEF SerialInv, Resting, Begun, Stopping, Ordinary, Replacing, Joining, Labels,
              Served, InMode, NoMode, NoRoom, p, back, Quiet

(* A join begins where there is no other mode.                             *)
LEMMA JoinBeginsKeeps ==
    ASSUME SerialInv, Serial!JoinBegins(Caller)
    PROVE  SerialInv'
<1> USE CallerIsOne DEF Serial!JoinBegins, Serial!Goto, Serial!At, Serial!Status, Serial!fields, Serial!status, Serial!history, Serial!EngineStarts,
    Serial!EngineFailsToStart, Serial!EngineRestarts, Serial!EngineIsLeft, Serial!EngineStops
<1>1. Quiet'
  BY MovesQuietly DEF SerialInv, Quiet
<1> QED
  BY <1>1 DEF SerialInv, Resting, Begun, Stopping, Ordinary, Replacing, Joining, Labels,
              Served, InMode, NoMode, NoRoom, p, back, Quiet

(* It brings up the engine or fails.                                       *)
LEMMA JoinEngineKeeps ==
    ASSUME SerialInv, Serial!JoinEngine(Caller)
    PROVE  SerialInv'
<1> USE CallerIsOne DEF Serial!JoinEngine, Serial!Goto, Serial!At, Serial!Status, Serial!fields, Serial!status, Serial!history, Serial!EngineStarts,
    Serial!EngineFailsToStart, Serial!EngineRestarts, Serial!EngineIsLeft, Serial!EngineStops
<1>1. Quiet'
  <2>1. engine' \in BOOLEAN
    BY DEF SerialInv, Quiet
  <2>2. CASE Serial!Goto(Caller, "pairing")
    BY <2>1, <2>2, MovesQuietly DEF SerialInv, Quiet
  <2>3. CASE Serial!Goto(Caller, "failed")
    BY <2>1, <2>3, MovesQuietly DEF SerialInv, Quiet
  <2> QED
    BY <2>2, <2>3
<1>2. p = "joining" /\ p' \in {"pairing", "failed"} /\ (p' = "pairing" => engine' = TRUE)
  BY DEF SerialInv, Quiet, p
<1>3. Joining'
  BY <1>2 DEF SerialInv, Joining, back
<1>4. Resting' /\ Begun' /\ Stopping' /\ Ordinary' /\ Replacing' /\ p' \in Labels
  BY <1>2 DEF Resting, Begun, Stopping, Ordinary, Replacing, Labels
<1> QED
  BY <1>1, <1>3, <1>4 DEF SerialInv

(* It may fail at any later point.                                         *)
LEMMA JoinCancelledKeeps ==
    ASSUME SerialInv, Serial!JoinCancelled(Caller)
    PROVE  SerialInv'
<1> USE CallerIsOne DEF Serial!JoinCancelled, Serial!Goto, Serial!At, Serial!Status, Serial!fields, Serial!status, Serial!history, Serial!EngineStarts,
    Serial!EngineFailsToStart, Serial!EngineRestarts, Serial!EngineIsLeft, Serial!EngineStops
<1>1. Quiet'
  BY MovesQuietly DEF SerialInv, Quiet
<1> QED
  BY <1>1 DEF SerialInv, Resting, Begun, Stopping, Ordinary, Replacing, Joining, Labels,
              Served, InMode, NoMode, NoRoom, p, back, Quiet

(* Close ends with the engine.                                             *)
LEMMA CloseEngineKeeps ==
    ASSUME SerialInv, Serial!CloseEngine(Caller)
    PROVE  SerialInv'
<1> USE CallerIsOne DEF Serial!CloseEngine, Serial!Goto, Serial!At, Serial!Status, Serial!fields, Serial!status, Serial!history, Serial!EngineStarts,
    Serial!EngineFailsToStart, Serial!EngineRestarts, Serial!EngineIsLeft, Serial!EngineStops
<1>1. Quiet'
  BY MovesQuietly DEF SerialInv, Quiet
<1> QED
  BY <1>1 DEF SerialInv, Resting, Begun, Stopping, Ordinary, Replacing, Joining, Labels,
              Served, InMode, NoMode, NoRoom, p, back, Quiet

(* The host answers.                                                       *)
LEMMA PairAnsweredKeeps ==
    ASSUME SerialInv, Serial!PairAnswered(Caller)
    PROVE  SerialInv'
<1> USE CallerIsOne DEF Serial!PairAnswered, Serial!Goto, Serial!At, Serial!Status, Serial!fields, Serial!status, Serial!history, Serial!EngineStarts,
    Serial!EngineFailsToStart, Serial!EngineRestarts, Serial!EngineIsLeft, Serial!EngineStops
<1>1. Quiet'
  BY MovesQuietly DEF SerialInv, Quiet
<1> QED
  BY <1>1 DEF SerialInv, Resting, Begun, Stopping, Ordinary, Replacing, Joining, Labels,
              Served, InMode, NoMode, NoRoom, p, back, Quiet

(* Leave sees no ordinary tunnels.                                         *)
LEMMA LeaveReadsKeeps ==
    ASSUME SerialInv, Serial!LeaveReads(Caller)
    PROVE  SerialInv'
<1> USE CallerIsOne DEF Serial!LeaveReads, Serial!Goto, Serial!At, Serial!Status, Serial!fields, Serial!status, Serial!history, Serial!EngineStarts,
    Serial!EngineFailsToStart, Serial!EngineRestarts, Serial!EngineIsLeft, Serial!EngineStops
<1>1. Quiet'
  BY MovesQuietly DEF SerialInv, Quiet
<1> QED
  BY <1>1 DEF SerialInv, Resting, Begun, Stopping, Ordinary, Replacing, Joining, Labels,
              Served, InMode, NoMode, NoRoom, p, back, Quiet

(* And stops the engine.                                                   *)
LEMMA LeaveEngineKeeps ==
    ASSUME SerialInv, Serial!LeaveEngine(Caller)
    PROVE  SerialInv'
<1> USE CallerIsOne DEF Serial!LeaveEngine, Serial!Goto, Serial!At, Serial!Status, Serial!fields, Serial!status, Serial!history, Serial!EngineStarts,
    Serial!EngineFailsToStart, Serial!EngineRestarts, Serial!EngineIsLeft, Serial!EngineStops
<1>1. Quiet'
  BY MovesQuietly DEF SerialInv, Quiet
<1> QED
  BY <1>1 DEF SerialInv, Resting, Begun, Stopping, Ordinary, Replacing, Joining, Labels,
              Served, InMode, NoMode, NoRoom, p, back, Quiet

(* The last step reports that there is no mode.                            *)
LEMMA SetIdleKeeps ==
    ASSUME SerialInv, Serial!SetIdle(Caller)
    PROVE  SerialInv'
<1> USE CallerIsOne DEF Serial!SetIdle, Serial!Goto, Serial!At, Serial!Status, Serial!fields, Serial!status, Serial!history, Serial!EngineStarts,
    Serial!EngineFailsToStart, Serial!EngineRestarts, Serial!EngineIsLeft, Serial!EngineStops
<1>1. Quiet'
  BY MovesQuietly DEF SerialInv, Quiet
<1> QED
  BY <1>1 DEF SerialInv, Resting, Begun, Stopping, Ordinary, Replacing, Joining, Labels,
              Served, InMode, NoMode, NoRoom, p, back, Quiet

(* A join has succeeded: its syncDevices starts.                           *)
LEMMA JoinSucceedsKeeps ==
    ASSUME SerialInv, Serial!JoinSucceeds(Caller)
    PROVE  SerialInv'
<1> USE CallerIsOne DEF Serial!JoinSucceeds, Serial!At
<1>1. pc' = [pc EXCEPT ![Caller] = "idle", ![<<Caller>>] = "synced"]
  BY DEF SerialInv, Joining, p
<1>2. pc'[Caller] = "idle" /\ pc' = [g \in Serial!Goroutines |-> pc'[g]]
  BY <1>1 DEF SerialInv, Quiet
<1>3. \A g \in Serial!Goroutines : g # Caller => pc'[g] = pc[g] \/ (g = <<Caller>> /\ pc'[g] = "synced")
  BY <1>1 DEF SerialInv, Quiet
<1>4. Quiet'
  BY <1>2, <1>3 DEF SerialInv, Quiet
<1> QED
  BY <1>2, <1>4 DEF SerialInv, Resting, Begun, Stopping, Ordinary, Replacing, Joining, Labels,
              Served, InMode, NoMode, NoRoom, p, back, Quiet

(* Leave takes a session, or goes on where there is none.                  *)
LEMMA LeaveKeeps ==
    ASSUME SerialInv, Serial!Leave(Caller)
    PROVE  SerialInv'
<1> USE CallerIsOne DEF Serial!Leave, Serial!At, Serial!TakeSession, Serial!history
<1>1. pc'[Caller] = (IF clientSession THEN "leaveReads" ELSE back) /\ pc' = [g \in Serial!Goroutines |-> pc'[g]]
  BY DEF back
<1>2. \A g \in Serial!Goroutines : g # Caller =>
          pc'[g] = pc[g] \/ (pc[g] \in {"synced", "broken"} /\ pc'[g] = "cancelled")
  OBVIOUS
<1>3. Quiet'
  BY <1>1, <1>2 DEF SerialInv, Quiet
<1> QED
  BY <1>1, <1>3, SMTT(30) DEF SerialInv, Resting, Begun, Stopping, Ordinary, Replacing, Joining, Labels,
              Served, InMode, NoMode, NoRoom, p, back, Quiet

(* syncDevices only reports; it never takes the session away by itself.    *)
LEMMA SyncKeeps ==
    ASSUME SerialInv, NEW g \in Serial!Syncs, Serial!Sync(g)
    PROVE  SerialInv'
<1> USE CallerIsOne
<1>1. PICK label \in {"idle", "synced", "broken", "cancelled"} : pc' = [pc EXCEPT ![g] = label]
  BY DEF Serial!Sync, Serial!SyncBreaks, Serial!SyncReconnects, Serial!SyncRefused, Serial!SyncCancelled, Serial!Goto
<1>2. UNCHANGED <<running, manager, clientSession, ordinaryRunning, engine, networkMode, then, seen, closed, swapped, failed>>
  BY DEF Serial!Sync, Serial!SyncBreaks, Serial!SyncReconnects, Serial!SyncRefused, Serial!SyncCancelled,
         Serial!fields, Serial!status, Serial!history, Serial!EngineStarts,
    Serial!EngineFailsToStart, Serial!EngineRestarts, Serial!EngineIsLeft, Serial!EngineStops
<1>3. pc'[g] = label /\ \A h \in Serial!Goroutines : h # g => pc'[h] = pc[h]
  BY <1>1 DEF SerialInv, Quiet
<1>4. pc' = [h \in Serial!Goroutines |-> pc'[h]]
  BY <1>1 DEF SerialInv, Quiet
<1>5. Quiet'
  BY <1>2, <1>3, <1>4 DEF SerialInv, Quiet
<1> QED
  BY <1>2, <1>3, <1>5 DEF SerialInv, Resting, Begun, Stopping, Ordinary, Replacing, Joining, Labels,
              Served, InMode, NoMode, NoRoom, p, back, Quiet

(* Nothing but a report of the engine's state, or nothing at all.          *)
LEMMA ReportKeeps ==
    ASSUME SerialInv,
           UNCHANGED <<running, manager, clientSession, ordinaryRunning, engine, networkMode, pc, then, seen, closed, swapped, failed>>
    PROVE  SerialInv'
BY DEF SerialInv, Resting, Begun, Stopping, Ordinary, Replacing, Joining, Labels,
              Served, InMode, NoMode, NoRoom, p, back, Quiet

(* What the one caller does keeps the invariant.                           *)
LEMMA CallerKeeps ==
    ASSUME SerialInv,
           \/ Serial!Call(Caller) \/ Serial!Step(Caller) \/ Serial!PairAnswered(Caller)
           \/ Serial!JoinSucceeds(Caller) \/ Serial!LeaveStep(Caller)
    PROVE  SerialInv'
BY CallKeeps, JoinSucceedsKeeps, LeaveKeeps, StartRoomKeeps, StopRoomKeeps, StopNetworkKeeps, StopNetworkReadsKeeps,
   StopNetworkEngineKeeps, StartOpenP2PKeeps, StartEngineKeeps, StopOpenP2PKeeps,
   StopOrdinaryKeeps, OrdinaryStoppedKeeps, ReplaceTunnelsKeeps, ReadFlagsKeeps,
   RestartKeeps, ReplaceConfigKeeps, ReplaceAndRestartKeeps, JoinBeginsKeeps,
   JoinEngineKeeps, JoinCancelledKeeps, CloseEngineKeeps, PairAnsweredKeeps,
   LeaveReadsKeeps, LeaveEngineKeeps, SetIdleKeeps
   DEF Serial!Step, Serial!LeaveStep

(* Another caller has no command, and none may begin one.                  *)
LEMMA OthersDoNothing ==
    ASSUME SerialInv, OthersIdle, NEW c \in Callers, c # Caller,
           \/ Serial!Call(c) \/ Serial!Step(c) \/ Serial!PairAnswered(c)
           \/ Serial!JoinSucceeds(c) \/ Serial!LeaveStep(c)
    PROVE  FALSE
<1>1. pc[c] = "idle" /\ pc'[c] = "idle" /\ c \in DOMAIN pc
  BY CallerIsOne DEF SerialInv, Quiet, OthersIdle
<1>2. ~Serial!Call(c)
  BY <1>1, CommandsAssumption DEF Serial!Call, Serial!Goto
<1>3. ~Serial!Step(c)
  BY <1>1 DEF Serial!Step, Serial!At, Serial!StartRoom, Serial!StopRoom, Serial!StopNetwork, Serial!StopNetworkReads,
              Serial!StopNetworkEngine, Serial!StartOpenP2P, Serial!StartEngine,
              Serial!StopOpenP2P, Serial!StopOrdinary, Serial!OrdinaryStopped,
              Serial!ReplaceTunnels, Serial!ReadFlags, Serial!Restart, Serial!ReplaceConfig,
              Serial!ReplaceAndRestart, Serial!JoinBegins, Serial!JoinEngine,
              Serial!JoinCancelled, Serial!CloseEngine
<1>4. ~Serial!PairAnswered(c) /\ ~Serial!JoinSucceeds(c) /\ ~Serial!LeaveStep(c)
  BY <1>1 DEF Serial!PairAnswered, Serial!JoinSucceeds, Serial!LeaveStep, Serial!At,
              Serial!Leave, Serial!LeaveReads, Serial!LeaveEngine, Serial!SetIdle
<1> QED
  BY <1>2, <1>3, <1>4

(* Every step of "serial" keeps the invariant.                             *)
LEMMA SerialNext ==
    ASSUME SerialInv, Serial!Next, OthersIdle
    PROVE  SerialInv'
<1>1. ASSUME NEW c \in Callers,
             \/ Serial!Call(c) \/ Serial!Step(c) \/ Serial!PairAnswered(c)
             \/ Serial!JoinSucceeds(c) \/ Serial!LeaveStep(c)
      PROVE  SerialInv'
  BY <1>1, CallerKeeps, OthersDoNothing
<1>2. ASSUME NEW g \in Serial!Syncs, Serial!LeaveStep(g)
      PROVE  SerialInv'
  <2>1. pc[g] \in {"idle", "synced", "broken", "cancelled"}
    BY DEF SerialInv, Quiet
  <2> QED
    BY <1>2, <2>1 DEF Serial!LeaveStep, Serial!At, Serial!Leave, Serial!LeaveReads, Serial!LeaveEngine, Serial!SetIdle
<1>3. ASSUME NEW g \in Serial!Syncs, Serial!Sync(g)
      PROVE  SerialInv'
  BY <1>3, SyncKeeps
<1>4. ASSUME Serial!OnProcessState \/ Serial!SetLifecycle
      PROVE  SerialInv'
  BY <1>4, ReportKeeps DEF Serial!OnProcessState, Serial!SetLifecycle, Serial!fields, Serial!status, Serial!control, Serial!history
<1> QED
  BY <1>1, <1>2, <1>3, <1>4 DEF Serial!Next, Serial!Goroutines

-----------------------------------------------------------------------------
(* Commands that overlap.                                                  *)

(* A join and ordinary tunnels are both begun in one critical section of   *)
(* r.mu that finds the other flag clear; no other step sets either flag.   *)
LEMMA JoinsNext ==
    ASSUME Joins!JoinOrOrdinary, Joins!Next
    PROVE  Joins!JoinOrOrdinary'
<1> USE DEF Joins!JoinOrOrdinary, Joins!fields, Joins!control, Joins!TakeSession
<1>1. ASSUME NEW c \in Callers, Joins!StartOpenP2P(c) \/ Joins!StartEngine(c) \/ Joins!OrdinaryStopped(c)
      PROVE  Joins!JoinOrOrdinary'
  BY <1>1 DEF Joins!StartOpenP2P, Joins!StartEngine, Joins!OrdinaryStopped
<1>2. ASSUME NEW c \in Callers, Joins!JoinBegins(c)
      PROVE  Joins!JoinOrOrdinary'
  BY <1>2 DEF Joins!JoinBegins
<1>3. ASSUME NEW g \in Joins!Goroutines, Joins!LeaveStep(g)
      PROVE  Joins!JoinOrOrdinary'
  BY <1>3 DEF Joins!LeaveStep, Joins!Leave, Joins!LeaveReads, Joins!LeaveEngine, Joins!SetIdle
<1>4. ASSUME NEW c \in Callers,
             \/ Joins!Call(c) \/ Joins!PairAnswered(c) \/ Joins!JoinSucceeds(c) \/ Joins!StartRoom(c)
             \/ Joins!StopRoom(c) \/ Joins!StopNetwork(c) \/ Joins!StopNetworkReads(c)
             \/ Joins!StopNetworkEngine(c) \/ Joins!StopOpenP2P(c) \/ Joins!StopOrdinary(c)
             \/ Joins!ReplaceTunnels(c) \/ Joins!ReadFlags(c) \/ Joins!Restart(c) \/ Joins!ReplaceConfig(c)
             \/ Joins!ReplaceAndRestart(c) \/ Joins!JoinEngine(c) \/ Joins!JoinCancelled(c)
             \/ Joins!CloseEngine(c)
      PROVE  UNCHANGED <<clientSession, ordinaryRunning>>
  BY <1>4 DEF Joins!Call, Joins!PairAnswered, Joins!JoinSucceeds, Joins!StartRoom, Joins!StopRoom,
              Joins!StopNetwork, Joins!StopNetworkReads, Joins!StopNetworkEngine, Joins!StopOpenP2P,
              Joins!StopOrdinary, Joins!ReplaceTunnels, Joins!ReadFlags, Joins!Restart,
              Joins!ReplaceConfig, Joins!ReplaceAndRestart, Joins!JoinEngine, Joins!JoinCancelled,
              Joins!CloseEngine
<1>5. ASSUME NEW g \in Joins!Syncs, Joins!Sync(g)
      PROVE  UNCHANGED <<clientSession, ordinaryRunning>>
  BY <1>5 DEF Joins!Sync, Joins!SyncBreaks, Joins!SyncReconnects, Joins!SyncRefused, Joins!SyncCancelled
<1>6. ASSUME Joins!OnProcessState \/ Joins!SetLifecycle
      PROVE  UNCHANGED <<clientSession, ordinaryRunning>>
  BY <1>6 DEF Joins!OnProcessState, Joins!SetLifecycle
<1> QED
  BY <1>1, <1>2, <1>3, <1>4, <1>5, <1>6 DEF Joins!Next, Joins!Step

-----------------------------------------------------------------------------
(* The inductive invariant of MCRuntime.                                   *)
RuntimeInv ==
    /\ part \in {"serial", "joins", "overlap"}
    /\ part = "serial" => SerialInv
    /\ part # "serial" => Joins!JoinOrOrdinary

(* It holds at the start, where nothing runs.                              *)
LEMMA RuntimeInit == Init => RuntimeInv
<1>1. Serial!Init => SerialInv
  BY CallerIsOne DEF Serial!Init, SerialInv, Resting, Begun, Stopping, Ordinary, Replacing, Joining, Labels,
              Served, InMode, NoMode, NoRoom, p, back, Quiet
<1>2. Joins!Init => Joins!JoinOrOrdinary
  BY DEF Joins!Init, Joins!JoinOrOrdinary
<1> QED
  BY <1>1, <1>2 DEF Init, RuntimeInv

(* Every step keeps it.                                                    *)
LEMMA RuntimeNext == RuntimeInv /\ [Next]_<<part, vars>> => RuntimeInv'
<1>1. ASSUME RuntimeInv, UNCHANGED <<part, vars>>
      PROVE  RuntimeInv'
  BY <1>1, ReportKeeps DEF RuntimeInv, vars, Joins!JoinOrOrdinary
<1>2. ASSUME RuntimeInv, Next
      PROVE  RuntimeInv'
  BY <1>2, SerialNext, JoinsNext DEF RuntimeInv, Next
<1> QED
  BY <1>1, <1>2

(* The invariant of both parts holds for every set of callers.             *)
THEOREM RuntimeInvariant == Spec => []RuntimeInv
BY RuntimeInit, RuntimeNext, PTL DEF Spec

(* Commands that run one after the other never bring up two of hosting,    *)
(* joining and ordinary tunnels; and a join and ordinary tunnels, which    *)
(* Join and StartOpenP2P check under r.mu, exclude each other however      *)
(* commands overlap.                                                       *)
THEOREM ModeIsOne == Spec => []OneMode
<1>1. SerialInv => Serial!OneMode
  <2> SUFFICES ASSUME SerialInv PROVE Serial!OneMode
    OBVIOUS
  <2>1. ~(running /\ clientSession) /\ ~(running /\ ordinaryRunning) /\ ~(clientSession /\ ordinaryRunning)
    BY DEF SerialInv, Resting, Begun, Stopping, Ordinary, Replacing, Joining, Labels,
              Served, InMode, NoMode, NoRoom, p, back, Quiet
  <2> QED
    BY <2>1 DEF Serial!OneMode, Serial!Modes
<1>2. RuntimeInv => OneMode
  BY <1>1 DEF RuntimeInv, OneMode
<1> QED
  BY <1>2, RuntimeInvariant, PTL

(* With one command at a time: whenever none is half-way, no engine runs   *)
(* without a mode that needs it or outlives Close, a mode is without its   *)
(* engine only after a restart that failed, the mode reported is the one   *)
(* there is, and ReplaceConfig never changed the account of a room that    *)
(* was active.                                                             *)
THEOREM ModeHasItsEngine == Spec => []EngineServesMode
<1>1. SerialInv => Serial!AccountKept
  BY DEF SerialInv, Quiet, Serial!AccountKept
<1>2. SerialInv => Serial!EngineServesMode
  <2> SUFFICES ASSUME SerialInv, Serial!AtRest PROVE Serial!EngineServesMode
    BY DEF Serial!EngineServesMode
  <2>1. p \in {"idle", "pairing", "configured"}
    BY CallerIsOne DEF Serial!AtRest, SerialInv, Labels, p
  <2>2. Served \/ (closed /\ NoRoom /\ ~engine /\ networkMode = "idle")
    BY <2>1 DEF SerialInv, Resting, Begun, Stopping, Ordinary, Replacing, Joining, Labels,
              Served, InMode, NoMode, NoRoom, p, back, Quiet
  <2>3. closed => NoRoom /\ ~engine /\ networkMode = "idle"
    BY <2>1 DEF SerialInv, Resting, Begun, Stopping, Ordinary, Replacing, Joining, Labels,
              Served, InMode, NoMode, NoRoom, p, back, Quiet
  <2> QED
    BY <2>2, <2>3 DEF Serial!EngineServesMode, Serial!Modes, Served, InMode, NoMode, NoRoom, SerialInv, Quiet
<1>3. RuntimeInv => EngineServesMode
  BY <1>1, <1>2 DEF RuntimeInv, EngineServesMode
<1> QED
  BY <1>3, RuntimeInvariant, PTL
=============================================================================
