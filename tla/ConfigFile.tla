----------------------------- MODULE ConfigFile -----------------------------
(***************************************************************************)
(* config.json and its two writers.  The store (openp2p/config.go) reads,  *)
(* changes and replaces the file under its own mutex, for the commands of  *)
(* the runtime.  The embedded engine (openp2pengine/config.go) loads the   *)
(* file when it starts and replaces it by its own configuration whenever   *)
(* it logs in, is edited from the server or gets an app; it knows nothing  *)
(* of the store's mutex.  Each writer renames a temporary file, so a crash *)
(* leaves the old or the new file.  Which modes exclude each other is in   *)
(* Runtime.                                                                *)
(***************************************************************************)
EXTENDS Naturals, Sequences, FiniteSets

CONSTANTS
    Users,       \* tunnels a user may configure
    Pair, WG,    \* the two internal tunnels of a session
    OnePort,     \* those that have the same protocol and local port
    Callers,     \* commands that may run at a time
    NoSave, Pairs,  \* Pairs: the host answers a joining client
    MaxCommands, MaxSaves, MaxPushes, MaxCrashes

Internal == {Pair, WG}

VARIABLES
    file,      \* the tunnels in config.json
    gConf,     \* the engine's configuration
    on,        \* the engine runs (moduleRun)
    saving,    \* what an engine's save has marshalled and not yet renamed
    mu,        \* the commands that are between load and save of the store
    call,      \* what a command has still to do
    session,
    count,     \* what has been used up of the bounds
    asked,     \* history: the tunnels a user asked for last
    late       \* history: a save outlived the engine that began it

vars == <<file, gConf, on, saving, mu, call, session, count, asked, late>>

(* validateConfig: no two tunnels on a port.                               *)
validateConfig(apps) == Cardinality(apps \cap OnePort) <= 1

Init ==
    /\ file = {} /\ gConf = {} /\ on = FALSE /\ saving = NoSave /\ mu = {}
    /\ call = [c \in Callers |-> << >>] /\ session = "idle"
    /\ count = [commands |-> 0, saves |-> 0, pushes |-> 0, crashes |-> 0]
    /\ asked = {} /\ late = FALSE

Set(part, apps) == [do |-> "set", part |-> part, apps |-> apps]
Do(step) == [do |-> step]

Begin(c, steps) ==
    /\ call[c] = << >> /\ count.commands < MaxCommands
    /\ call' = [call EXCEPT ![c] = steps]
    /\ count' = [count EXCEPT !.commands = @ + 1]

At(c, step) == call[c] # << >> /\ Head(call[c]).do = step
Done(c) == call' = [call EXCEPT ![c] = Tail(@)]

-----------------------------------------------------------------------------
(* Mutant: the engine is not stopped, so starting it does nothing. *)
ReplaceTunnelsWithoutStop(c) ==
    /\ \E apps \in SUBSET Users :
          validateConfig(apps) /\ Begin(c, <<Set("user", apps), Do("startIf")>>)
    /\ UNCHANGED <<file, gConf, on, saving, mu, session, asked, late>>

ReplaceTunnels(c) ==
    /\ \E apps \in SUBSET Users :
          validateConfig(apps) /\ Begin(c, <<Set("user", apps), Do("stop"), Do("startIf")>>)
    /\ UNCHANGED <<file, gConf, on, saving, mu, session, asked, late>>

(* ReplaceConfig decides whether to restart before it saves.               *)
ReplaceConfig(c) ==
    /\ \E apps \in SUBSET Users :
          /\ validateConfig(apps)
          /\ Begin(c, <<Set("user", apps)>> \o
                      IF session # "idle" THEN <<Do("stop"), Do("start")>> ELSE << >>)
    /\ UNCHANGED <<file, gConf, on, saving, mu, session, asked, late>>

StartOpenP2P(c) ==
    /\ session = "idle" /\ session' = "ordinary" /\ Begin(c, <<Do("start")>>)
    /\ UNCHANGED <<file, gConf, on, saving, mu, asked, late>>

StopOpenP2P(c) ==
    /\ session = "ordinary" /\ Begin(c, <<Do("stop"), Do("idle")>>)
    /\ UNCHANGED <<file, gConf, on, saving, mu, session, asked, late>>

StopSession(c) ==
    /\ At(c, "idle") /\ session' = (IF session = "ordinary" THEN "idle" ELSE session) /\ Done(c)
    /\ UNCHANGED <<file, gConf, on, saving, mu, count, asked, late>>

Join(c) ==
    /\ session = "idle" /\ session' = "client"
    /\ Begin(c, <<Set("internal", {Pair}), Do("stop"), Do("start"), Do("pair"),
                  Set("internal", Internal), Do("add")>>)
    /\ UNCHANGED <<file, gConf, on, saving, mu, asked, late>>

LeaveSteps == <<Set("internal", {}), Do("stop")>>

(* Leave ends the session first and then cleans up.                        *)
Leave(c) ==
    /\ session = "client" /\ session' = "idle" /\ Begin(c, LeaveSteps)
    /\ UNCHANGED <<file, gConf, on, saving, mu, asked, late>>

(* The pairing connection runs through the pairing tunnel.                 *)
Configure(c) ==
    /\ At(c, "pair") /\ Pairs /\ on /\ Pair \in gConf /\ Done(c)
    /\ UNCHANGED <<file, gConf, on, saving, mu, session, count, asked, late>>

(* A join that fails, or was cancelled, leaves; when the session has been  *)
(* left already there is nothing more to do.                               *)
JoinFails(c) ==
    /\ At(c, "pair") \/ (At(c, "add") /\ ~on)
    /\ session' = IF session = "client" THEN "idle" ELSE session
    /\ call' = [call EXCEPT ![c] = IF session = "client" THEN LeaveSteps ELSE << >>]
    /\ UNCHANGED <<file, gConf, on, saving, mu, count, asked, late>>

-----------------------------------------------------------------------------
(* ReplaceUserApps, Replace and SetInternal load the file under s.mu       *)
StoreLoads(c) ==
    /\ At(c, "set") /\ mu = {} /\ validateConfig(file)
    /\ mu' = {[caller |-> c, apps |-> file]}
    /\ UNCHANGED <<file, gConf, on, saving, call, session, count, asked, late>>

(* The file is refused: the command returns the error; a join leaves, and  *)
(* Leave goes on to stop the engine.                                       *)
StoreRefuses(c) ==
    /\ At(c, "set") /\ mu = {} /\ ~validateConfig(file)
    /\ LET joining == \E i \in 1 .. Len(call[c]) : call[c][i].do = "add"
       IN  /\ session' = IF joining /\ session = "client" THEN "idle" ELSE session
           /\ call' = [call EXCEPT ![c] =
                 IF joining /\ session = "client" THEN LeaveSteps
                 ELSE IF @ = LeaveSteps THEN Tail(@) ELSE << >>]
    /\ UNCHANGED <<file, gConf, on, saving, mu, count, asked, late>>

(* and keep the part that they do not replace.                             *)
Merged(old, step) == step.apps \cup IF step.part = "user" THEN old \ Users ELSE old \cap Users

StoreSaves(c) ==
    \E m \in mu :
      /\ m.caller = c /\ mu' = mu \ {m} /\ Done(c)
      /\ file' = Merged(m.apps, Head(call[c]))
      /\ asked' = IF Head(call[c]).part = "user" THEN Head(call[c]).apps ELSE asked
      /\ UNCHANGED <<gConf, on, saving, session, count, late>>

-----------------------------------------------------------------------------
StopEngine(c) ==
    /\ At(c, "stop") /\ on' = FALSE /\ Done(c)
    /\ late' = (late \/ (on /\ saving # NoSave))
    /\ UNCHANGED <<file, gConf, saving, mu, session, count, asked>>

(* Start does nothing when the engine runs.                                *)
StartEngine(c) ==
    /\ At(c, "start") \/ At(c, "startIf")
    /\ Done(c)
    /\ IF on \/ (At(c, "startIf") /\ session = "idle")
       THEN UNCHANGED <<gConf, on, late>>
       ELSE on' = TRUE /\ gConf' = file /\ late' = (saving # NoSave)
    /\ UNCHANGED <<file, saving, mu, session, count, asked>>

(* AddApp puts the app, whose port is new, into the running engine's       *)
(* configuration and saves.                                                *)
AddApp(c) ==
    /\ At(c, "add") /\ on /\ saving = NoSave /\ Done(c)
    /\ gConf' = gConf \cup {WG} /\ file' = gConf'
    /\ UNCHANGED <<on, saving, mu, session, count, asked, late>>

(* The engine has logged in and saves: it marshals its configuration       *)
Login ==
    /\ on /\ saving = NoSave /\ count.saves < MaxSaves
    /\ saving' = gConf /\ count' = [count EXCEPT !.saves = @ + 1]
    /\ UNCHANGED <<file, gConf, on, mu, call, session, asked, late>>

(* handleEditApp replaces a tunnel, adds one or deletes one, and saves.    *)
EditApp ==
    /\ on /\ saving = NoSave /\ count.pushes < MaxPushes
    /\ \E old, new \in SUBSET Users :
          /\ Cardinality(old) <= 1 /\ Cardinality(new) <= 1 /\ old \cup new # {}
          /\ gConf' = (gConf \ old) \cup new /\ saving' = gConf' /\ asked' = gConf' \cap Users
    /\ count' = [count EXCEPT !.pushes = @ + 1]
    /\ UNCHANGED <<file, on, mu, call, session, late>>

(* and renames the file; Stop does not wait for it.                        *)
SaveEnds ==
    /\ saving # NoSave /\ file' = saving /\ saving' = NoSave
    /\ UNCHANGED <<gConf, on, mu, call, session, count, asked, late>>

(* The process ends and starts again: New clears the internal tunnels.     *)
Restart ==
    /\ count.crashes < MaxCrashes /\ validateConfig(file)
    /\ count' = [count EXCEPT !.crashes = @ + 1]
    /\ file' = file \cap Users /\ gConf' = {} /\ on' = FALSE /\ saving' = NoSave /\ mu' = {}
    /\ call' = [c \in Callers |-> << >>] /\ session' = "idle" /\ late' = FALSE
    /\ asked' = IF saving = NoSave THEN asked ELSE file \cap Users

Next ==
    \/ \E c \in Callers :
          \/ ReplaceTunnels(c) \/ ReplaceConfig(c) \/ StartOpenP2P(c) \/ StopOpenP2P(c)
          \/ StopSession(c) \/ Join(c) \/ Leave(c) \/ Configure(c) \/ JoinFails(c)
          \/ StoreLoads(c) \/ StoreRefuses(c) \/ StoreSaves(c)
          \/ StopEngine(c) \/ StartEngine(c) \/ AddApp(c)
    \/ Login \/ EditApp \/ SaveEnds \/ Restart

Spec == Init /\ [][Next]_vars

-----------------------------------------------------------------------------
Quiet == saving = NoSave /\ \A c \in Callers : call[c] = << >>

(* The tunnels in config.json are the ones a user asked for last: no two   *)
(* commands that overlap, no restart of the engine and no crash bring      *)
(* older ones back (Core functional description, section 4: a change of    *)
(* the list is saved atomically and the engine restarted).  It is about    *)
(* the writers of the store: a save of the engine that is still under way  *)
(* and an edit by the server do bring back and change tunnels, so it is    *)
(* asked of an instance where the engine saves nothing (MaxSaves and       *)
(* MaxPushes are 0).                                                       *)
TunnelsKept == saving = NoSave => file \cap Users = asked

(* When nothing is under way, the engine runs the tunnels of config.json,  *)
(* unless a save outlived the engine that began it: every command that     *)
(* changes the file also restarts the engine, and every save of the engine *)
(* is of what it runs.                                                     *)
EngineRunsFile == Quiet /\ on /\ ~late => gConf = file

(* A client session keeps both of its internal tunnels, whatever the user  *)
(* configures and the engine saves meanwhile.                              *)
SessionTunnels == Quiet /\ session = "client" => Internal \subseteq file
=============================================================================
