------------------------------ MODULE AppTable ------------------------------
(***************************************************************************)
(* The configured apps (gConf.Apps) and the running ones (pn.apps) of the  *)
(* engine, and the three goroutines that change them: autorunApp, which    *)
(* starts what is configured and not running (runAll), the gateway's read  *)
(* loop, which switches and edits apps (MsgPushSwitchApp, MsgPushEditApp), *)
(* and the runtime, which adds its internal apps (AddApp of embedded.go).  *)
(*                                                                         *)
(* gConf.Apps is a Go slice of pointers: an entry is a pointer into heap,  *)
(* and runAll walks the backing array it saw first, which delete and add   *)
(* change in place until the slice is reallocated.                         *)
(***************************************************************************)
EXTENDS Naturals, Sequences

CONSTANTS
    Ports,    \* a local port and protocol: what findApp compares
    Nodes,    \* the peer an app leads to
    None,
    MaxEntries, \* number of pointers of AppConfig values
    MaxApps,  \* number of apps that run at a time
    InitLen,  \* number of apps in the configuration that was loaded
    MaxPushes,\* number of pushes of the gateway
    MaxAdds   \* number of apps the runtime adds

VARIABLES
    heap,     \* the AppConfig behind a pointer
    conf,     \* gConf.Apps
    apps,     \* pn.apps: the config a running app was created with
    snap,     \* runAll's allApps
    shared,   \* allApps still has the backing array of gConf.Apps
    at,       \* runAll's position in allApps
    runner,   \* where runAll is
    adding,   \* the config runAll passed to AddApp
    push,     \* the push being handled: <<>> or <<kind, port>>
    pushes, adds,
    embed     \* what AddApp of embedded.go adds, or None

vars == <<heap, conf, apps, snap, shared, at, runner, adding, push, pushes, adds, embed>>

Entries == 1..MaxEntries
Apps == 1..MaxApps

Config == [port : Ports, node : Nodes, enabled : BOOLEAN]

Running == {a \in Apps : apps[a] # None}

(* Mutant: an app whose copy of the config is switched off is overlooked. *)
FindAppEnabled(c) == {a \in Running : apps[a].port = c.port /\ apps[a].enabled}

(* findApp: the apps of a port; Range stops at the first it meets.         *)
FindApp(c) == {a \in Running : apps[a].port = c.port}

(* load(): any configuration of InitLen apps; nothing runs yet.            *)
Init ==
    /\ heap \in [Entries -> Config]
    /\ \A e \in Entries \ 1..InitLen : \A f \in Entries \ 1..InitLen :
          heap[e] = heap[f] /\ ~heap[e].enabled
    /\ conf = [i \in 1..InitLen |-> i] /\ snap = conf /\ shared = TRUE
    /\ apps = [a \in Apps |-> None]
    /\ at = 1 /\ runner = "idle" /\ adding = None
    /\ push = <<>> /\ pushes = 0 /\ adds = 0 /\ embed = None

-----------------------------------------------------------------------------
(* What a change of gConf.Apps to new does to the array runAll walks: the  *)
(* slots of the new slice are written, the ones behind it keep what they   *)
(* had.                                                                    *)
InPlace(new) ==
    /\ conf' = new
    /\ shared' = shared
    /\ snap' = IF shared
               THEN [i \in DOMAIN snap |-> IF i <= Len(new) THEN new[i] ELSE snap[i]]
               ELSE snap

(* The slice outgrew its array and moved.                                  *)
Reallocated(new) == conf' = new /\ shared' = FALSE /\ UNCHANGED snap

(* A pointer nobody holds; which one does not matter.                      *)
Fresh ==
    LET free == Entries \ ({conf[i] : i \in DOMAIN conf} \cup {snap[i] : i \in DOMAIN snap})
    IN {e \in free : \A f \in free : e <= f}

(* An app id nobody has; which one does not matter.                        *)
FreshApp == LET free == Apps \ Running IN {a \in free : \A b \in free : a <= b}

(* add: overrides the entry of the same peer and port, or appends.         *)
Add(c, override) ==
    \E e \in Fresh :
       LET same == {i \in DOMAIN conf : heap[conf[i]].port = c.port /\ heap[conf[i]].node = c.node}
       IN /\ heap' = [heap EXCEPT ![e] = c]
          /\ IF override /\ same # {}
             THEN InPlace([conf EXCEPT ![CHOOSE i \in same : \A j \in same : i <= j] = e])
             ELSE \/ InPlace(Append(conf, e))
                  \/ Reallocated(Append(conf, e))

(* delete: the first entry of the port.                                    *)
Without(port) ==
    LET same == {i \in DOMAIN conf : heap[conf[i]].port = port}
        k == CHOOSE i \in same : \A j \in same : i <= j
    IN IF same = {} THEN conf
       ELSE SubSeq(conf, 1, k - 1) \o SubSeq(conf, k + 1, Len(conf))

-----------------------------------------------------------------------------
(* runAll, called by autorunApp every second while the network is online.  *)

RunAllBegins ==
    /\ runner = "idle"
    /\ snap' = conf /\ shared' = TRUE /\ at' = 1 /\ runner' = "walk"
    /\ UNCHANGED <<heap, conf, apps, adding, push, pushes, adds, embed>>

(* Mutant: the walk ends at the first entry that is switched off. *)
WalkBreaks ==
    /\ runner = "walk"
    /\ IF at > Len(snap) \/ ~heap[snap[at]].enabled
       THEN runner' = "idle" /\ UNCHANGED at
       ELSE IF FindApp(heap[snap[at]]) # {}
            THEN at' = at + 1 /\ UNCHANGED runner
            ELSE runner' = "copy" /\ UNCHANGED at
    /\ UNCHANGED <<heap, conf, apps, snap, shared, adding, push, pushes, adds, embed>>

(* With the read lock: an entry that is switched off or running is passed. *)
Walk ==
    /\ runner = "walk"
    /\ IF at > Len(snap)
       THEN runner' = "idle" /\ UNCHANGED at
       ELSE IF ~heap[snap[at]].enabled \/ FindApp(heap[snap[at]]) # {}
            THEN at' = at + 1 /\ UNCHANGED runner
            ELSE runner' = "copy" /\ UNCHANGED at
    /\ UNCHANGED <<heap, conf, apps, snap, shared, adding, push, pushes, adds, embed>>

(* Without it: *config is copied for AddApp.                               *)
Copy ==
    /\ runner = "copy"
    /\ adding' = heap[snap[at]] /\ runner' = "check"
    /\ UNCHANGED <<heap, conf, apps, snap, shared, at, push, pushes, adds, embed>>

(* AddApp looks for an app of the port once more.                          *)
AddAppChecks ==
    /\ runner = "check"
    /\ IF FindApp(adding) # {}
       THEN runner' = "walk" /\ adding' = None /\ at' = at + 1
       ELSE runner' = "start" /\ UNCHANGED <<adding, at>>
    /\ UNCHANGED <<heap, conf, apps, snap, shared, push, pushes, adds, embed>>

(* The app is started and stored under an id of its own.                   *)
AddAppStores ==
    /\ runner = "start"
    /\ \E a \in FreshApp : apps' = [apps EXCEPT ![a] = adding]
    /\ runner' = "walk" /\ adding' = None /\ at' = at + 1
    /\ UNCHANGED <<heap, conf, snap, shared, push, pushes, adds, embed>>

-----------------------------------------------------------------------------
(* The read loop of the gateway handles one push after the other.          *)

Pushed == push = <<>> /\ pushes < MaxPushes /\ pushes' = pushes + 1

(* MsgPushSwitchApp: switchApp changes the first entry in place; when it   *)
(* is switched off, DeleteApp follows.                                     *)
SwitchApp(port, on) ==
    /\ Pushed
    /\ LET same == {i \in DOMAIN conf : heap[conf[i]].port = port}
           k == CHOOSE i \in same : \A j \in same : i <= j
       IN heap' = IF same = {} THEN heap ELSE [heap EXCEPT ![conf[k]].enabled = on]
    /\ push' = IF on THEN <<>> ELSE <<"switch", port>>
    /\ UNCHANGED <<conf, apps, snap, shared, at, runner, adding, adds, embed>>

(* handleEditApp: the old entry is deleted,                                *)
EditDeletes(port) ==
    /\ Pushed
    /\ InPlace(Without(port))
    /\ push' = <<"edit", port>>
    /\ UNCHANGED <<heap, apps, at, runner, adding, adds, embed>>

(* the new one is added, unless the app is only deleted,                   *)
EditAdds ==
    /\ push # <<>> /\ push[1] = "edit"
    /\ \/ UNCHANGED <<heap, conf, snap, shared>>
       \/ \E port \in Ports, node \in Nodes :
             Add([port |-> port, node |-> node, enabled |-> TRUE], FALSE)
    /\ push' = <<"switch", push[2]>>
    /\ UNCHANGED <<apps, at, runner, adding, pushes, adds, embed>>

(* and DeleteApp closes the running app of the old port and forgets it.    *)
DeleteApp ==
    /\ push # <<>> /\ push[1] = "switch"
    /\ LET found == FindApp([port |-> push[2]])
       IN IF found = {} THEN UNCHANGED apps
          ELSE \E a \in found : apps' = [apps EXCEPT ![a] = None]
    /\ push' = <<>>
    /\ UNCHANGED <<heap, conf, snap, shared, at, runner, adding, pushes, adds, embed>>

-----------------------------------------------------------------------------
(* AddApp of embedded.go: the configuration is changed, and the app is     *)
(* started at once when no app of the port is found.                       *)
EmbedConfigures ==
    /\ embed = None /\ adds < MaxAdds /\ adds' = adds + 1
    /\ \E port \in Ports, node \in Nodes :
          LET c == [port |-> port, node |-> node, enabled |-> TRUE]
          IN Add(c, TRUE) /\ embed' = c
    /\ UNCHANGED <<apps, at, runner, adding, push, pushes>>

EmbedStarts ==
    /\ embed # None /\ embed' = None
    /\ IF FindApp(embed) # {} THEN UNCHANGED apps
       ELSE \E a \in FreshApp : apps' = [apps EXCEPT ![a] = embed]
    /\ UNCHANGED <<heap, conf, snap, shared, at, runner, adding, push, pushes, adds>>

-----------------------------------------------------------------------------
RunnerStep == RunAllBegins \/ Walk \/ Copy \/ AddAppChecks \/ AddAppStores
PushStep == EditAdds \/ DeleteApp

Next ==
    \/ RunnerStep \/ PushStep
    \/ \E port \in Ports : \/ EditDeletes(port)
                           \/ \E on \in BOOLEAN : SwitchApp(port, on)
    \/ EmbedConfigures \/ EmbedStarts

(* autorunApp calls runAll again and again; a handler that began, ends.    *)
Spec == Init /\ [][Next]_vars
             /\ WF_vars(RunnerStep) /\ WF_vars(PushStep) /\ WF_vars(EmbedStarts)

-----------------------------------------------------------------------------
(* No two running apps listen on one port, whichever pushes arrive while   *)
(* runAll walks: AddApp checks whether the app already exists.  The app    *)
(* that the runtime starts itself is left out: both goroutines may have    *)
(* checked before either adds.                                             *)
OneAppPerPort == adds = 0 => \A a, b \in Running : apps[a].port = apps[b].port => a = b

(* Whatever is pushed and however the slice moves under runAll's feet,     *)
(* every configured app that is switched on runs in the end.               *)
EnabledAppsRun ==
    <>[](\A i \in DOMAIN conf :
            heap[conf[i]].enabled => FindApp(heap[conf[i]]) # {})
=============================================================================
