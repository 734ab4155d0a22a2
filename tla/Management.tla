----------------------------- MODULE Management -----------------------------
(***************************************************************************)
(* The management page's address and access list: the settings file        *)
(* (management/settings.go), the two commands that change it and the loop  *)
(* that serves the page (cmd/opl-core/main.go).  A command that selects an *)
(* address lets the loop bind to it 300 ms later; meanwhile other commands *)
(* run, with the old address as the current one.  A command that fails     *)
(* after its save returns an error and leaves what it has changed.         *)
(***************************************************************************)
EXTENDS Naturals, FiniteSets, Sequences

CONSTANTS
    Addresses,  \* addresses of this device's interfaces, Loopback included
    Loopback,
    Callers,    \* requests that may run at a time
    MaxCalls, MaxRestarts

VARIABLES
    file,            \* the settings file
    allowed,         \* the client addresses that are let in
    currentAddress,  \* the address the commands take as the current one
    main,            \* where the loop is: the address it listens on next, or serving
    address,         \* the loop's own variable
    waiting,         \* addresses of goroutines that have not sent to rebind yet
    rebind,          \* the channel, of capacity 1
    call,            \* the command of a caller
    calls, restarts,
    alone,   \* history: the last command began at rest, and none began since
    doubt    \* history: what a command that came between or failed may have left wrong

history == <<alone, doubt>>
vars == <<file, allowed, currentAddress, main, address, waiting, rebind, call, calls, restarts, history>>

(* Mutant: the current address is not added. *)
normalizeAllowedGiven(values, current) == values \cup {Loopback}

normalizeAllowed(values, current) == values \cup {Loopback, current}

(* An empty list stands for all interfaces.                                *)
AllowedIPs(current) ==
    normalizeAllowed(IF file.allowed = {} THEN Addresses ELSE file.allowed, current)

Idle == [step |-> "idle", address |-> Loopback, values |-> {}]

Init ==
    /\ file = [address |-> Loopback, allowed |-> {}]
    /\ allowed = Addresses /\ currentAddress = Loopback
    /\ main = "listen" /\ address = Loopback
    /\ waiting = [a \in Addresses |-> 0] /\ rebind = << >>
    /\ call = [c \in Callers |-> Idle] /\ calls = 0 /\ restarts = 0
    /\ alone = TRUE /\ doubt = {}

Quiet == main = "serve" /\ rebind = << >> /\ \A a \in Addresses : waiting[a] = 0
AtRest == Quiet /\ \A c \in Callers : call[c].step = "idle"

-----------------------------------------------------------------------------
Begin(c, step, a, values) ==
    /\ call[c].step = "idle" /\ calls < MaxCalls /\ calls' = calls + 1
    /\ alone' = AtRest /\ doubt' = (IF AtRest THEN doubt ELSE {"list", "address"})
    /\ call' = [call EXCEPT ![c] = [step |-> step, address |-> a, values |-> values]]

(* SetManagement saves the address of an interface that is there.          *)
SetManagement(c) ==
    /\ main = "serve"
    /\ \E a \in Addresses : Begin(c, "access", a, {}) /\ file' = [file EXCEPT !.address = a]
    /\ UNCHANGED <<allowed, currentAddress, main, address, waiting, rebind, restarts>>

(* It then reads the access list for that address, or fails to,            *)
ReadAccess(c) ==
    /\ call[c].step = "access"
    /\ \/ /\ call' = [call EXCEPT ![c].step = "publish", ![c].values = AllowedIPs(call[c].address)]
          /\ UNCHANGED doubt
       \/ call' = [call EXCEPT ![c] = Idle] /\ doubt' = doubt \cup {"address"}
    /\ UNCHANGED <<file, allowed, currentAddress, main, address, waiting, rebind, calls, restarts, alone>>

(* and publishes it, and sends the address in 300 ms unless managementInfo *)
(* fails.                                                                  *)
Publish(c) ==
    /\ call[c].step = "publish" /\ allowed' = call[c].values
    /\ \/ /\ waiting' = [waiting EXCEPT ![call[c].address] = @ + 1]
          /\ doubt' = IF alone THEN {} ELSE doubt
       \/ UNCHANGED waiting /\ doubt' = {"list", "address"}
    /\ call' = [call EXCEPT ![c] = Idle]
    /\ UNCHANGED <<file, currentAddress, main, address, rebind, calls, restarts, alone>>

(* SetAllowedIPs takes the current address and saves the list,             *)
SetAllowedIPs(c) ==
    /\ main = "serve"
    /\ \E values \in SUBSET Addresses :
          LET next == normalizeAllowed(values, currentAddress)
          IN  Begin(c, "allow", Loopback, next) /\ file' = [file EXCEPT !.allowed = next]
    /\ UNCHANGED <<allowed, currentAddress, main, address, waiting, rebind, restarts>>

(* and publishes it.                                                       *)
PublishAllowed(c) ==
    /\ call[c].step = "allow" /\ allowed' = call[c].values
    /\ doubt' = IF alone THEN doubt \ {"list"} ELSE doubt
    /\ call' = [call EXCEPT ![c] = Idle]
    /\ UNCHANGED <<file, currentAddress, main, address, waiting, rebind, calls, restarts, alone>>

-----------------------------------------------------------------------------
Send(a) ==
    /\ waiting[a] > 0 /\ Len(rebind) < 1 /\ rebind' = Append(rebind, a)
    /\ waiting' = [waiting EXCEPT ![a] = @ - 1]
    /\ UNCHANGED <<file, allowed, currentAddress, main, address, call, calls, restarts, history>>

Listen ==
    /\ main = "listen" /\ main' = "serve" /\ currentAddress' = address
    /\ UNCHANGED <<file, allowed, address, waiting, rebind, call, calls, restarts, history>>

(* The interface is gone: back to the loopback address, which is saved if  *)
(* it can be.                                                              *)
ListenFails ==
    /\ main = "listen" /\ address # Loopback /\ address' = Loopback
    /\ file' = [file EXCEPT !.address = Loopback] \/ UNCHANGED file
    /\ UNCHANGED <<allowed, currentAddress, main, waiting, rebind, call, calls, restarts, history>>

Rebind ==
    /\ main = "serve" /\ rebind # << >>
    /\ address' = Head(rebind) /\ rebind' = Tail(rebind) /\ main' = "listen"
    /\ UNCHANGED <<file, allowed, currentAddress, waiting, call, calls, restarts, history>>

(* The process ends, at any step of a command, and starts again: with the  *)
(* saved address, or with Loopback when its interface is not there.        *)
Restart ==
    /\ restarts < MaxRestarts /\ restarts' = restarts + 1
    /\ \E a \in {file.address, Loopback} :
          address' = a /\ currentAddress' = a /\ allowed' = AllowedIPs(a)
    /\ main' = "listen" /\ waiting' = [a \in Addresses |-> 0] /\ rebind' = << >>
    /\ call' = [c \in Callers |-> Idle] /\ alone' = TRUE /\ doubt' = {} /\ UNCHANGED <<file, calls>>

Server == Listen \/ Rebind \/ \E a \in Addresses : Send(a)
Command(c) == ReadAccess(c) \/ Publish(c) \/ PublishAllowed(c)

Next ==
    \/ \E c \in Callers : SetManagement(c) \/ SetAllowedIPs(c) \/ Command(c)
    \/ Server \/ ListenFails \/ Restart

Spec == Init /\ [][Next]_vars

-----------------------------------------------------------------------------
(* When nothing is under way, a browser on this device is let in at the    *)
(* address the page is served at, which is the saved one or the loopback   *)
(* address it fell back to; unless, since the last command that set it     *)
(* right, a command began before its predecessor was done, or one failed   *)
(* half way.                                                               *)
NoLockout ==
    AtRest => /\ "list" \notin doubt => currentAddress \in allowed
              /\ "address" \notin doubt => currentAddress \in {file.address, Loopback}
=============================================================================
