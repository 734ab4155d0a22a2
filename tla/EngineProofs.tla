---------------------------- MODULE EngineProofs ----------------------------
(***************************************************************************)
(* The safety invariants of MCEngine, for every number of callers,         *)
(* websockets, connections, tunnels, commands and faults: one network, one *)
(* reader of the gateway's websocket, one owner of a connection, and the   *)
(* tunnels of config.json.  The parts of MCEngine share no state, so the   *)
(* inductive invariant has one conjunct per part, and a step of one part   *)
(* leaves the others alone.                                                *)
(***************************************************************************)
EXTENDS MCEngine, Sequences, TLAPS

-----------------------------------------------------------------------------
(* Engine.  Nothing is live but the network that GNetwork names, and       *)
(* nothing at all while a Stop holds networkMu.  What is logged in or      *)
(* dialing and is not live was shut down while it was in init().           *)
NetworkInv(callers) ==
    /\ caller = [c \in callers |-> caller[c]]
    /\ live \subseteq {GNetwork}
    /\ (\E c \in callers : caller[c] = "shutting") => live = {}
    /\ (loggedIn \cup dialing) \ live \subseteq leftover

(* It holds when the process begins,                                       *)
LEMMA NetworkInit ==
    /\ Many!Init => NetworkInv(Callers)
    /\ One!Init => NetworkInv({Caller})
BY DEF One!Init, Many!Init, NetworkInv

(* A step that leaves the networks alone and begins no shutdown.           *)
LEMMA NetworkKept ==
    ASSUME NEW callers, NetworkInv(callers), NEW at,
           UNCHANGED <<GNetwork, live, loggedIn, dialing, leftover>>,
           caller' = caller \/ \E c \in callers : at # "shutting" /\ caller' = [caller EXCEPT ![c] = at]
    PROVE  NetworkInv(callers)'
<1>1. caller' = [c \in callers |-> caller'[c]]
  BY DEF NetworkInv
<1>2. \A c \in callers : caller'[c] = "shutting" => caller[c] = "shutting"
  BY DEF NetworkInv
<1> QED
  BY <1>1, <1>2 DEF NetworkInv

(* A step of run(), or of a gateway, under no lock: whoever logs in was    *)
(* dialing, and whoever dials is live.                                     *)
LEMMA NetworkDials ==
    ASSUME NEW callers, NetworkInv(callers), NEW n,
           UNCHANGED <<GNetwork, live, leftover, caller>>,
           \/ n \in live /\ dialing' = dialing \cup {n} /\ loggedIn' = loggedIn
           \/ n \in dialing /\ dialing' = dialing \ {n} /\ loggedIn' \in {loggedIn, loggedIn \cup {n}}
           \/ dialing' = dialing /\ loggedIn' = loggedIn \ {n}
    PROVE  NetworkInv(callers)'
BY DEF NetworkInv

(* Stop marks the network, under networkMu, and forgets it.                *)
LEMMA NetworkStops ==
    ASSUME NEW callers, NetworkInv(callers), NEW c \in callers,
           \/ /\ live' = live \ {GNetwork} /\ loggedIn' = loggedIn \ {GNetwork}
              /\ leftover' = leftover \cup ({GNetwork} \cap dialing) /\ GNetwork' = GNetwork
              /\ caller' = [caller EXCEPT ![c] = "shutting"]
           \/ /\ caller[c] = "shutting" /\ UNCHANGED <<live, loggedIn, leftover>>
              /\ caller' = [caller EXCEPT ![c] = "report"],
           dialing' = dialing
    PROVE  NetworkInv(callers)'
<1>1. caller' = [d \in callers |-> caller'[d]]
  BY DEF NetworkInv
<1>2. live' = {}
  BY DEF NetworkInv
<1>3. (loggedIn' \cup dialing') \ live' \subseteq leftover'
  BY DEF NetworkInv
<1> QED
  BY <1>1, <1>2, <1>3 DEF NetworkInv

(* P2PNetworkInstance, while no Stop holds networkMu.                      *)
LEMMA NetworkCreated ==
    ASSUME NEW callers, NetworkInv(callers), NEW i,
           ~ \E c \in callers : caller[c] = "shutting",
           \/ UNCHANGED <<GNetwork, live, loggedIn>>
           \/ /\ GNetwork \notin live /\ GNetwork' = i
              /\ live' = live \cup {i} /\ loggedIn' \in {loggedIn, loggedIn \cup {i}},
           UNCHANGED <<dialing, leftover, caller>>
    PROVE  NetworkInv(callers)'
BY DEF NetworkInv

(* Every step of a caller, of a run and of a network keeps it, with any    *)
(* number of callers,                                                      *)
LEMMA NetworkNextMany ==
    ASSUME NetworkInv(Callers), Many!Next
    PROVE  NetworkInv(Callers)'
<1>1. ASSUME NEW c \in Callers, Many!Start(c) PROVE NetworkInv(Callers)'
  BY <1>1, NetworkKept DEF Many!Start, Many!network
<1>2. ASSUME NEW c \in Callers, Many!StopBegins(c) PROVE NetworkInv(Callers)'
  BY <1>2, NetworkKept DEF Many!StopBegins, Many!network
<1>3. ASSUME NEW c \in Callers, Many!StopReports(c) PROVE NetworkInv(Callers)'
  BY <1>3, NetworkKept DEF Many!StopReports, Many!network
<1>4. ASSUME NEW c \in Callers, Many!StopNetwork(c) \/ Many!StopNetworkEnds(c)
      PROVE  NetworkInv(Callers)'
  BY <1>4, NetworkStops DEF Many!StopNetwork, Many!StopNetworkEnds
<1>5. ASSUME NEW i \in Many!IDs, Many!Create(i) PROVE NetworkInv(Callers)'
  BY <1>5, NetworkCreated DEF Many!Create, Many!Locked
<1>6. ASSUME NEW i \in Many!IDs, Many!Observe(i) \/ Many!StateForChecks(i) \/ Many!StateForReports(i)
      PROVE  NetworkInv(Callers)'
  BY <1>6, NetworkKept DEF Many!Observe, Many!StateForChecks, Many!StateForReports, Many!network
<1>7. ASSUME NEW n, Many!Redial(n) \/ Many!RedialFails(n) \/ Many!LogsIn(n) \/ Many!LeftoverEnds(n)
      PROVE  NetworkInv(Callers)'
  BY <1>7, NetworkDials DEF Many!Redial, Many!RedialFails, Many!LogsIn, Many!LeftoverEnds
<1> QED
  BY <1>1, <1>2, <1>3, <1>4, <1>5, <1>6, <1>7 DEF Many!Next, Many!CallerStep, Many!RunStep, Many!Dials

(* and with one.                                                           *)
LEMMA NetworkNextOne ==
    ASSUME NetworkInv({Caller}), One!Next
    PROVE  NetworkInv({Caller})'
<1>1. ASSUME NEW c \in {Caller}, One!Start(c) PROVE NetworkInv({Caller})'
  BY <1>1, NetworkKept DEF One!Start, One!network
<1>2. ASSUME NEW c \in {Caller}, One!StopBegins(c) PROVE NetworkInv({Caller})'
  BY <1>2, NetworkKept DEF One!StopBegins, One!network
<1>3. ASSUME NEW c \in {Caller}, One!StopReports(c) PROVE NetworkInv({Caller})'
  BY <1>3, NetworkKept DEF One!StopReports, One!network
<1>4. ASSUME NEW c \in {Caller}, One!StopNetwork(c) \/ One!StopNetworkEnds(c)
      PROVE  NetworkInv({Caller})'
  BY <1>4, NetworkStops DEF One!StopNetwork, One!StopNetworkEnds
<1>5. ASSUME NEW i \in One!IDs, One!Create(i) PROVE NetworkInv({Caller})'
  BY <1>5, NetworkCreated DEF One!Create, One!Locked
<1>6. ASSUME NEW i \in One!IDs, One!Observe(i) \/ One!StateForChecks(i) \/ One!StateForReports(i)
      PROVE  NetworkInv({Caller})'
  BY <1>6, NetworkKept DEF One!Observe, One!StateForChecks, One!StateForReports, One!network
<1>7. ASSUME NEW n, One!Redial(n) \/ One!RedialFails(n) \/ One!LogsIn(n) \/ One!LeftoverEnds(n)
      PROVE  NetworkInv({Caller})'
  BY <1>7, NetworkDials DEF One!Redial, One!RedialFails, One!LogsIn, One!LeftoverEnds
<1> QED
  BY <1>1, <1>2, <1>3, <1>4, <1>5, <1>6, <1>7 DEF One!Next, One!CallerStep, One!RunStep, One!Dials

-----------------------------------------------------------------------------
(* Gateway, whoever closes the websocket.  As long as no read loop has     *)
(* escaped wgReconnect, run() does not get past its wait while there is a  *)
(* read loop, and there is one at most.                                    *)
Readers == [Sockets -> {"none", "spawned", "reading"}]

Restarting == {"delay", "check", "init"}

ReaderInv ==
    /\ reader \in Readers
    /\ ~uncounted => /\ \A c, d \in Sockets : reader[c] # "none" /\ reader[d] # "none" => c = d
                     /\ run \in Restarting => \A c \in Sockets : reader[c] = "none"

(* The first init() is about to run and there is no read loop. *)
LEMMA ReaderInit == Init => ReaderInv
BY DEF Init, Gateway!Init, ReaderInv, Readers

(* A step that starts no read loop and does not bring run() past its wait. *)
LEMMA ReaderKept ==
    ASSUME ReaderInv, reader' \in Readers, uncounted' = uncounted,
           \A c \in Sockets : reader'[c] # "none" => reader[c] # "none",
           run' \in Restarting => run \in Restarting
    PROVE  ReaderInv'
BY DEF ReaderInv

(* run() one by one, and the goroutines of a websocket.                    *)
LEMMA ReaderNext ==
    ASSUME ReaderInv, Gateway!Next
    PROVE  ReaderInv'
<1>0. reader \in Readers
  BY DEF ReaderInv
<1>1. CASE Gateway!RunWaitDone
  <2>1. /\ reader' = reader /\ \A c \in Sockets : reader[c] # "reading"
        /\ uncounted' = (uncounted \/ \E c \in Sockets : reader[c] = "spawned")
    BY <1>1 DEF Gateway!RunWaitDone, Gateway!WgZero, Gateway!Pending
  <2>2. ~uncounted' => \A c \in Sockets : reader'[c] = "none"
    BY <1>0, <2>1 DEF Readers
  <2> QED
    BY <1>0, <2>1, <2>2 DEF ReaderInv
<1>2. CASE \/ Gateway!RunTakeRestart \/ Gateway!RunWaitTimeout \/ Gateway!RunDelayOver
           \/ Gateway!RunCheck \/ Gateway!RunExit \/ Gateway!InitFails
  <2>1. reader' = reader /\ uncounted' = uncounted /\ (run' \in Restarting => run \in Restarting)
    BY <1>2 DEF Gateway!RunTakeRestart, Gateway!RunWaitTimeout, Gateway!RunDelayOver,
         Gateway!RunCheck, Gateway!RunExit, Gateway!InitFails, Gateway!history, Restarting
  <2> QED
    BY <1>0, <2>1, ReaderKept
<1>3. CASE Gateway!InitSucceeds
  <2>1. PICK c \in Sockets : reader' = [reader EXCEPT ![c] = "spawned"]
    BY <1>3 DEF Gateway!InitSucceeds
  <2>2. run \in Restarting /\ run' \notin Restarting /\ uncounted' = uncounted
    BY <1>3 DEF Gateway!InitSucceeds, Restarting
  <2>3. reader' \in Readers
    BY <1>0, <2>1 DEF Readers
  <2>4. ~uncounted => \A d \in Sockets : reader'[d] # "none" => d = c
    BY <1>0, <2>1, <2>2 DEF ReaderInv, Readers
  <2> QED
    BY <2>2, <2>3, <2>4 DEF ReaderInv
<1>4. ASSUME NEW c \in Sockets,
             \/ Gateway!ReaderStarts(c) \/ Gateway!ReadFails(c) \/ Gateway!ReaderEnds(c)
             \/ Gateway!LoginRefused(c) \/ Gateway!PushRestart(c)
      PROVE  ReaderInv'
  <2>1. /\ reader[c] # "none" /\ uncounted' = uncounted /\ run' = run
        /\ \E s \in {"none", "reading"} : reader' = [reader EXCEPT ![c] = s]
    BY <1>4 DEF Gateway!ReaderStarts, Gateway!ReadFails, Gateway!ReaderEnds, Gateway!LoginRefused,
         Gateway!PushRestart, Gateway!history
  <2>2. reader' \in Readers /\ \A d \in Sockets : reader'[d] # "none" => reader[d] # "none"
    BY <1>0, <2>1 DEF Readers
  <2> QED
    BY <2>1, <2>2, ReaderKept
<1>5. CASE \/ Gateway!WriteFails \/ Gateway!LinkBreaks \/ Gateway!KeepAlive
           \/ Gateway!ShutdownBegins \/ Gateway!ShutdownReturns
           \/ \E c \in Sockets : Gateway!AutorunStep(c) \/ Gateway!ReportEnds(c)
  <2>1. reader' = reader /\ uncounted' = uncounted /\ run' = run
    BY <1>5 DEF Gateway!WriteFails, Gateway!LinkBreaks, Gateway!KeepAlive, Gateway!ShutdownBegins,
         Gateway!ShutdownReturns, Gateway!AutorunStep, Gateway!AutorunStarts, Gateway!AutorunEnds,
         Gateway!ReportEnds, Gateway!history
  <2> QED
    BY <1>0, <2>1, ReaderKept
<1> QED
  BY <1>1, <1>2, <1>3, <1>4, <1>5 DEF Gateway!Next, Gateway!RunStep, Gateway!ReaderStep

-----------------------------------------------------------------------------
(* V4Listener.  A connection that waits in conns, or that a tunnel got, is *)
(* stored and is for that tunnel, and it is not in both places.            *)
Phases == {"away", "handshake", "lost", "stored", "used"}

Owned(where, t) == where[t] # None => arrived[where[t]] = "stored" /\ hello[where[t]] = t

OwnerInv ==
    /\ arrived \in [Conns -> Phases] /\ hello \in [Conns -> Tunnels]
    /\ conns \in [Tunnels -> Conns \cup {None}] /\ got \in [Tunnels -> Conns \cup {None}]
    /\ \A t \in Tunnels : Owned(conns, t) /\ Owned(got, t)
    /\ \A t \in Tunnels : got[t] # None => conns[t] # got[t]

(* Nothing has arrived. *)
LEMMA OwnerInit == Init => OwnerInv
<1> SUFFICES ASSUME Listen!Init PROVE OwnerInv
  BY DEF Init
<1> QED
  BY DEF Listen!Init, OwnerInv, Owned, Phases

(* HandleConnection stores a connection nobody has, Take moves it to one   *)
(* owner, and only that owner can use it up.                               *)
LEMMA OwnerNext ==
    ASSUME OwnerInv, Listen!Next
    PROVE  OwnerInv'
<1> USE ConnAssumption
<1>1. CASE UNCHANGED <<hello, conns, got>> /\ \E c \in Conns : \E s \in {"handshake", "lost"} :
              arrived[c] \in {"away", "handshake"} /\ arrived' = [arrived EXCEPT ![c] = s]
  BY <1>1 DEF OwnerInv, Owned, Phases
<1>2. CASE UNCHANGED <<arrived, hello, conns, got>>
  BY <1>2 DEF OwnerInv, Owned
<1>3. ASSUME NEW p \in Listen!Protocols, Listen!Worker(p) PROVE OwnerInv'
  BY <1>2, <1>3 DEF Listen!Worker, Listen!Check, Listen!ListenOn, Listen!ListenEnds
<1>4. CASE Listen!ContextExpires \/ Listen!StopBegins \/ Listen!Stop
  BY <1>2, <1>4 DEF Listen!ContextExpires, Listen!StopBegins, Listen!Stop, Listen!StopReturns, Listen!StopCloses
<1>5. ASSUME NEW p \in Listen!Protocols, NEW c \in Conns, Listen!Accept(p, c) PROVE OwnerInv'
  BY <1>1, <1>5 DEF Listen!Accept
<1>6. ASSUME NEW c \in Conns, Listen!HandleConnection(c) PROVE OwnerInv'
  <2>1. CASE arrived' = [arrived EXCEPT ![c] = "lost"] /\ UNCHANGED conns
    BY <1>1, <1>6, <2>1 DEF Listen!HandleConnection
  <2>2. CASE /\ arrived' = [arrived EXCEPT ![c] = "stored"]
             /\ \E old \in SUBSET {t \in Tunnels : conns[t] # None} :
                  conns' = [[t \in Tunnels |-> IF t \in old THEN None ELSE conns[t]] EXCEPT ![hello[c]] = c]
    <3>1. arrived[c] = "handshake" /\ hello' = hello /\ got' = got /\ hello[c] \in Tunnels
      BY <1>6 DEF Listen!HandleConnection, OwnerInv
    <3>2. PICK old \in SUBSET Tunnels :
             conns' = [[t \in Tunnels |-> IF t \in old THEN None ELSE conns[t]] EXCEPT ![hello[c]] = c]
      BY <2>2
    <3>3. conns' \in [Tunnels -> Conns \cup {None}]
      BY <3>2 DEF OwnerInv
    <3>4. \A t \in Tunnels : conns'[t] \in {None, conns[t]} \/ (conns'[t] = c /\ t = hello[c])
      BY <3>1, <3>2 DEF OwnerInv
    <3> QED
      BY <2>2, <3>1, <3>3, <3>4 DEF OwnerInv, Owned, Phases
  <2> QED
    BY <1>6, <2>1, <2>2 DEF Listen!HandleConnection
<1>7. ASSUME NEW t \in Tunnels, Listen!GetUnderlay(t) PROVE OwnerInv'
  BY <1>7 DEF Listen!GetUnderlay, Listen!Take, OwnerInv, Owned, Phases
<1>8. ASSUME NEW t \in Tunnels, Listen!WaitAgain(t) PROVE OwnerInv'
  BY <1>8 DEF Listen!WaitAgain, OwnerInv, Owned, Phases
<1> QED
  BY <1>3, <1>4, <1>5, <1>6, <1>7, <1>8 DEF Listen!Next

-----------------------------------------------------------------------------
(* ConfigFile.  What a command has still to do is the rest of one of six   *)
(* plans.                                                                  *)
SetUser(apps) == [do |-> "set", part |-> "user", apps |-> apps]
SetInternal(apps) == [do |-> "set", part |-> "internal", apps |-> apps]
DoStep(step) == [do |-> step]

(* ReplaceTunnels and ReplaceConfig before they have saved; the latter     *)
(* restarts nothing when nothing is active.                                *)
TunnelPlans == {<<SetUser(apps), DoStep("stop"), DoStep("startIf")>> : apps \in SUBSET Users}
ReplacePlans == {<<SetUser(apps), DoStep("stop"), DoStep("start")>> : apps \in SUBSET Users}
UserPlans == TunnelPlans \cup ReplacePlans
IdlePlans == {<<SetUser(apps)>> : apps \in SUBSET Users}

(* The restart that follows, and StartOpenP2P.                             *)
StopStartIf == <<DoStep("stop"), DoStep("startIf")>>
StopStart == <<DoStep("stop"), DoStep("start")>>
StopFirst == {StopStartIf, StopStart}
StartNext == {<<DoStep("startIf")>>, <<DoStep("start")>>}

(* Join, up to the answer of the host and after it.                        *)
AfterPair == <<SetInternal({Pair, WG}), DoStep("add")>>
ToPair == <<DoStep("pair"), SetInternal({Pair, WG}), DoStep("add")>>
ToStart == <<DoStep("start"), DoStep("pair"), SetInternal({Pair, WG}), DoStep("add")>>
ToStop == <<DoStep("stop"), DoStep("start"), DoStep("pair"), SetInternal({Pair, WG}), DoStep("add")>>
JoinPlan == <<SetInternal({Pair}), DoStep("stop"), DoStep("start"), DoStep("pair"),
              SetInternal({Pair, WG}), DoStep("add")>>

(* Leave, and StopOpenP2P.                                                 *)
LeavePlan == <<SetInternal({}), DoStep("stop")>>
LeavePlans == {LeavePlan, <<DoStep("stop")>>}
StopPlan == <<DoStep("stop"), DoStep("idle")>>

(* The plans of commands that no host answers, and all plans.              *)
Unpaired == {<< >>} \cup UserPlans \cup IdlePlans \cup StopFirst \cup StartNext
            \cup {ToPair, ToStart, ToStop, JoinPlan} \cup LeavePlans \cup {StopPlan, <<DoStep("idle")>>}
Plans == Unpaired \cup {AfterPair, <<DoStep("add")>>}

Sets(q) == q # << >> /\ Head(q).do = "set"

(* A plan is written as one step and the rest. *)
LEMMA StepThenTwo ==
    ASSUME NEW a, NEW b, NEW c
    PROVE  <<a>> \o <<b, c>> = <<a, b, c>>
<1> DEFINE s == <<a>> \o <<b, c>>
<1>1. <<a>> \in Seq({a, b, c}) /\ <<b, c>> \in Seq({a, b, c})
  OBVIOUS
<1>2. s \in Seq({a, b, c}) /\ Len(s) = 3 /\ s[1] = a /\ s[2] = b /\ s[3] = c
  BY <1>1
<1> HIDE DEF s
<1>3. s = <<a, b, c>>
  BY <1>2
<1> QED
  BY <1>3 DEF s

(* The first step of every plan. *)
LEMMA FirstStep ==
    /\ \A q \in UserPlans \cup IdlePlans \cup {JoinPlan, LeavePlan, AfterPair} : q # << >> /\ Head(q).do = "set"
    /\ \A q \in StopFirst \cup {ToStop, StopPlan, <<DoStep("stop")>>} : q # << >> /\ Head(q).do = "stop"
    /\ \A q \in StartNext \cup {ToStart} : q # << >> /\ Head(q).do \in {"start", "startIf"}
    /\ ToPair # << >> /\ Head(ToPair).do = "pair"
    /\ \A step : <<DoStep(step)>> # << >> /\ Head(<<DoStep(step)>>).do = step
<1>1. \A q \in UserPlans \cup IdlePlans : q # << >> /\ Head(q).do = "set"
  BY DEF UserPlans, TunnelPlans, ReplacePlans, IdlePlans, SetUser
<1> QED
  BY <1>1 DEF StopFirst, StopStartIf, StopStart, StartNext, AfterPair, ToPair, ToStart,
       ToStop, JoinPlan, LeavePlan, StopPlan, SetUser, SetInternal, DoStep

(* The plans that begin with a given step. *)
LEMMA PlanTail ==
    ASSUME NEW q \in Plans, q # << >>
    PROVE  /\ Head(q).do = "set" => q \in UserPlans \cup IdlePlans \cup {JoinPlan, LeavePlan, AfterPair}
           /\ Head(q).do = "stop" => q \in StopFirst \cup {ToStop, StopPlan, <<DoStep("stop")>>}
           /\ Head(q).do \in {"start", "startIf"} => q \in StartNext \cup {ToStart}
           /\ Head(q).do = "pair" => q = ToPair
           /\ Head(q).do = "add" => q = <<DoStep("add")>>
           /\ Head(q).do = "idle" => q = <<DoStep("idle")>>
BY FirstStep DEF Plans, Unpaired, LeavePlans

(* What is left of a plan when its first step is done. *)
LEMMA TailOf ==
    /\ \A q \in TunnelPlans : Tail(q) = StopStartIf
    /\ \A q \in ReplacePlans : Tail(q) = StopStart
    /\ \A q \in IdlePlans : Tail(q) = << >>
    /\ Tail(StopStartIf) = <<DoStep("startIf")>> /\ Tail(StopStart) = <<DoStep("start")>>
    /\ \A q \in StartNext : Tail(q) = << >>
    /\ Tail(JoinPlan) = ToStop /\ Tail(ToStop) = ToStart /\ Tail(ToStart) = ToPair
    /\ Tail(ToPair) = AfterPair /\ Tail(AfterPair) = <<DoStep("add")>>
    /\ Tail(LeavePlan) = <<DoStep("stop")>> /\ Tail(StopPlan) = <<DoStep("idle")>>
    /\ \A step : Tail(<<DoStep(step)>>) = << >>
<1>0. ASSUME NEW q \in TunnelPlans PROVE Tail(q) = StopStartIf
  <2>1. PICK apps : q = <<SetUser(apps), DoStep("stop"), DoStep("startIf")>>
    BY <1>0 DEF TunnelPlans
  <2> QED
    BY <2>1 DEF StopStartIf
<1>1. ASSUME NEW q \in ReplacePlans PROVE Tail(q) = StopStart
  <2>1. PICK apps : q = <<SetUser(apps), DoStep("stop"), DoStep("start")>>
    BY <1>1 DEF ReplacePlans
  <2> QED
    BY <2>1 DEF StopStart
<1>2. ASSUME NEW q \in IdlePlans PROVE Tail(q) = << >>
  <2>1. PICK apps : q = <<SetUser(apps)>>
    BY <1>2 DEF IdlePlans
  <2> QED
    BY <2>1
<1>3. /\ Tail(StopStartIf) = <<DoStep("startIf")>> /\ Tail(StopStart) = <<DoStep("start")>>
      /\ \A q \in StartNext : Tail(q) = << >>
  BY DEF StopStartIf, StopStart, StartNext
<1>4. /\ Tail(JoinPlan) = ToStop /\ Tail(ToStop) = ToStart /\ Tail(ToStart) = ToPair
      /\ Tail(ToPair) = AfterPair /\ Tail(AfterPair) = <<DoStep("add")>>
      /\ Tail(LeavePlan) = <<DoStep("stop")>> /\ Tail(StopPlan) = <<DoStep("idle")>>
  BY DEF AfterPair, ToPair, ToStart, ToStop, JoinPlan, LeavePlan, StopPlan
<1> QED
  BY <1>0, <1>1, <1>2, <1>3, <1>4

(* The tunnels that a plan saves first. *)
LEMMA HeadOf ==
    /\ \A q \in UserPlans \cup IdlePlans :
          q # << >> /\ \E apps \in SUBSET Users : Head(q) = SetUser(apps)
    /\ Head(JoinPlan) = SetInternal({Pair}) /\ Head(LeavePlan) = SetInternal({})
    /\ Head(AfterPair) = SetInternal({Pair, WG})
BY DEF UserPlans, TunnelPlans, ReplacePlans, IdlePlans, AfterPair, JoinPlan, LeavePlan

(* Only a join that was answered has AfterPair to do. *)
LEMMA AfterPairApart == AfterPair \notin Unpaired
<1>1. Len(AfterPair) = 2 /\ Head(AfterPair) = SetInternal({Pair, WG})
  BY DEF AfterPair
<1>2. SetInternal({Pair, WG}) # SetInternal({}) /\ \A apps : SetInternal({Pair, WG}) # SetUser(apps)
  <2>1. SetInternal({Pair, WG}).apps # SetInternal({}).apps
    BY DEF SetInternal
  <2>2. \A apps : SetInternal({Pair, WG}).part # SetUser(apps).part
    BY DEF SetInternal, SetUser
  <2> QED
    BY <2>1, <2>2
<1>3. Len(JoinPlan) = 6 /\ Head(LeavePlan) = SetInternal({})
  BY DEF JoinPlan, LeavePlan
<1>4. AfterPair \notin UserPlans \cup IdlePlans
  BY <1>1, <1>2, HeadOf, Zenon
<1>5. AfterPair # JoinPlan /\ AfterPair # LeavePlan
  BY <1>1, <1>2, <1>3
<1>6. AfterPair # << >> /\ Head(AfterPair).do = "set"
  BY FirstStep
<1>7. AfterPair \notin StopFirst \cup {ToStop, StopPlan, <<DoStep("stop")>>}
  BY <1>6, FirstStep
<1>8. AfterPair \notin StartNext \cup {ToStart, ToPair, <<DoStep("idle")>>}
  BY <1>6, FirstStep
<1> QED
  BY <1>4, <1>5, <1>6, <1>7, <1>8, Zenon DEF Unpaired, LeavePlans

-----------------------------------------------------------------------------
(* "store": commands overlap, the engine saves nothing and no host answers *)
(* a join.  The file changes only under the store's mutex, so what its     *)
(* holder has loaded is still what the file holds.                         *)
Counts == [commands : Nat, saves : Nat, pushes : Nat, crashes : Nat]

StoreInv ==
    /\ saving = NoSave /\ count \in Counts /\ call \in [Callers -> Unpaired]
    /\ \A m \in mu : m.caller \in Callers /\ m.apps = file /\ Sets(call[m.caller])
    /\ \A m, n \in mu : m = n
    /\ file \cap Users = asked

(* No command has begun. *)
LEMMA StoreInit == Store!Init => StoreInv
BY DEF Store!Init, StoreInv, Counts, Unpaired

(* A step of one command that neither touches the file nor holds the mutex. *)
LEMMA StoreKept ==
    ASSUME StoreInv, NEW c \in Callers, NEW q \in Unpaired, call' = [call EXCEPT ![c] = q],
           Sets(call[c]) => mu = {}, count' \in Counts, UNCHANGED <<file, saving, mu, asked>>
    PROVE  StoreInv'
<1>1. \A m \in mu : m.caller # c
  BY DEF StoreInv
<1>2. \A m \in mu : call'[m.caller] = call[m.caller]
  BY <1>1 DEF StoreInv
<1> QED
  BY <1>2 DEF StoreInv, Sets

(* The steps that begin a command, *)
LEMMA StoreBegins ==
    ASSUME StoreInv, NEW c \in Callers,
           \/ Store!ReplaceTunnels(c) \/ Store!ReplaceConfig(c) \/ Store!StartOpenP2P(c)
           \/ Store!StopOpenP2P(c) \/ Store!Join(c) \/ Store!Leave(c)
    PROVE  StoreInv'
<1>1. ASSUME NEW q, Store!Begin(c, q) PROVE ~Sets(call[c]) /\ count' \in Counts /\ call' = [call EXCEPT ![c] = q]
  BY <1>1 DEF Store!Begin, StoreInv, Counts, Sets
<1>2. UNCHANGED <<file, saving, mu, asked>>
  BY DEF Store!ReplaceTunnels, Store!ReplaceConfig, Store!StartOpenP2P, Store!StopOpenP2P,
       Store!Join, Store!Leave
<1>3. ASSUME NEW q \in Unpaired, Store!Begin(c, q) PROVE StoreInv'
  BY <1>1, <1>2, <1>3, StoreKept
<1>4. CASE Store!ReplaceTunnels(c)
  <2>1. PICK apps \in SUBSET Users : Store!Begin(c, <<SetUser(apps), DoStep("stop"), DoStep("startIf")>>)
    BY <1>4 DEF Store!ReplaceTunnels, Store!Set, Store!Do, SetUser, DoStep
  <2>2. <<SetUser(apps), DoStep("stop"), DoStep("startIf")>> \in Unpaired
    BY DEF Unpaired, UserPlans, TunnelPlans
  <2> QED
    BY <1>3, <2>1, <2>2
<1>5. CASE Store!ReplaceConfig(c)
  <2>1. PICK apps \in SUBSET Users :
           Store!Begin(c, <<SetUser(apps)>> \o IF session # "idle" THEN <<DoStep("stop"), DoStep("start")>> ELSE << >>)
    BY <1>5 DEF Store!ReplaceConfig, Store!Set, Store!Do, SetUser, DoStep
  <2>2. \/ Store!Begin(c, <<SetUser(apps), DoStep("stop"), DoStep("start")>>)
        \/ Store!Begin(c, <<SetUser(apps)>>)
    <3>1. /\ <<SetUser(apps)>> \o <<DoStep("stop"), DoStep("start")>> = <<SetUser(apps), DoStep("stop"), DoStep("start")>>
          /\ <<SetUser(apps)>> \o << >> = <<SetUser(apps)>>
      BY StepThenTwo
    <3>2. CASE session = "idle"
      BY <2>1, <3>1, <3>2
    <3>3. CASE session # "idle"
      BY <2>1, <3>1, <3>3
    <3> QED
      BY <3>2, <3>3
  <2>3. <<SetUser(apps), DoStep("stop"), DoStep("start")>> \in Unpaired /\ <<SetUser(apps)>> \in Unpaired
    BY DEF Unpaired, UserPlans, ReplacePlans, IdlePlans
  <2> QED
    BY <1>3, <2>2, <2>3
<1>6. CASE Store!StartOpenP2P(c)
  <2>1. Store!Begin(c, <<DoStep("start")>>) /\ <<DoStep("start")>> \in Unpaired
    BY <1>6 DEF Store!StartOpenP2P, Store!Do, DoStep, Unpaired, StartNext
  <2> QED
    BY <1>3, <2>1
<1>7. CASE Store!StopOpenP2P(c)
  <2>1. Store!Begin(c, StopPlan) /\ StopPlan \in Unpaired
    BY <1>7 DEF Store!StopOpenP2P, Store!Do, DoStep, Unpaired, StopPlan
  <2> QED
    BY <1>3, <2>1
<1>8. CASE Store!Join(c)
  <2>1. Store!Begin(c, JoinPlan) /\ JoinPlan \in Unpaired
    BY <1>8 DEF Store!Join, Store!Set, Store!Do, Store!Internal, SetInternal, DoStep, Unpaired, JoinPlan
  <2> QED
    BY <1>3, <2>1
<1>9. CASE Store!Leave(c)
  <2>1. Store!Begin(c, LeavePlan) /\ LeavePlan \in Unpaired
    BY <1>9 DEF Store!Leave, Store!LeaveSteps, Store!Set, Store!Do, SetInternal, DoStep, Unpaired, LeavePlan, LeavePlans
  <2> QED
    BY <1>3, <2>1
<1> QED
  BY <1>4, <1>5, <1>6, <1>7, <1>8, <1>9

(* the steps of a command outside the store, *)
LEMMA StoreGoesOn ==
    ASSUME StoreInv, NEW c \in Callers,
           \/ Store!StopSession(c) \/ Store!JoinFails(c) \/ Store!StopEngine(c)
           \/ Store!StartEngine(c) \/ Store!StoreRefuses(c)
    PROVE  StoreInv'
<1>0. call[c] \in Unpaired /\ call[c] \in Plans /\ count' = count /\ count \in Counts
      /\ UNCHANGED <<file, saving, mu, asked>>
  BY DEF StoreInv, Plans, Store!StopSession, Store!JoinFails, Store!StopEngine, Store!StartEngine, Store!StoreRefuses
<1>1. << >> \in Unpaired /\ LeavePlan \in Unpaired /\ <<DoStep("stop")>> \in Unpaired
      /\ <<DoStep("idle")>> \in Unpaired /\ StartNext \subseteq Unpaired /\ ToPair \in Unpaired /\ ToStart \in Unpaired
  BY DEF Unpaired, LeavePlans
<1>2. ASSUME NEW q \in Unpaired, call' = [call EXCEPT ![c] = q], Sets(call[c]) => mu = {}
      PROVE  StoreInv'
  BY <1>0, <1>2, StoreKept
<1>3. CASE Store!StopSession(c)
  <2>1. call[c] = <<DoStep("idle")>> /\ call' = [call EXCEPT ![c] = Tail(call[c])] /\ ~Sets(call[c])
    BY <1>0, <1>3, PlanTail DEF Store!StopSession, Store!At, Store!Done, Sets
  <2> QED
    BY <1>1, <1>2, <2>1, TailOf
<1>4. CASE Store!JoinFails(c)
  <2>1. ~Sets(call[c]) /\ \E q \in {LeavePlan, << >>} : call' = [call EXCEPT ![c] = q]
    BY <1>4 DEF Store!JoinFails, Store!At, Sets, Store!LeaveSteps, Store!Set, Store!Do, LeavePlan, SetInternal, DoStep
  <2> QED
    BY <1>1, <1>2, <2>1
<1>5. CASE Store!StopEngine(c)
  <2>1. call' = [call EXCEPT ![c] = Tail(call[c])] /\ ~Sets(call[c])
        /\ call[c] \in StopFirst \cup {ToStop, StopPlan, <<DoStep("stop")>>}
    BY <1>0, <1>5, PlanTail DEF Store!StopEngine, Store!At, Store!Done, Sets
  <2>2. Tail(call[c]) \in Unpaired
    BY <1>1, <2>1, TailOf DEF StopFirst, StartNext
  <2> QED
    BY <1>2, <2>1, <2>2
<1>6. CASE Store!StartEngine(c)
  <2>1. call' = [call EXCEPT ![c] = Tail(call[c])] /\ ~Sets(call[c]) /\ call[c] \in StartNext \cup {ToStart}
    BY <1>0, <1>6, PlanTail DEF Store!StartEngine, Store!At, Store!Done, Sets
  <2>2. Tail(call[c]) \in Unpaired
    BY <1>1, <2>1, TailOf
  <2> QED
    BY <1>2, <2>1, <2>2
<1>7. CASE Store!StoreRefuses(c)
  <2>1. mu = {} /\ \E q \in {LeavePlan, Tail(LeavePlan), << >>} : call' = [call EXCEPT ![c] = q]
    BY <1>7 DEF Store!StoreRefuses, Store!LeaveSteps, Store!Set, Store!Do, LeavePlan, SetInternal, DoStep
  <2> QED
    BY <1>1, <1>2, <2>1, TailOf
<1> QED
  BY <1>3, <1>4, <1>5, <1>6, <1>7

(* loading and saving,                                                     *)
LEMMA StoreChanges ==
    ASSUME StoreInv, NEW c \in Callers, Store!StoreLoads(c) \/ Store!StoreSaves(c)
    PROVE  StoreInv'
<1>1. CASE Store!StoreLoads(c)
  BY <1>1 DEF Store!StoreLoads, Store!At, StoreInv, Sets
<1>2. CASE Store!StoreSaves(c)
  <2>1. PICK m \in mu : /\ m.caller = c /\ mu' = mu \ {m}
                        /\ call' = [call EXCEPT ![c] = Tail(call[c])]
                        /\ file' = Store!Merged(m.apps, Head(call[c]))
                        /\ asked' = IF Head(call[c]).part = "user" THEN Head(call[c]).apps ELSE asked
                        /\ UNCHANGED <<saving, count>>
    BY <1>2 DEF Store!StoreSaves, Store!Done
  <2>2. m.apps = file /\ mu' = {} /\ Sets(call[c]) /\ call[c] \in Unpaired /\ call[c] \in Plans /\ call[c] # AfterPair
    BY <2>1, AfterPairApart DEF StoreInv, Plans
  <2>3. call[c] \in UserPlans \cup IdlePlans \cup {JoinPlan, LeavePlan}
    BY <2>2, PlanTail DEF Sets
  <2>4. Tail(call[c]) \in Unpaired
    BY <2>3, TailOf DEF Unpaired, LeavePlans, UserPlans, StopFirst
  <2>5. call' \in [Callers -> Unpaired]
    BY <2>1, <2>4 DEF StoreInv
  <2>6. \/ \E apps \in SUBSET Users : Head(call[c]) = SetUser(apps)
        \/ \E apps \in SUBSET {Pair, WG} : Head(call[c]) = SetInternal(apps)
    BY <2>3, HeadOf
  <2>7. file' \cap Users = asked'
    <3>1. ASSUME NEW apps \in SUBSET Users, Head(call[c]) = SetUser(apps) PROVE file' \cap Users = asked'
      <4>1. file' = apps \cup (file \ Users) /\ asked' = apps
        BY <2>1, <2>2, <3>1 DEF Store!Merged, SetUser
      <4> QED
        BY <4>1
    <3>2. ASSUME NEW apps \in SUBSET {Pair, WG}, Head(call[c]) = SetInternal(apps) PROVE file' \cap Users = asked'
      <4>1. file' = apps \cup (file \cap Users) /\ asked' = asked
        BY <2>1, <2>2, <3>2 DEF Store!Merged, SetInternal
      <4> QED
        BY <4>1, ConfigAssumption DEF StoreInv
    <3> QED
      BY <2>6, <3>1, <3>2
  <2> QED
    BY <2>1, <2>2, <2>5, <2>7 DEF StoreInv
<1> QED
  BY <1>1, <1>2

(* and all others.  The engine does not save, and AddApp, which a join     *)
(* reaches only after the host answered, never runs.                       *)
LEMMA StoreNext ==
    ASSUME StoreInv, Store!Next
    PROVE  StoreInv'
<1>1. ASSUME NEW c \in Callers PROVE ~Store!Configure(c) /\ ~Store!AddApp(c)
  <2>1. call[c] \in Unpaired
    BY DEF StoreInv
  <2>2. call[c] # << >> => Head(call[c]).do # "add"
    BY <2>1, FirstStep DEF Unpaired, LeavePlans
  <2> QED
    BY <2>2 DEF Store!Configure, Store!AddApp, Store!At
<1>2. ~Store!Login /\ ~Store!EditApp /\ ~Store!SaveEnds
  BY DEF Store!Login, Store!EditApp, Store!SaveEnds, StoreInv, Counts
<1>3. CASE Store!Restart
  <2>1. count' \in Counts
    BY <1>3 DEF Store!Restart, StoreInv, Counts
  <2> QED
    BY <1>3, <2>1 DEF Store!Restart, StoreInv, Unpaired
<1> QED
  BY <1>1, <1>2, <1>3, StoreBegins, StoreGoesOn, StoreChanges DEF Store!Next
-----------------------------------------------------------------------------
(* "config": one command at a time, the host answers, and the engine saves *)
(* and is edited meanwhile.  Whoever holds the store's mutex is the        *)
(* command.                                                                *)
Apps == SUBSET (Users \cup {Pair, WG})
Steps == call[Caller]

ConfigTypes ==
    /\ file \in Apps /\ gConf \in Apps /\ (saving = NoSave \/ saving \in Apps)
    /\ call \in [{Caller} -> Plans] /\ session \in {"idle", "ordinary", "client"}
    /\ \A m \in mu : m.caller = Caller /\ m.apps \in Apps /\ Sets(Steps)
    /\ \A m, n \in mu : m = n

(* An engine that no earlier save can overwrite saves what it runs, and    *)
(* runs what is in the file until a command has saved; that command is     *)
(* about to restart the engine or to add the app to it.                    *)
InStep ==
    on /\ ~late =>
        /\ saving # NoSave => saving = gConf
        /\ saving = NoSave /\ gConf # file => Steps # << >> /\ Head(Steps).do \in {"stop", "add"}

(* A client that has joined: both internal tunnels are in every            *)
(* configuration that can still become the file's.                         *)
Joined ==
    session = "client" =>
        /\ {Pair, WG} \subseteq file
        /\ on => {Pair, WG} \subseteq gConf
        /\ saving # NoSave => {Pair, WG} \subseteq saving
        /\ \A m \in mu : {Pair, WG} \subseteq m.apps

(* The session and the engine that each plan was made for.                 *)
Fits ==
    \/ Steps = << >> /\ (session = "idle" => ~on) /\ Joined
    \/ Steps \in TunnelPlans /\ (session = "idle" => ~on) /\ Joined
    \/ Steps \in ReplacePlans /\ session # "idle" /\ Joined
    \/ Steps \in IdlePlans /\ session = "idle" /\ ~on
    \/ Steps = StopStartIf /\ Joined
    \/ Steps = StopStart /\ session # "idle" /\ Joined
    \/ Steps = <<DoStep("startIf")>> /\ ~on /\ Joined
    \/ Steps = <<DoStep("start")>> /\ session # "idle" /\ ~on /\ Joined
    \/ Steps = StopPlan /\ session = "ordinary"
    \/ Steps = <<DoStep("idle")>> /\ session = "ordinary" /\ ~on
    \/ Steps \in LeavePlans /\ session = "idle"
    \/ Steps \in {JoinPlan, ToStop, ToPair} /\ session = "client"
    \/ Steps = ToStart /\ session = "client" /\ ~on
    \/ Steps \in {AfterPair, <<DoStep("add")>>} /\ session = "client" /\ on /\ Pair \in gConf

ConfigInv == ConfigTypes /\ InStep /\ Fits

(* What the command does next. *)
LEMMA StepsNow ==
    ASSUME ConfigTypes, NEW q \in Plans, call' = [call EXCEPT ![Caller] = q]
    PROVE  Steps' = q /\ call' \in [{Caller} -> Plans]
BY DEF ConfigTypes, Steps

(* No command is under way. *)
LEMMA NoCommand ==
    ASSUME ConfigInv, Steps = << >>
    PROVE  /\ mu = {} /\ Joined /\ (session = "idle" => ~on)
           /\ on /\ ~late /\ saving = NoSave => gConf = file
<1>1. mu = {}
  BY DEF ConfigInv, ConfigTypes, Sets
<1>2. Joined /\ (session = "idle" => ~on)
  BY FirstStep DEF ConfigInv, Fits, UserPlans, StopFirst, StartNext, LeavePlans
<1>3. on /\ ~late /\ saving = NoSave => gConf = file
  BY DEF ConfigInv, InStep
<1> QED
  BY <1>1, <1>2, <1>3

(* Nothing is configured when the process begins. *)
LEMMA ConfigInit == Config!Init => ConfigInv
BY DEF Config!Init, ConfigInv, ConfigTypes, InStep, Fits, Joined, Steps, Apps, Plans, Unpaired

(* The steps that begin a command: it is the only one. *)
LEMMA ConfigBegins ==
    ASSUME ConfigInv,
           \/ Config!ReplaceTunnels(Caller) \/ Config!ReplaceConfig(Caller) \/ Config!StartOpenP2P(Caller)
           \/ Config!StopOpenP2P(Caller) \/ Config!Join(Caller) \/ Config!Leave(Caller)
    PROVE  ConfigInv'
<1>0. Steps = << >> /\ UNCHANGED <<file, gConf, on, saving, mu, late>>
  BY DEF Config!ReplaceTunnels, Config!ReplaceConfig, Config!StartOpenP2P, Config!StopOpenP2P,
       Config!Join, Config!Leave, Config!Begin, Steps
<1>1. /\ mu = {} /\ Joined /\ (session = "idle" => ~on)
      /\ on /\ ~late /\ saving = NoSave => gConf = file
  BY <1>0, NoCommand
<1>2. InStep'
  BY <1>0, <1>1 DEF ConfigInv, InStep
<1>3. ASSUME NEW q \in Plans, Config!Begin(Caller, q), session' \in {"idle", "ordinary", "client"}
      PROVE  ConfigTypes' /\ Steps' = q
  <2>1. Steps' = q /\ call' \in [{Caller} -> Plans]
    BY <1>3, StepsNow DEF Config!Begin, ConfigInv
  <2> QED
    BY <1>0, <1>1, <1>3, <2>1 DEF ConfigInv, ConfigTypes
<1>4. session = session' => Joined'
  BY <1>0, <1>1 DEF Joined
<1>5. session \in {"idle", "ordinary", "client"}
  BY DEF ConfigInv, ConfigTypes
<1>6. CASE Config!ReplaceTunnels(Caller)
  <2>1. PICK apps \in SUBSET Users : Config!Begin(Caller, <<SetUser(apps), DoStep("stop"), DoStep("startIf")>>)
    BY <1>6 DEF Config!ReplaceTunnels, Config!Set, Config!Do, SetUser, DoStep
  <2> DEFINE q == <<SetUser(apps), DoStep("stop"), DoStep("startIf")>>
  <2>2. q \in TunnelPlans /\ q \in Plans /\ session' = session
    BY <1>6 DEF Plans, Unpaired, UserPlans, TunnelPlans, Config!ReplaceTunnels
  <2>3. ConfigTypes' /\ Steps' \in TunnelPlans
    BY <1>3, <1>5, <2>1, <2>2
  <2> QED
    BY <1>0, <1>1, <1>2, <1>4, <2>2, <2>3 DEF ConfigInv, Fits
<1>7. CASE Config!ReplaceConfig(Caller)
  <2>1. PICK apps \in SUBSET Users :
           Config!Begin(Caller, <<SetUser(apps)>> \o IF session # "idle" THEN <<DoStep("stop"), DoStep("start")>> ELSE << >>)
    BY <1>7 DEF Config!ReplaceConfig, Config!Set, Config!Do, SetUser, DoStep
  <2>2. /\ <<SetUser(apps)>> \o <<DoStep("stop"), DoStep("start")>> = <<SetUser(apps), DoStep("stop"), DoStep("start")>>
        /\ <<SetUser(apps)>> \o << >> = <<SetUser(apps)>>
    BY StepThenTwo
  <2>3. session' = session
    BY <1>7 DEF Config!ReplaceConfig
  <2>4. CASE session # "idle"
    <3> DEFINE q == <<SetUser(apps), DoStep("stop"), DoStep("start")>>
    <3>1. q \in ReplacePlans /\ q \in Plans
      BY DEF Plans, Unpaired, UserPlans, ReplacePlans
    <3>2. Config!Begin(Caller, q)
      BY <2>1, <2>2, <2>4
    <3>3. ConfigTypes' /\ Steps' \in ReplacePlans
      BY <1>3, <1>5, <2>3, <3>1, <3>2
    <3> QED
      BY <1>0, <1>1, <1>2, <1>4, <2>3, <2>4, <3>3 DEF ConfigInv, Fits
  <2>5. CASE session = "idle"
    <3> DEFINE q == <<SetUser(apps)>>
    <3>1. q \in IdlePlans /\ q \in Plans
      BY DEF Plans, Unpaired, IdlePlans
    <3>2. Config!Begin(Caller, q)
      BY <2>1, <2>2, <2>5
    <3>3. ConfigTypes' /\ Steps' \in IdlePlans
      BY <1>3, <1>5, <2>3, <3>1, <3>2
    <3> QED
      BY <1>0, <1>1, <1>2, <2>3, <2>5, <3>3 DEF ConfigInv, Fits
  <2> QED
    BY <2>4, <2>5
<1>8. CASE Config!StartOpenP2P(Caller)
  <2>1. Config!Begin(Caller, <<DoStep("start")>>) /\ <<DoStep("start")>> \in Plans
        /\ session' = "ordinary" /\ session = "idle"
    BY <1>8 DEF Config!StartOpenP2P, Config!Do, DoStep, Plans, Unpaired, StartNext
  <2>2. ConfigTypes' /\ Steps' = <<DoStep("start")>> /\ Joined'
    BY <1>3, <2>1 DEF Joined
  <2> QED
    BY <1>0, <1>1, <1>2, <2>1, <2>2 DEF ConfigInv, Fits
<1>9. CASE Config!StopOpenP2P(Caller)
  <2>1. Config!Begin(Caller, StopPlan) /\ StopPlan \in Plans /\ session' = "ordinary"
    BY <1>9 DEF Config!StopOpenP2P, Config!Do, DoStep, Plans, Unpaired, StopPlan
  <2>2. ConfigTypes' /\ Steps' = StopPlan
    BY <1>3, <2>1
  <2> QED
    BY <1>2, <2>1, <2>2 DEF ConfigInv, Fits
<1>10. CASE Config!Join(Caller)
  <2>1. Config!Begin(Caller, JoinPlan) /\ JoinPlan \in Plans /\ session' = "client"
    BY <1>10 DEF Config!Join, Config!Set, Config!Do, Config!Internal, SetInternal, DoStep, Plans, Unpaired, JoinPlan
  <2>2. ConfigTypes' /\ Steps' = JoinPlan
    BY <1>3, <2>1
  <2> QED
    BY <1>2, <2>1, <2>2 DEF ConfigInv, Fits
<1>11. CASE Config!Leave(Caller)
  <2>1. Config!Begin(Caller, LeavePlan) /\ LeavePlan \in Plans /\ session' = "idle"
    BY <1>11 DEF Config!Leave, Config!LeaveSteps, Config!Set, Config!Do, SetInternal, DoStep,
         Plans, Unpaired, LeavePlan, LeavePlans
  <2>2. ConfigTypes' /\ Steps' = LeavePlan
    BY <1>3, <2>1
  <2> QED
    BY <1>2, <2>1, <2>2 DEF ConfigInv, Fits, LeavePlans
<1> QED
  BY <1>6, <1>7, <1>8, <1>9, <1>10, <1>11

(* The plans that can be under way when a given step is next, with what    *)
(* holds then. *)
LEMMA FitsAt ==
    ASSUME Fits, Steps # << >>
    PROVE  /\ Head(Steps).do = "idle" => Steps = <<DoStep("idle")>> /\ session = "ordinary" /\ ~on
           /\ Head(Steps).do = "pair" => Steps = ToPair /\ session = "client"
           /\ Head(Steps).do = "add" =>
                 Steps = <<DoStep("add")>> /\ session = "client" /\ on /\ Pair \in gConf
           /\ Head(Steps).do = "stop" =>
                 \/ Steps = StopStartIf /\ Joined
                 \/ Steps = StopStart /\ session # "idle" /\ Joined
                 \/ Steps = StopPlan /\ session = "ordinary"
                 \/ Steps = <<DoStep("stop")>> /\ session = "idle"
                 \/ Steps = ToStop /\ session = "client"
           /\ Head(Steps).do \in {"start", "startIf"} =>
                 \/ Steps = <<DoStep("startIf")>> /\ ~on /\ Joined
                 \/ Steps = <<DoStep("start")>> /\ session # "idle" /\ ~on /\ Joined
                 \/ Steps = ToStart /\ session = "client" /\ ~on
           /\ Head(Steps).do = "set" =>
                 \/ Steps \in TunnelPlans /\ (session = "idle" => ~on) /\ Joined
                 \/ Steps \in ReplacePlans /\ session # "idle" /\ Joined
                 \/ Steps \in IdlePlans /\ session = "idle" /\ ~on
                 \/ Steps = LeavePlan /\ session = "idle"
                 \/ Steps = JoinPlan /\ session = "client"
                 \/ Steps = AfterPair /\ session = "client" /\ on /\ Pair \in gConf
BY FirstStep DEF Fits, UserPlans, StopFirst, StartNext, LeavePlans

(* A command goes on without the store or the engine: StopOpenP2P ends,    *)
(* the host answers a join, or the join fails.                             *)
LEMMA ConfigGoesOn ==
    ASSUME ConfigInv,
           Config!StopSession(Caller) \/ Config!Configure(Caller) \/ Config!JoinFails(Caller)
    PROVE  ConfigInv'
<1>0. Steps # << >> /\ UNCHANGED <<file, gConf, on, saving, mu, late>>
  BY DEF Config!StopSession, Config!Configure, Config!JoinFails, Config!At, Steps
<1>1. << >> \in Plans /\ LeavePlan \in Plans /\ AfterPair \in Plans
  BY DEF Plans, Unpaired, LeavePlans
<1>2. ASSUME ~Sets(Steps), Head(Steps).do \notin {"stop", "add"} \/ ~on, NEW q \in Plans,
             call' = [call EXCEPT ![Caller] = q], session' \in {"idle", "ordinary", "client"}
      PROVE  ConfigTypes' /\ InStep' /\ Steps' = q /\ mu = {}
  <2>1. Steps' = q /\ call' \in [{Caller} -> Plans]
    BY <1>2, StepsNow DEF ConfigInv
  <2>2. mu = {}
    BY <1>2 DEF ConfigInv, ConfigTypes
  <2> QED
    BY <1>0, <1>2, <2>1, <2>2 DEF ConfigInv, ConfigTypes, InStep
<1>3. CASE Config!StopSession(Caller)
  <2>1. Steps = <<DoStep("idle")>> /\ session = "ordinary" /\ ~on /\ ~Sets(Steps)
    BY <1>0, <1>3, FitsAt DEF ConfigInv, Config!StopSession, Config!At, Steps, Sets
  <2>2. call' = [call EXCEPT ![Caller] = << >>] /\ session' = "idle"
    BY <1>3, <2>1, TailOf DEF Config!StopSession, Config!Done, Steps
  <2>3. ConfigTypes' /\ InStep' /\ Steps' = << >> /\ Joined'
    BY <1>1, <1>2, <2>1, <2>2 DEF Joined
  <2> QED
    BY <1>0, <2>1, <2>2, <2>3 DEF ConfigInv, Fits
<1>4. CASE Config!Configure(Caller)
  <2>1. Steps = ToPair /\ session = "client" /\ on /\ Pair \in gConf /\ ~Sets(Steps)
        /\ Head(Steps).do \notin {"stop", "add"}
    BY <1>0, <1>4, FitsAt DEF ConfigInv, Config!Configure, Config!At, Steps, Sets
  <2>2. call' = [call EXCEPT ![Caller] = AfterPair] /\ session' = session
    BY <1>4, <2>1, TailOf DEF Config!Configure, Config!Done, Steps
  <2>3. ConfigTypes' /\ InStep' /\ Steps' = AfterPair
    BY <1>1, <1>2, <2>1, <2>2
  <2> QED
    BY <1>0, <2>1, <2>2, <2>3 DEF ConfigInv, Fits
<1>5. CASE Config!JoinFails(Caller)
  <2>1. session = "client" /\ ~Sets(Steps) /\ (Head(Steps).do \notin {"stop", "add"} \/ ~on)
    BY <1>0, <1>5, FitsAt DEF ConfigInv, Config!JoinFails, Config!At, Steps, Sets
  <2>2. call' = [call EXCEPT ![Caller] = LeavePlan] /\ session' = "idle"
    BY <1>5, <2>1 DEF Config!JoinFails, Config!LeaveSteps, Config!Set, Config!Do, LeavePlan, SetInternal, DoStep
  <2>3. ConfigTypes' /\ InStep' /\ Steps' = LeavePlan
    BY <1>1, <1>2, <2>1, <2>2
  <2> QED
    BY <2>2, <2>3 DEF ConfigInv, Fits, LeavePlans
<1> QED
  BY <1>3, <1>4, <1>5

(* A command stops the engine, starts it, or adds the app to it. *)
LEMMA ConfigEngine ==
    ASSUME ConfigInv,
           Config!StopEngine(Caller) \/ Config!StartEngine(Caller) \/ Config!AddApp(Caller)
    PROVE  ConfigInv'
<1>0. Steps # << >> /\ call' = [call EXCEPT ![Caller] = Tail(Steps)] /\ ~Sets(Steps)
      /\ UNCHANGED <<saving, mu, session>>
  BY DEF Config!StopEngine, Config!StartEngine, Config!AddApp, Config!At, Config!Done, Steps, Sets
<1>1. mu = {}
  BY <1>0 DEF ConfigInv, ConfigTypes
<1>2. /\ << >> \in Plans /\ <<DoStep("startIf")>> \in Plans /\ <<DoStep("start")>> \in Plans
      /\ <<DoStep("idle")>> \in Plans /\ ToStart \in Plans /\ ToPair \in Plans
  BY DEF Plans, Unpaired, StartNext
<1>3. ASSUME NEW q \in Plans, Tail(Steps) = q, file' \in Apps, gConf' \in Apps
      PROVE  ConfigTypes' /\ Steps' = q
  <2>1. Steps' = q /\ call' \in [{Caller} -> Plans]
    BY <1>0, <1>3, StepsNow DEF ConfigInv
  <2> QED
    BY <1>0, <1>1, <1>3, <2>1 DEF ConfigInv, ConfigTypes
<1>4. CASE Config!StopEngine(Caller)
  <2>1. file' = file /\ gConf' = gConf /\ on' = FALSE
    BY <1>4 DEF Config!StopEngine
  <2>2. \/ Steps = StopStartIf /\ Joined
        \/ Steps = StopStart /\ session # "idle" /\ Joined
        \/ Steps = StopPlan /\ session = "ordinary"
        \/ Steps = <<DoStep("stop")>> /\ session = "idle"
        \/ Steps = ToStop /\ session = "client"
    BY <1>0, <1>4, FitsAt DEF ConfigInv, Config!StopEngine, Config!At, Steps
  <2>3. ConfigTypes' /\ Steps' = Tail(Steps)
    <3>1. Tail(Steps) \in Plans
      BY <1>2, <2>2, TailOf
    <3>2. file' \in Apps /\ gConf' \in Apps
      BY <2>1 DEF ConfigInv, ConfigTypes
    <3> QED
      BY <1>3, <3>1, <3>2, Zenon
  <2>4. InStep'
    BY <2>1 DEF InStep
  <2>5. Joined => Joined'
    BY <1>0, <2>1 DEF Joined
  <2>6. Fits'
    BY <1>0, <2>1, <2>2, <2>3, <2>5, TailOf DEF Fits, Joined
  <2> QED
    BY <2>3, <2>4, <2>6 DEF ConfigInv
<1>5. CASE Config!StartEngine(Caller)
  <2>1. /\ ~on /\ file' = file
        /\ \/ Steps = <<DoStep("startIf")>> /\ Joined
           \/ Steps = <<DoStep("start")>> /\ session # "idle" /\ Joined
           \/ Steps = ToStart /\ session = "client"
    BY <1>0, <1>5, FitsAt DEF ConfigInv, Config!StartEngine, Config!At, Steps
  <2>2. \/ session = "idle" /\ UNCHANGED <<gConf, on, late>>
        \/ on' = TRUE /\ gConf' = file /\ late' = (saving # NoSave)
           /\ (session # "idle" \/ Steps # <<DoStep("startIf")>>)
    <3>1. Steps = <<DoStep("startIf")>> => Head(Steps).do = "startIf"
      BY FirstStep
    <3>2. CASE Head(Steps).do = "startIf" /\ session = "idle"
      BY <1>0, <1>5, <3>2 DEF Config!StartEngine, Config!At, Steps
    <3>3. CASE ~(Head(Steps).do = "startIf" /\ session = "idle")
      BY <1>0, <1>5, <2>1, <3>1, <3>3 DEF Config!StartEngine, Config!At, Steps
    <3> QED
      BY <3>2, <3>3
  <2>3. ConfigTypes' /\ Steps' = Tail(Steps)
    <3>1. gConf' \in Apps
      BY <2>2 DEF ConfigInv, ConfigTypes
    <3> QED
      BY <1>2, <1>3, <2>1, <3>1, TailOf DEF ConfigInv, ConfigTypes, StartNext
  <2>4. InStep'
    BY <1>0, <2>1, <2>2 DEF InStep
  <2>5. Joined => Joined'
    BY <1>0, <1>1, <2>1, <2>2 DEF Joined
  <2>6. Fits'
    <3>1. CASE Steps = ToStart /\ session = "client"
      BY <1>0, <2>3, <3>1, TailOf DEF Fits
    <3>2. CASE Steps = <<DoStep("startIf")>> /\ Joined
      BY <1>0, <2>1, <2>2, <2>3, <2>5, <3>2, TailOf DEF Fits
    <3>3. CASE Steps = <<DoStep("start")>> /\ session # "idle" /\ Joined
      BY <1>0, <2>3, <2>5, <3>3, TailOf DEF Fits
    <3> QED
      BY <2>1, <3>1, <3>2, <3>3
  <2> QED
    BY <2>3, <2>4, <2>6 DEF ConfigInv
<1>6. CASE Config!AddApp(Caller)
  <2>1. /\ Steps = <<DoStep("add")>> /\ session = "client" /\ Pair \in gConf /\ saving = NoSave
        /\ gConf' = gConf \cup {WG} /\ file' = gConf'
    BY <1>0, <1>6, FitsAt DEF ConfigInv, Config!AddApp, Config!At, Steps
  <2>2. file' \in Apps /\ gConf' \in Apps
    BY <2>1 DEF ConfigInv, ConfigTypes, Apps
  <2>3. ConfigTypes' /\ Steps' = << >>
    BY <1>2, <1>3, <2>1, <2>2, TailOf
  <2>4. InStep'
    BY <1>0, <2>1 DEF InStep
  <2>5. Joined'
    BY <1>0, <1>1, <2>1 DEF Joined
  <2> QED
    BY <1>0, <2>1, <2>3, <2>4, <2>5 DEF ConfigInv, Fits
<1> QED
  BY <1>4, <1>5, <1>6

(* A command loads the file, or is refused.                                *)
LEMMA ConfigLoads ==
    ASSUME ConfigInv, Config!StoreLoads(Caller) \/ Config!StoreRefuses(Caller)
    PROVE  ConfigInv'
<1>0. Steps # << >> /\ Head(Steps).do = "set" /\ mu = {} /\ UNCHANGED <<file, gConf, on, saving, late>>
  BY DEF Config!StoreLoads, Config!StoreRefuses, Config!At, Steps
<1>1. CASE Config!StoreLoads(Caller)
  <2>1. mu' = {[caller |-> Caller, apps |-> file]} /\ UNCHANGED <<call, session>>
    BY <1>1 DEF Config!StoreLoads
  <2>2. ConfigTypes' /\ InStep'
    BY <1>0, <2>1 DEF ConfigInv, ConfigTypes, InStep, Steps, Sets
  <2>3. Joined => Joined'
    BY <1>0, <2>1 DEF Joined
  <2>4. Fits'
    BY <1>0, <2>1, <2>3 DEF ConfigInv, Fits, Steps
  <2> QED
    BY <2>2, <2>4 DEF ConfigInv
<1>2. CASE Config!StoreRefuses(Caller)
  <2> DEFINE joining == \E i \in 1 .. Len(Steps) : Steps[i].do = "add"
  <2>0. Config!LeaveSteps = LeavePlan
    BY DEF Config!LeaveSteps, Config!Set, Config!Do, LeavePlan, SetInternal, DoStep
  <2>1. /\ session' = IF joining /\ session = "client" THEN "idle" ELSE session
        /\ call' = [call EXCEPT ![Caller] = IF joining /\ session = "client" THEN LeavePlan
                                           ELSE IF Steps = LeavePlan THEN Tail(Steps) ELSE << >>]
    BY <1>2, <2>0 DEF Config!StoreRefuses, Steps
  <2>2. Steps \in {JoinPlan, AfterPair} => joining
    <3>1. Len(JoinPlan) = 6 /\ JoinPlan[6].do = "add" /\ Len(AfterPair) = 2 /\ AfterPair[2].do = "add"
      BY DEF JoinPlan, AfterPair, DoStep
    <3> QED
      BY <3>1
  <2>3. LeavePlan \notin TunnelPlans \cup ReplacePlans
    <3>1. \A apps : SetInternal({}).part # SetUser(apps).part
      BY DEF SetInternal, SetUser
    <3> QED
      BY <3>1, HeadOf DEF UserPlans
  <2> HIDE DEF joining
  <2>4. /\ session \in {"idle", "ordinary", "client"} /\ ConfigTypes /\ Fits
        /\ on /\ ~late => IF saving = NoSave THEN gConf = file ELSE saving = gConf
    BY <1>0 DEF ConfigInv, ConfigTypes, InStep
  <2>5. << >> \in Plans /\ LeavePlan \in Plans /\ <<DoStep("stop")>> \in Plans
    BY DEF Plans, Unpaired, LeavePlans
  <2>6. ASSUME NEW q \in Plans, call' = [call EXCEPT ![Caller] = q], session' \in {"idle", "ordinary", "client"}
        PROVE  ConfigTypes' /\ InStep' /\ Steps' = q
    <3>1. Steps' = q /\ call' \in [{Caller} -> Plans]
      BY <2>4, <2>6, StepsNow
    <3>2. mu' = {}
      BY <1>0, <1>2 DEF Config!StoreRefuses
    <3> QED
      BY <1>0, <2>4, <2>6, <3>1, <3>2 DEF ConfigTypes, InStep
  <2>7. CASE joining /\ session = "client"
    <3>1. call' = [call EXCEPT ![Caller] = LeavePlan] /\ session' = "idle"
      BY <2>1, <2>7
    <3>2. ConfigTypes' /\ InStep' /\ Steps' = LeavePlan
      BY <2>5, <2>6, <3>1
    <3> QED
      BY <3>1, <3>2 DEF ConfigInv, Fits, LeavePlans
  <2>8. CASE ~(joining /\ session = "client") /\ Steps = LeavePlan
    <3>1. call' = [call EXCEPT ![Caller] = <<DoStep("stop")>>] /\ session' = session /\ session = "idle"
      <4>1. session = "idle"
        BY <1>0, <2>2, <2>3, <2>4, <2>8, FitsAt
      <4> QED
        BY <2>1, <2>8, <4>1, TailOf
    <3>2. ConfigTypes' /\ InStep' /\ Steps' = <<DoStep("stop")>>
      BY <2>5, <2>6, <3>1
    <3> QED
      BY <3>1, <3>2 DEF ConfigInv, Fits, LeavePlans
  <2>9. CASE ~(joining /\ session = "client") /\ Steps # LeavePlan
    <3>1. call' = [call EXCEPT ![Caller] = << >>] /\ session' = session
      BY <2>1, <2>9
    <3>2. ConfigTypes' /\ InStep' /\ Steps' = << >>
      BY <2>4, <2>5, <2>6, <3>1
    <3>3. (session = "idle" => ~on) /\ Joined
      BY <1>0, <2>2, <2>4, <2>9, FitsAt DEF Joined
    <3>4. Joined'
      BY <1>0, <1>2, <3>1, <3>3 DEF Joined, Config!StoreRefuses
    <3> QED
      BY <1>0, <3>1, <3>2, <3>3, <3>4 DEF ConfigInv, Fits
  <2> QED
    BY <2>7, <2>8, <2>9
<1> QED
  BY <1>1, <1>2

(* A command saves: the part it replaces, merged into what it has loaded.  *)
LEMMA ConfigSaves ==
    ASSUME ConfigInv, Config!StoreSaves(Caller)
    PROVE  ConfigInv'
<1>1. PICK m \in mu : /\ m.caller = Caller /\ mu' = mu \ {m}
                      /\ call' = [call EXCEPT ![Caller] = Tail(Steps)]
                      /\ file' = Config!Merged(m.apps, Head(Steps))
                      /\ UNCHANGED <<gConf, on, saving, session, late>>
  BY DEF Config!StoreSaves, Config!Done, Steps
<1>2. /\ mu' = {} /\ Steps # << >> /\ Head(Steps).do = "set" /\ m.apps \in Apps
      /\ session \in {"idle", "ordinary", "client"} /\ ConfigTypes /\ Fits
  BY <1>1 DEF ConfigInv, ConfigTypes, Sets
<1>3. ASSUME NEW q \in Plans, Tail(Steps) = q, file' \in Apps, (q # << >> /\ Head(q).do \in {"stop", "add"}) \/ ~on
      PROVE  ConfigTypes' /\ InStep' /\ Steps' = q
  <2>1. Steps' = q /\ call' \in [{Caller} -> Plans]
    BY <1>1, <1>2, <1>3, StepsNow
  <2> QED
    BY <1>1, <1>2, <1>3, <2>1 DEF ConfigInv, ConfigTypes, InStep
<1>4. CASE Steps \in TunnelPlans \cup ReplacePlans \cup IdlePlans
  <2>1. PICK apps \in SUBSET Users : Head(Steps) = SetUser(apps)
    BY <1>4, HeadOf DEF UserPlans
  <2>2. file' = apps \cup (m.apps \ Users)
    BY <1>1, <2>1 DEF Config!Merged, SetUser
  <2>3. file' \in Apps /\ ({Pair, WG} \subseteq m.apps => {Pair, WG} \subseteq file')
    BY <1>2, <2>2, ConfigAssumption DEF Apps
  <2>4. Joined => Joined'
    BY <1>1, <1>2, <2>3 DEF Joined
  <2>5. CASE Steps \in TunnelPlans /\ Joined
    <3>1. StopStartIf \in Plans /\ StopStartIf # << >> /\ Head(StopStartIf).do = "stop"
      BY FirstStep DEF Plans, Unpaired, StopFirst
    <3>2. ConfigTypes' /\ InStep' /\ Steps' = StopStartIf
      BY <1>3, <2>3, <2>5, <3>1, TailOf
    <3> QED
      BY <2>4, <2>5, <3>2 DEF ConfigInv, Fits
  <2>6. CASE Steps \in ReplacePlans /\ session # "idle" /\ Joined
    <3>1. StopStart \in Plans /\ StopStart # << >> /\ Head(StopStart).do = "stop"
      BY FirstStep DEF Plans, Unpaired, StopFirst
    <3>2. ConfigTypes' /\ InStep' /\ Steps' = StopStart
      BY <1>3, <2>3, <2>6, <3>1, TailOf
    <3> QED
      BY <1>1, <2>4, <2>6, <3>2 DEF ConfigInv, Fits
  <2>7. CASE Steps \in IdlePlans /\ session = "idle" /\ ~on
    <3>1. << >> \in Plans
      BY DEF Plans, Unpaired
    <3>2. ConfigTypes' /\ InStep' /\ Steps' = << >>
      BY <1>3, <2>3, <2>7, <3>1, TailOf
    <3> QED
      BY <1>1, <2>7, <3>2 DEF ConfigInv, Fits, Joined
  <2> QED
    <3>1. \A apps2 : SetUser(apps).part # SetInternal(apps2).part
      BY DEF SetUser, SetInternal
    <3>2. Steps \notin {LeavePlan, JoinPlan, AfterPair}
      BY <2>1, <3>1, HeadOf
    <3> QED
      BY <1>2, <2>5, <2>6, <2>7, <3>2, FitsAt
<1>5. ASSUME NEW apps \in SUBSET {Pair, WG}, Head(Steps) = SetInternal(apps)
      PROVE  file' \in Apps
  <2>1. file' = apps \cup (m.apps \cap Users)
    BY <1>1, <1>5 DEF Config!Merged, SetInternal
  <2> QED
    BY <1>2, <2>1 DEF Apps
<1>6. CASE Steps = LeavePlan /\ session = "idle"
  <2>1. <<DoStep("stop")>> \in Plans /\ <<DoStep("stop")>> # << >> /\ Head(<<DoStep("stop")>>).do = "stop"
    BY FirstStep DEF Plans, Unpaired, LeavePlans
  <2>2. ConfigTypes' /\ InStep' /\ Steps' = <<DoStep("stop")>>
    BY <1>3, <1>5, <1>6, <2>1, HeadOf, TailOf
  <2> QED
    BY <1>1, <1>6, <2>2 DEF ConfigInv, Fits, LeavePlans
<1>7. CASE Steps = JoinPlan /\ session = "client"
  <2>1. ToStop \in Plans /\ ToStop # << >> /\ Head(ToStop).do = "stop"
    BY FirstStep DEF Plans, Unpaired
  <2>2. ConfigTypes' /\ InStep' /\ Steps' = ToStop
    BY <1>3, <1>5, <1>7, <2>1, HeadOf, TailOf
  <2> QED
    BY <1>1, <1>7, <2>2 DEF ConfigInv, Fits
<1>8. CASE Steps = AfterPair /\ session = "client" /\ on /\ Pair \in gConf
  <2>1. <<DoStep("add")>> \in Plans /\ <<DoStep("add")>> # << >> /\ Head(<<DoStep("add")>>).do = "add"
    BY FirstStep DEF Plans
  <2>2. ConfigTypes' /\ InStep' /\ Steps' = <<DoStep("add")>>
    BY <1>3, <1>5, <1>8, <2>1, HeadOf, TailOf
  <2> QED
    BY <1>1, <1>8, <2>2 DEF ConfigInv, Fits
<1> QED
  BY <1>2, <1>4, <1>6, <1>7, <1>8, FitsAt

(* The engine saves, is edited by the server and renames the file, in      *)
(* whatever step the command is; and the process restarts.                 *)
LEMMA EngineSaves ==
    ASSUME ConfigInv, Config!Login \/ Config!EditApp \/ Config!SaveEnds \/ Config!Restart
    PROVE  ConfigInv'
<1>1. CASE Config!Login
  <2>1. on /\ saving = NoSave /\ saving' = gConf /\ UNCHANGED <<file, gConf, on, mu, call, session, late>>
    BY <1>1 DEF Config!Login
  <2>2. ConfigTypes' /\ InStep'
    BY <2>1, ConfigAssumption DEF ConfigInv, ConfigTypes, InStep, Steps, Apps
  <2>3. Joined => Joined'
    BY <2>1 DEF Joined
  <2> QED
    BY <2>1, <2>2, <2>3 DEF ConfigInv, Fits, Steps
<1>2. CASE Config!EditApp
  <2>1. PICK old \in SUBSET Users, new \in SUBSET Users :
           on /\ gConf' = (gConf \ old) \cup new /\ saving' = gConf' /\ UNCHANGED <<file, on, mu, call, session, late>>
    BY <1>2 DEF Config!EditApp
  <2>2. gConf' \in Apps /\ \A app \in {Pair, WG} : app \in gConf => app \in gConf'
    BY <2>1, ConfigAssumption DEF ConfigInv, ConfigTypes, Apps
  <2>3. ConfigTypes' /\ InStep'
    BY <2>1, <2>2, ConfigAssumption DEF ConfigInv, ConfigTypes, InStep, Steps, Apps
  <2>4. Joined => Joined'
    BY <2>1, <2>2 DEF Joined
  <2> QED
    BY <2>1, <2>2, <2>3, <2>4 DEF ConfigInv, Fits, Steps
<1>3. CASE Config!SaveEnds
  <2>1. saving # NoSave /\ file' = saving /\ saving' = NoSave /\ UNCHANGED <<gConf, on, mu, call, session, late>>
    BY <1>3 DEF Config!SaveEnds
  <2>2. ConfigTypes' /\ InStep'
    BY <2>1 DEF ConfigInv, ConfigTypes, InStep, Steps
  <2>3. Joined => Joined'
    BY <2>1 DEF Joined
  <2> QED
    BY <2>1, <2>2, <2>3 DEF ConfigInv, Fits, Steps
<1>4. CASE Config!Restart
  <2>1. /\ file' = file \cap Users /\ gConf' = {} /\ on' = FALSE /\ saving' = NoSave /\ mu' = {}
        /\ call' = [c \in {Caller} |-> << >>] /\ session' = "idle"
    BY <1>4 DEF Config!Restart
  <2>2. Steps' = << >> /\ call' \in [{Caller} -> Plans]
    BY <2>1 DEF Steps, Plans, Unpaired
  <2>3. file' \in Apps /\ gConf' \in Apps
    BY <2>1 DEF ConfigInv, ConfigTypes, Apps
  <2> QED
    BY <2>1, <2>2, <2>3 DEF ConfigInv, ConfigTypes, InStep, Fits, Joined
<1> QED
  BY <1>1, <1>2, <1>3, <1>4

(* Every step of the file's writers. *)
LEMMA ConfigNext ==
    ASSUME ConfigInv, Config!Next
    PROVE  ConfigInv'
BY ConfigBegins, ConfigGoesOn, ConfigEngine, ConfigLoads, ConfigSaves, EngineSaves DEF Config!Next

-----------------------------------------------------------------------------
(* The inductive invariant: one conjunct per part. *)
EngineInv ==
    /\ NetworkInv(IF part = "engines" THEN Callers ELSE {Caller})
    /\ ReaderInv
    /\ OwnerInv
    /\ part = "store" => StoreInv
    /\ part = "config" => ConfigInv

vars == <<part, gatewayVars, moduleVars, listenVars, configVars>>

(* It holds in every initial state, *)
LEMMA EngineInit == Init => EngineInv
<1> SUFFICES ASSUME Init PROVE EngineInv
  OBVIOUS
<1>1. part = "store" => Store!Init
  BY DEF Init
<1>2. part = "config" => Config!Init
  BY DEF Init
<1>3. NetworkInv(IF part = "engines" THEN Callers ELSE {Caller})
  <2>1. IF part = "engines" THEN Many!Init ELSE One!Init
    BY DEF Init
  <2> QED
    BY <2>1, NetworkInit
<1> QED
  BY <1>1, <1>2, <1>3, ReaderInit, OwnerInit, StoreInit, ConfigInit DEF EngineInv

(* none of its conjuncts reads the variables of another part, *)
LEMMA EngineApart ==
    /\ \A callers : NetworkInv(callers) /\ UNCHANGED moduleVars => NetworkInv(callers)'
    /\ ReaderInv /\ UNCHANGED gatewayVars => ReaderInv'
    /\ OwnerInv /\ UNCHANGED listenVars => OwnerInv'
    /\ StoreInv /\ UNCHANGED configVars => StoreInv'
    /\ ConfigInv /\ UNCHANGED configVars => ConfigInv'
<1>1. \A callers : NetworkInv(callers) /\ UNCHANGED moduleVars => NetworkInv(callers)'
  BY DEF NetworkInv, moduleVars
<1>2. ReaderInv /\ UNCHANGED gatewayVars => ReaderInv'
  BY DEF ReaderInv, gatewayVars
<1>3. OwnerInv /\ UNCHANGED listenVars => OwnerInv'
  BY DEF OwnerInv, Owned, listenVars
<1>4. StoreInv /\ UNCHANGED configVars => StoreInv'
  BY DEF StoreInv, configVars
<1>5. ConfigInv /\ UNCHANGED configVars => ConfigInv'
  BY DEF ConfigInv, ConfigTypes, InStep, Fits, Joined, Steps, configVars
<1> QED
  BY <1>1, <1>2, <1>3, <1>4, <1>5

(* and every step of every part keeps it. *)
LEMMA EngineNext == EngineInv /\ [Next]_vars => EngineInv'
<1> SUFFICES ASSUME EngineInv, [Next]_vars PROVE EngineInv'
  OBVIOUS
<1> USE EngineApart
<1>0. CASE UNCHANGED vars
  BY <1>0 DEF EngineInv, vars
<1>1. CASE part' = part /\ part = "gateway" /\ Gateway!Next /\ UNCHANGED <<moduleVars, listenVars, configVars>>
  BY <1>1, ReaderNext DEF EngineInv
<1>2. CASE part' = part /\ part = "engine" /\ One!Next /\ UNCHANGED <<gatewayVars, listenVars, configVars>>
  BY <1>2, NetworkNextOne DEF EngineInv
<1>3. CASE part' = part /\ part = "engines" /\ Many!Next /\ UNCHANGED <<gatewayVars, listenVars, configVars>>
  BY <1>3, NetworkNextMany DEF EngineInv
<1>4. CASE part' = part /\ part = "listen" /\ Listen!Next /\ UNCHANGED <<gatewayVars, moduleVars, configVars>>
  BY <1>4, OwnerNext DEF EngineInv
<1>5. CASE part' = part /\ part = "store" /\ Store!Next /\ UNCHANGED <<gatewayVars, moduleVars, listenVars>>
  BY <1>5, StoreNext DEF EngineInv
<1>6. CASE part' = part /\ part = "config" /\ Config!Next /\ UNCHANGED <<gatewayVars, moduleVars, listenVars>>
  BY <1>6, ConfigNext DEF EngineInv
<1>7. CASE Next
  BY <1>1, <1>2, <1>3, <1>4, <1>5, <1>6, <1>7 DEF Next
<1> QED
  BY <1>0, <1>7

(* The inductive invariant holds for any number of callers, websockets,    *)
(* connections and tunnels, and whatever the bounds are.                   *)
THEOREM EngineInvariant == Spec => []EngineInv
<1>1. Spec => Init /\ [][Next]_vars
  BY DEF Spec, vars
<1> QED
  BY <1>1, EngineInit, EngineNext, PTL

(* One network is in use, however Start, Stop, the goroutines of earlier   *)
(* runs and the reconnects of a network interleave, and another is logged  *)
(* in only if it was shut down while it was in init().                     *)
THEOREM NetworkIsOne == Spec => []OneNetwork
<1>1. EngineInv => OneNetwork
  BY DEF EngineInv, NetworkInv, OneNetwork, Many!OneNetwork
<1> QED
  BY <1>1, EngineInvariant, PTL

(* No read loop survives a reconnect, whoever closes the websocket and     *)
(* however often, as long as run() found every read loop counted.          *)
THEOREM ReaderIsOne == Spec => []OneReader
<1>1. EngineInv => OneReader
  BY DEF EngineInv, ReaderInv, OneReader, Gateway!OneReader
<1> QED
  BY <1>1, EngineInvariant, PTL

(* A connection of the shared listeners is handed to one tunnel, once.     *)
THEOREM OwnerIsOne == Spec => []OneOwner
<1>1. EngineInv => OneOwner
  <2> SUFFICES ASSUME OwnerInv, NEW t \in Tunnels, got[t] # None
               PROVE  /\ arrived[got[t]] = "stored"
                      /\ \A s \in Tunnels : conns[s] # got[t] /\ (s # t => got[s] # got[t])
    BY DEF EngineInv, OneOwner, Listen!OneOwner
  <2>1. arrived[got[t]] = "stored" /\ hello[got[t]] = t /\ conns[t] # got[t]
    BY DEF OwnerInv, Owned
  <2>2. ASSUME NEW s \in Tunnels, conns[s] = got[t] \/ got[s] = got[t] PROVE s = t
    BY <2>1, <2>2 DEF OwnerInv, Owned
  <2> QED
    BY <2>1, <2>2
<1> QED
  BY <1>1, EngineInvariant, PTL

(* config.json keeps the tunnels asked for last when commands overlap, as  *)
(* long as the engine saves nothing itself and no server edits a tunnel;   *)
(* with one command at a time the engine runs the tunnels of the file and  *)
(* a client session has both internal tunnels, whatever the engine saves   *)
(* and the server pushes meanwhile, unless a save outlived its engine.     *)
THEOREM ConfigIsKept == Spec => []ConfigKept
<1>1. EngineInv => ConfigKept
  <2> SUFFICES ASSUME EngineInv PROVE ConfigKept
    OBVIOUS
  <2>1. part = "store" => Store!TunnelsKept
    BY DEF EngineInv, StoreInv, Store!TunnelsKept
  <2>2. ASSUME part = "config" PROVE Config!EngineRunsFile /\ Config!SessionTunnels
    <3>1. Config!Quiet => saving = NoSave /\ Steps = << >>
      BY DEF Config!Quiet, Steps
    <3> QED
      BY <2>2, <3>1, NoCommand DEF EngineInv, Config!EngineRunsFile, Config!SessionTunnels, Config!Internal, Joined
  <2> QED
    BY <2>1, <2>2 DEF ConfigKept
<1> QED
  BY <1>1, EngineInvariant, PTL
=============================================================================
