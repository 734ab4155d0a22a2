---------------------------- MODULE TunnelsProofs ---------------------------
(***************************************************************************)
(* The safety invariants of MCTunnels, for every number of sockets,        *)
(* connections, apps, users and faults: two punching peers agree, by UDP   *)
(* and by TCP, no two running apps have one port, the two sides of an      *)
(* attempt fit each other, and answers reach the user they are for.  The   *)
(* parts of MCTunnels share no state, so the inductive invariant has one   *)
(* conjunct per part.                                                      *)
(***************************************************************************)
EXTENDS MCTunnels, Sequences, TLAPS

-----------------------------------------------------------------------------
(* SymmetricPunch.                                                         *)

(* A connection that the cone side took: the message or its answer is on   *)
(* its way, or a side has read one of them.                                *)
Involved(i) ==
    \/ cone[i] = "reading" \/ sym[i] = "answered"
    \/ <<"sym", i>> \in ack \/ <<"cone", i>> \in ack
    \/ i \in gotCh["cone"] \/ i \in gotCh["sym"]

(* The variables are functions on their domains. *)
Shape ==
    /\ cone \in [Conns -> {"dialling", "dialled", "reading", "ended"}]
    /\ sym \in [Conns -> {"dialling", "reading", "answered", "ended"}]
    /\ success \in [TCPPunch!Sides -> BOOLEAN]
    /\ gotCh \in [TCPPunch!Sides -> SUBSET Conns]
    /\ returned \in [TCPPunch!Sides -> Conns \cup {NoConn, TCPPunch!Error}]

(* The inductive invariant: the flag of the cone side is set before any    *)
(* connection is involved, at most one ever is, and what a side returned   *)
(* came from its channel.                                                  *)
PunchInv ==
    /\ Shape
    /\ \A i \in Conns : Involved(i) => success["cone"]
    /\ \A i, j \in Conns : Involved(i) /\ Involved(j) => i = j
    /\ \A s \in TCPPunch!Sides : returned[s] \in gotCh[s] \cup {NoConn, TCPPunch!Error}

(* A step that involves no further connection, keeps the flag and returns  *)
(* nothing keeps the invariant.                                            *)
LEMMA NoneAdded ==
    ASSUME PunchInv, Shape', success["cone"] => success'["cone"],
           \A i \in Conns : Involved(i)' => Involved(i),
           \A s \in TCPPunch!Sides : gotCh[s] \subseteq gotCh'[s],
           \A s \in TCPPunch!Sides : returned'[s] = returned[s] \/ returned'[s] \in gotCh'[s] \cup {TCPPunch!Error}
    PROVE  PunchInv'
BY DEF PunchInv

(* Every step of a connection keeps the invariant; the CompareAndSwap of   *)
(* TCPPunch!ConeTakes is what lets in one connection only.                          *)
LEMMA StepPunch ==
    ASSUME PunchInv, NEW i \in Conns, TCPPunch!Connects(i) \/ TCPPunch!DialFails(i) \/ TCPPunch!Step(i) \/ TCPPunch!Breaks(i)
    PROVE  PunchInv'
<1>0. Shape
  BY DEF PunchInv
<1>1. CASE TCPPunch!Connects(i)
  <2>1. Shape'
    BY <1>0, <1>1 DEF TCPPunch!Connects, Shape
  <2>2. \A j \in Conns : Involved(j)' => Involved(j)
    BY <1>0, <1>1 DEF TCPPunch!Connects, Shape, Involved
  <2> QED
    BY <1>1, <2>1, <2>2, NoneAdded DEF TCPPunch!Connects
<1>2. CASE TCPPunch!DialFails(i)
  <2>1. Shape'
    BY <1>0, <1>2 DEF TCPPunch!DialFails, Shape
  <2>2. \A j \in Conns : Involved(j)' => Involved(j)
    BY <1>0, <1>2 DEF TCPPunch!DialFails, Shape, Involved
  <2> QED
    BY <1>2, <2>1, <2>2, NoneAdded DEF TCPPunch!DialFails
<1>3. CASE TCPPunch!ConeTakes(i)
  <2>1. Shape' /\ success'["cone"]
    BY <1>0, <1>3 DEF TCPPunch!ConeTakes, Shape, TCPPunch!Sides
  <2>2. \A j \in Conns : ~Involved(j)
    BY <1>3 DEF TCPPunch!ConeTakes, PunchInv
  <2>3. \A j \in Conns : Involved(j)' => j = i
    BY <1>0, <1>3, <2>2 DEF TCPPunch!ConeTakes, Shape, Involved
  <2> QED
    BY <1>3, <2>1, <2>3 DEF TCPPunch!ConeTakes, PunchInv
<1>4. CASE TCPPunch!ConeCloses(i)
  <2>1. Shape'
    BY <1>0, <1>4 DEF TCPPunch!ConeCloses, Shape
  <2>2. \A j \in Conns : Involved(j)' => Involved(j)
    BY <1>0, <1>4 DEF TCPPunch!ConeCloses, Shape, Involved
  <2> QED
    BY <1>4, <2>1, <2>2, NoneAdded DEF TCPPunch!ConeCloses
<1>5. CASE TCPPunch!ConeReads(i)
  <2>1. Shape' /\ \A s \in TCPPunch!Sides : gotCh[s] \subseteq gotCh'[s]
    BY <1>0, <1>5 DEF TCPPunch!ConeReads, Shape, TCPPunch!Sides
  <2>2. \A j \in Conns : Involved(j)' => Involved(j)
    BY <1>0, <1>5 DEF TCPPunch!ConeReads, Shape, Involved, TCPPunch!Sides
  <2> QED
    BY <1>5, <2>1, <2>2, NoneAdded DEF TCPPunch!ConeReads
<1>6. CASE TCPPunch!ReadFails(i)
  <2>1. Shape'
    BY <1>0, <1>6 DEF TCPPunch!ReadFails, Shape
  <2>2. \A j \in Conns : Involved(j)' => Involved(j)
    BY <1>0, <1>6 DEF TCPPunch!ReadFails, Shape, Involved
  <2> QED
    BY <1>6, <2>1, <2>2, NoneAdded DEF TCPPunch!ReadFails
<1>7. CASE TCPPunch!SymAnswers(i)
  <2>1. Shape'
    BY <1>0, <1>7 DEF TCPPunch!SymAnswers, Shape
  <2>2. \A j \in Conns : Involved(j)' => Involved(j)
    BY <1>0, <1>7 DEF TCPPunch!SymAnswers, Shape, Involved
  <2> QED
    BY <1>7, <2>1, <2>2, NoneAdded DEF TCPPunch!SymAnswers
<1>8. CASE TCPPunch!SymTakes(i)
  <2>1. Shape' /\ success'["cone"] = success["cone"] /\ \A s \in TCPPunch!Sides : gotCh[s] \subseteq gotCh'[s]
    BY <1>0, <1>8 DEF TCPPunch!SymTakes, Shape, TCPPunch!Sides
  <2>2. \A j \in Conns : Involved(j)' => Involved(j)
    BY <1>0, <1>8 DEF TCPPunch!SymTakes, Shape, Involved, TCPPunch!Sides
  <2> QED
    BY <1>8, <2>1, <2>2, NoneAdded DEF TCPPunch!SymTakes
<1>9. CASE TCPPunch!Breaks(i)
  <2>1. Shape' /\ \A j \in Conns : Involved(j)' => Involved(j)
    BY <1>0, <1>9 DEF TCPPunch!Breaks, Shape, Involved
  <2> QED
    BY <1>9, <2>1, NoneAdded DEF TCPPunch!Breaks
<1> QED
  BY <1>1, <1>2, <1>3, <1>4, <1>5, <1>6, <1>7, <1>8, <1>9 DEF TCPPunch!Step

(* A side returns a connection from its channel, or times out.             *)
LEMMA ReturnPunch ==
    ASSUME PunchInv, NEW s \in TCPPunch!Sides, TCPPunch!Returns(s) \/ TCPPunch!TimesOut(s)
    PROVE  PunchInv'
<1>0. Shape
  BY DEF PunchInv
<1>1. UNCHANGED <<cone, sym, ack, success, gotCh>>
  BY DEF TCPPunch!Returns, TCPPunch!TimesOut
<1>2. \E r \in gotCh[s] \cup {TCPPunch!Error} : returned' = [returned EXCEPT ![s] = r]
  BY DEF TCPPunch!Returns, TCPPunch!TimesOut
<1>3. Shape' /\ \A z \in TCPPunch!Sides : returned'[z] = returned[z] \/ returned'[z] \in gotCh[z] \cup {TCPPunch!Error}
  BY <1>0, <1>1, <1>2 DEF Shape
<1>4. \A j \in Conns : Involved(j)' => Involved(j)
  BY <1>1 DEF Involved
<1> QED
  BY <1>1, <1>3, <1>4, NoneAdded

(* Nothing is dialled yet. *)
LEMMA PunchInit == TCPPunch!Init => PunchInv
BY DEF TCPPunch!Init, PunchInv, Shape, Involved, TCPPunch!Sides

(* All steps of the two sides. *)
LEMMA PunchNext ==
    ASSUME PunchInv, TCPPunch!Next
    PROVE  PunchInv'
BY StepPunch, ReturnPunch DEF TCPPunch!Next

(* The two sides have returned the connection that is involved. *)
LEMMA PunchAgrees == PunchInv => TCPPunch!SameConn
<1> SUFFICES ASSUME PunchInv, NEW i \in Conns, NEW j \in Conns, returned["cone"] = i, returned["sym"] = j
             PROVE  i = j
  BY DEF TCPPunch!SameConn
<1>1. i \in gotCh["cone"] /\ j \in gotCh["sym"]
  BY ConnAssumption DEF PunchInv, TCPPunch!Sides, TCPPunch!Error
<1> QED
  BY <1>1 DEF PunchInv, Involved

-----------------------------------------------------------------------------
(* HolePunch.  The address of the cone side is fixed by the first packet   *)
(* it reads, it acknowledges only to that address, and a socket gets       *)
(* through only by an acknowledgement, unless it is the only one.          *)
States == {"start", "first", "ack", "ok", "timeout"}
Chosen == pc["cone"] \notin {"start", "first"}

HoleTypes ==
    /\ peerCone \in BOOLEAN /\ pc \in [Punch!Ends -> States] /\ local \in got \cup {"none"}
    /\ \A p \in net : (p.from \in Punch!Live /\ p.to = "cone") \/ (p.from = "cone" /\ p.to \in Punch!Live)
    /\ got \subseteq Punch!Live

HoleInv ==
    /\ HoleTypes
    /\ pc["cone"] \in {"ack", "ok"} => answering \in Punch!Live
    /\ \A p \in net : p.from = "cone" /\ p.type = "Ack" => Chosen /\ p.to = answering
    /\ ~peerCone => \A s \in got : Chosen /\ s = answering

(* Who is live does not change; behind a cone NAT it is one socket.        *)
LEMMA LiveSockets ==
    /\ Punch!Live \subseteq Sockets /\ "cone" \notin Punch!Live
    /\ peerCone => \A s, z \in Punch!Live : s = z
    /\ peerCone' = peerCone => Punch!Live' = Punch!Live
<1>1. (CHOOSE s \in Guessed : TRUE) \in Sockets
  BY SocketAssumption
<1>2. Punch!Live \subseteq Sockets
  BY <1>1 DEF Punch!Live
<1>3. peerCone => \A s, z \in Punch!Live : s = z
  BY DEF Punch!Live
<1>4. peerCone' = peerCone => Punch!Live' = Punch!Live
  BY DEF Punch!Live
<1> QED
  BY <1>2, <1>3, <1>4, SocketAssumption

(* No packet has been sent. *)
LEMMA HoleInit == Punch!Init => HoleInv
BY DEF Punch!Init, HoleInv, HoleTypes, Punch!Ends, States

(* Packets vanish, ends time out, the symmetric side returns. *)
LEMMA HoleShrinks ==
    ASSUME HoleInv, peerCone' = peerCone, net' \subseteq net, got' = got, answering' = answering,
           local' \in got \cup {"none"}, pc' \in [Punch!Ends -> States],
           pc' = pc \/ (pc'["cone"] \in {pc["cone"], "timeout"})
    PROVE  HoleInv'
BY LiveSockets DEF HoleInv, HoleTypes, Chosen

(* Both sides begin: nothing that they send is an acknowledgement.         *)
LEMMA HoleStarts ==
    ASSUME HoleInv, Punch!ConeStarts \/ \E s \in Sockets : Punch!SocketStarts(s)
    PROVE  HoleInv'
<1>1. CASE Punch!ConeStarts
  <2>1. pc' \in [Punch!Ends -> States] /\ pc'["cone"] = "first" /\ pc["cone"] = "start"
    BY <1>1 DEF Punch!ConeStarts, HoleInv, HoleTypes, Punch!Ends, States
  <2>2. net' = net \cup {Punch!Pkt("cone", s, "Handshake") : s \in Punch!Targets}
        /\ UNCHANGED <<peerCone, answering, got, local>>
    BY <1>1 DEF Punch!ConeStarts, Punch!Sends
  <2>3. \A p \in net' : p \in net \/ (p.from = "cone" /\ p.to \in Punch!Live /\ p.type = "Handshake")
    BY <2>2 DEF Punch!Pkt, Punch!Targets
  <2> QED
    BY <2>1, <2>2, <2>3, LiveSockets DEF HoleInv, HoleTypes, Chosen
<1>2. ASSUME NEW s \in Sockets, Punch!SocketStarts(s) PROVE HoleInv'
  <2>1. pc' \in [Punch!Ends -> States] /\ pc'["cone"] = pc["cone"] /\ s \in Punch!Live
    BY <1>2, SocketAssumption DEF Punch!SocketStarts, HoleInv, HoleTypes, Punch!Ends, States
  <2>2. net' = net \cup {Punch!Pkt(s, "cone", "Handshake")} /\ UNCHANGED <<peerCone, answering, got, local>>
    BY <1>2 DEF Punch!SocketStarts, Punch!Sends
  <2>3. \A p \in net' : p \in net \/ (p.from = s /\ p.to = "cone" /\ p.type = "Handshake")
    BY <2>2 DEF Punch!Pkt
  <2> QED
    BY <2>1, <2>2, <2>3, LiveSockets DEF HoleInv, HoleTypes, Chosen
<1> QED
  BY <1>1, <1>2

(* The cone side reads: the first packet settles the address, before any   *)
(* acknowledgement was sent.                                               *)
LEMMA ConeReadsKeeps ==
    ASSUME HoleInv, NEW p \in net, Punch!ConeReads(p)
    PROVE  HoleInv'
<1>0. /\ p.from \in Punch!Live /\ pc["cone"] \in {"first", "ack"}
      /\ UNCHANGED <<peerCone, got, local>>
      /\ answering' = IF pc["cone"] = "first" THEN p.from ELSE answering
  BY LiveSockets DEF Punch!ConeReads, Punch!Reads, HoleInv, HoleTypes
<1>1. pc' \in [Punch!Ends -> States] /\ pc'["cone"] \in {"ack", "ok"}
  <2>1. pc \in [Punch!Ends -> States] /\ "cone" \in Punch!Ends
    BY DEF HoleInv, HoleTypes, Punch!Ends
  <2>2. PICK z \in {"ack", "ok"} : pc' = [pc EXCEPT !["cone"] = z]
    BY <1>0 DEF Punch!ConeReads
  <2> QED
    BY <2>1, <2>2 DEF States
<1>2. answering' \in Punch!Live
  BY <1>0 DEF HoleInv
<1>3. \A q \in net' : q \in net \/ q = Punch!Pkt("cone", answering', "Ack")
  BY <1>0 DEF Punch!ConeReads, Punch!Answer
<1>4. \A q \in net' : q \in net \/ (q.from = "cone" /\ q.to = answering')
  BY <1>3 DEF Punch!Pkt
<1>5. Chosen => answering' = answering
  BY <1>0 DEF Chosen
<1> QED
  BY <1>0, <1>1, <1>2, <1>4, <1>5, LiveSockets DEF HoleInv, HoleTypes, Chosen

(* A socket reads: it gets through by an acknowledgement, which was sent   *)
(* to the address of the cone side, or it is the peer's only one.          *)
LEMMA SocketReadsKeeps ==
    ASSUME HoleInv, NEW s \in Sockets, NEW p \in net, Punch!SocketReads(s, p)
    PROVE  HoleInv'
<1>0. /\ p.from = "cone" /\ p.to = s /\ s \in Punch!Live
      /\ UNCHANGED <<peerCone, answering, local>>
  BY LiveSockets, SocketAssumption DEF Punch!SocketReads, Punch!Reads, HoleInv, HoleTypes
<1>1. pc' \in [Punch!Ends -> States] /\ pc'["cone"] = pc["cone"]
  <2>1. pc \in [Punch!Ends -> States] /\ s \in Punch!Ends /\ s # "cone"
    BY SocketAssumption DEF HoleInv, HoleTypes, Punch!Ends
  <2>2. PICK z \in States : pc' = [pc EXCEPT ![s] = z]
    BY <2>1 DEF Punch!SocketReads, States
  <2> QED
    BY <2>1, <2>2
<1>2. \A q \in net' : q \in net \/ q = Punch!Pkt(s, "cone", "Ack")
  BY DEF Punch!SocketReads, Punch!Answer
<1>3. \A q \in net' : q \in net \/ (q.from = s /\ q.to = "cone")
  BY <1>2 DEF Punch!Pkt
<1>4. got' = got \/ (got' = got \cup {s} /\ (peerCone \/ p.type = "Ack"))
  BY DEF Punch!SocketReads
<1>5. ~peerCone => \A z \in got' : Chosen /\ z = answering
  BY <1>0, <1>4 DEF HoleInv
<1> QED
  BY <1>0, <1>1, <1>3, <1>4, <1>5, LiveSockets, SocketAssumption DEF HoleInv, HoleTypes, Chosen

(* All steps of the two sides and of the network. *)
LEMMA HoleNext ==
    ASSUME HoleInv, Punch!Next
    PROVE  HoleInv'
<1>1. CASE Punch!SymmetricReturns
  BY <1>1, HoleShrinks DEF Punch!SymmetricReturns, HoleInv, HoleTypes
<1>2. ASSUME NEW p \in net, Punch!Drop(p) \/ Punch!Lose(p) PROVE HoleInv'
  <2>1. net' \subseteq net /\ UNCHANGED <<peerCone, pc, answering, got, local>>
    BY <1>2 DEF Punch!Drop, Punch!Lose
  <2> QED
    BY <2>1, HoleShrinks DEF HoleInv, HoleTypes
<1>3. ASSUME NEW e \in Punch!Ends, Punch!Timeout(e) PROVE HoleInv'
  <2>1. pc' = [pc EXCEPT ![e] = "timeout"] /\ UNCHANGED <<peerCone, net, answering, got, local>>
    BY <1>3 DEF Punch!Timeout
  <2>2. pc' \in [Punch!Ends -> States] /\ pc'["cone"] \in {pc["cone"], "timeout"}
    BY <2>1 DEF HoleInv, HoleTypes, Punch!Ends, States
  <2> QED
    BY <2>1, <2>2, HoleShrinks DEF HoleInv, HoleTypes
<1> QED
  BY <1>1, <1>2, <1>3, HoleStarts, ConeReadsKeeps, SocketReadsKeeps DEF Punch!Next, Punch!Arrive

(* The socket that got through is the address of the cone side. *)
LEMMA HoleAgrees == HoleInv => Punch!Agreement
<1> SUFFICES ASSUME HoleInv, pc["cone"] = "ok", local # "none" PROVE local = answering
  BY DEF Punch!Agreement
<1>1. local \in got /\ local \in Punch!Live /\ answering \in Punch!Live
  BY DEF HoleInv, HoleTypes
<1> QED
  BY <1>1, LiveSockets DEF HoleInv, HoleTypes

-----------------------------------------------------------------------------
(* AppTable.  Between the check of AddApp and the store nobody else adds   *)
(* an app, as long as the runtime adds none itself: the port that was free *)
(* stays free.                                                             *)
TableInv ==
    /\ apps = [a \in Table!Apps |-> apps[a]] /\ adds \in Nat
    /\ adds = 0 =>
          /\ embed = None
          /\ \A a, b \in Table!Running : apps[a].port = apps[b].port => a = b
          /\ runner = "start" => Table!FindApp(adding) = {}

(* Nothing runs. *)
LEMMA TableInit == Table!Init => TableInv
BY DEF Table!Init, TableInv, Table!Running

(* A step that starts no app. *)
LEMMA TableShrinks ==
    ASSUME TableInv, apps' = apps \/ \E a \in Table!Apps : apps' = [apps EXCEPT ![a] = None],
           adds' = adds, embed' = embed,
           runner' = "start" => adding' = adding /\ Table!FindApp(adding) = {}
    PROVE  TableInv'
<1>1. apps' = [a \in Table!Apps |-> apps'[a]]
  BY DEF TableInv
<1>2. \A a \in Table!Apps : apps'[a] # None => apps'[a] = apps[a]
  BY DEF TableInv
<1>3. \A a \in Table!Running' : a \in Table!Running /\ apps'[a] = apps[a]
  BY <1>2 DEF Table!Running
<1> QED
  BY <1>1, <1>3 DEF TableInv, Table!FindApp

(* runAll, the pushes and the runtime. *)
LEMMA TableNext ==
    ASSUME TableInv, Table!Next
    PROVE  TableInv'
<1>1. CASE Table!RunAllBegins \/ Table!Walk \/ Table!Copy \/ Table!AddAppChecks
  <2>1. /\ UNCHANGED <<apps, adds, embed>>
        /\ runner' = "start" => adding' = adding /\ Table!FindApp(adding) = {}
    BY <1>1 DEF Table!RunAllBegins, Table!Walk, Table!Copy, Table!AddAppChecks
  <2> QED
    BY <2>1, TableShrinks
<1>2. CASE Table!AddAppStores
  <2>1. PICK a \in Table!FreshApp : apps' = [apps EXCEPT ![a] = adding]
    BY <1>2 DEF Table!AddAppStores
  <2>2. runner = "start" /\ runner' = "walk" /\ UNCHANGED <<adds, embed>>
    BY <1>2 DEF Table!AddAppStores
  <2>3. a \in Table!Apps /\ a \notin Table!Running
    BY <2>1 DEF Table!FreshApp
  <2>4. apps' = [b \in Table!Apps |-> apps'[b]] /\ apps'[a] = adding
        /\ \A b \in Table!Apps : b # a => apps'[b] = apps[b]
    BY <2>1, <2>3 DEF TableInv
  <2>5. \A b \in Table!Running' : b = a \/ (b \in Table!Running /\ apps'[b] = apps[b])
    BY <2>4 DEF Table!Running
  <2>6. adds = 0 => \A b \in Table!Running : apps[b].port # adding.port
    BY <2>2 DEF TableInv, Table!FindApp
  <2> QED
    BY <2>2, <2>4, <2>5, <2>6 DEF TableInv
<1>3. CASE Table!EditAdds \/ \E port \in Ports : Table!EditDeletes(port) \/ \E on \in BOOLEAN : Table!SwitchApp(port, on)
  <2>1. UNCHANGED <<apps, runner, adding, adds, embed>>
    BY <1>3 DEF Table!EditAdds, Table!EditDeletes, Table!SwitchApp
  <2> QED
    BY <2>1 DEF TableInv, Table!Running, Table!FindApp
<1>4. CASE Table!DeleteApp
  <2>1. apps' = apps \/ \E a \in Table!Apps : apps' = [apps EXCEPT ![a] = None]
    BY <1>4 DEF Table!DeleteApp, Table!FindApp, Table!Running
  <2>2. UNCHANGED <<runner, adding, adds, embed>>
    BY <1>4 DEF Table!DeleteApp
  <2>3. CASE adds = 0
    BY <2>1, <2>2, <2>3, TableShrinks DEF TableInv
  <2>4. CASE adds # 0
    BY <2>1, <2>2, <2>4 DEF TableInv
  <2> QED
    BY <2>3, <2>4
<1>5. CASE Table!EmbedConfigures
  BY <1>5 DEF Table!EmbedConfigures, TableInv
<1>6. CASE Table!EmbedStarts
  <2>1. adds # 0 /\ adds' = adds /\ embed' = None
    BY <1>6 DEF Table!EmbedStarts, TableInv
  <2>2. apps' = [a \in Table!Apps |-> apps'[a]]
    BY <1>6 DEF Table!EmbedStarts, TableInv
  <2> QED
    BY <2>1, <2>2 DEF TableInv
<1> QED
  BY <1>1, <1>2, <1>3, <1>4, <1>5, <1>6 DEF Table!Next, Table!RunnerStep, Table!PushStep

-----------------------------------------------------------------------------
(* LinkModes.  Every attempt of every environment fits; the list of        *)
(* attempts is put together from such attempts.                            *)
AllAttempts == [mode : {"intranet", "tcp6", "tcp4", "udp4", "udppunch", "tcppunch"}, server : {0, 1}]

Theirs(a) == Modes!PeerAttempt(a)

FitUnderlay(e, a) ==
    LET mine == Modes!Underlay(a, e.nat, e.peerNat, e.version)
        theirs == Modes!Underlay(Theirs(a), e.peerNat, e.nat, e.version)
    IN <<mine, theirs>> \in Modes!Pairs \/ <<theirs, mine>> \in Modes!Pairs

FitHandshake(e, a) ==
    a.mode = "udppunch" =>
        <<Modes!Handshake(e.nat, e.peerNat), Modes!Handshake(e.peerNat, e.nat)>> \in
            {<<"C2C", "C2C">>, <<"C2S", "S2C">>, <<"S2C", "C2S">>}

FitListener(e, a) ==
    a.mode \in {"tcp4", "udp4"} => IF a.server = 1 THEN e.v4 ELSE e.peerV4

FitAttempts(e) == {a \in AllAttempts : FitUnderlay(e, a) /\ FitHandshake(e, a) /\ FitListener(e, a)}

(* The other side of an attempt. *)
LEMMA TheOtherSide ==
    ASSUME NEW a \in AllAttempts
    PROVE  /\ Theirs(a).mode = a.mode
           /\ Theirs(a).server = 1 <=> a.server # 1
BY DEF AllAttempts, Theirs, Modes!PeerAttempt

(* What connectUnderlay does in each mode. *)
LEMMA UnderlayOf ==
    ASSUME NEW a, NEW nat, NEW peerNat, NEW version
    PROVE  LET own == Modes!Underlay(a, nat, peerNat, version)
           IN  /\ a.mode \in {"udp4", "udppunch"} => own = Modes!UnderlayUDP(a)
               /\ a.mode \in {"tcp4", "intranet"} => own = Modes!UnderlayTCP(a)
               /\ a.mode = "tcp6" => own = IF version >= 3 THEN Modes!UnderlayTCP(a) ELSE Modes!UnderlayTCP6(a)
               /\ a.mode = "tcppunch" => own = IF "symmetric" \in {nat, peerNat}
                                               THEN Modes!UnderlayTCPSymmetric(peerNat) ELSE Modes!UnderlayTCP(a)
<1>1. a.mode \in {"udp4", "udppunch"} => Modes!Underlay(a, nat, peerNat, version) = Modes!UnderlayUDP(a)
  BY DEF Modes!Underlay
<1>2. a.mode \in {"tcp4", "intranet"} => Modes!Underlay(a, nat, peerNat, version) = Modes!UnderlayTCP(a)
  BY DEF Modes!Underlay
<1>3. a.mode = "tcp6" =>
         Modes!Underlay(a, nat, peerNat, version) =
             IF version >= 3 THEN Modes!UnderlayTCP(a) ELSE Modes!UnderlayTCP6(a)
  BY DEF Modes!Underlay
<1>4. a.mode = "tcppunch" =>
         Modes!Underlay(a, nat, peerNat, version) =
             IF "symmetric" \in {nat, peerNat} THEN Modes!UnderlayTCPSymmetric(peerNat) ELSE Modes!UnderlayTCP(a)
  BY DEF Modes!Underlay
<1> QED
  BY <1>1, <1>2, <1>3, <1>4

(* Two ends that fit, whichever side is which. *)
Either(mine, theirs, x, y) == (mine = x /\ theirs = y) \/ (mine = y /\ theirs = x)

(* The four ways of connecting are pairs of ends that fit. *)
LEMMA EndsFit ==
    ASSUME NEW mine, NEW theirs,
           \/ Either(mine, theirs, "tcp listen", "tcp dial") \/ Either(mine, theirs, "quic listen", "quic dial")
           \/ Either(mine, theirs, "punch and read", "punch and write") \/ Either(mine, theirs, "c2s", "s2c")
    PROVE  <<mine, theirs>> \in Modes!Pairs \/ <<theirs, mine>> \in Modes!Pairs
BY DEF Modes!Pairs, Either

(* The underlays fit in every mode: in the listening and punching modes    *)
(* the roles are told, and between a cone and a symmetric NAT they follow  *)
(* the NATs, which are not both symmetric.                                 *)
LEMMA UnderlaysFit ==
    ASSUME NEW e \in Modes!Env, NEW a \in AllAttempts,
           a.mode = "tcppunch" => Modes!OneIsCone(e)
    PROVE  FitUnderlay(e, a)
<1> DEFINE mine == Modes!Underlay(a, e.nat, e.peerNat, e.version)
           theirs == Modes!Underlay(Theirs(a), e.peerNat, e.nat, e.version)
<1>0. e.nat \in {"cone", "symmetric"} /\ e.peerNat \in {"cone", "symmetric"}
  BY DEF Modes!Env, Modes!NAT
<1>1. Theirs(a).mode = a.mode /\ (Theirs(a).server = 1 <=> a.server # 1)
  BY TheOtherSide
<1>2. CASE a.mode \in {"udp4", "udppunch"}
  <2>1. mine = Modes!UnderlayUDP(a) /\ theirs = Modes!UnderlayUDP(Theirs(a))
    BY <1>1, <1>2, UnderlayOf
  <2> HIDE DEF mine, theirs
  <2>2. Either(mine, theirs, "quic listen", "quic dial")
    BY <1>1, <2>1 DEF Modes!UnderlayUDP, Either
  <2> QED
    BY <2>2, EndsFit DEF FitUnderlay, mine, theirs
<1>3. CASE a.mode \in {"tcp4", "intranet"}
  <2>1. mine = Modes!UnderlayTCP(a) /\ theirs = Modes!UnderlayTCP(Theirs(a))
    BY <1>1, <1>3, UnderlayOf
  <2> HIDE DEF mine, theirs
  <2>2. Either(mine, theirs, "tcp listen", "tcp dial")
    BY <1>1, <1>3, <2>1 DEF Modes!UnderlayTCP, Either
  <2> QED
    BY <2>2, EndsFit DEF FitUnderlay, mine, theirs
<1>4. CASE a.mode = "tcp6" /\ ~(e.version >= 3)
  <2>1. mine = Modes!UnderlayTCP6(a) /\ theirs = Modes!UnderlayTCP6(Theirs(a))
    BY <1>1, <1>4, UnderlayOf
  <2> HIDE DEF mine, theirs
  <2>2. Either(mine, theirs, "tcp listen", "tcp dial")
    BY <1>1, <2>1 DEF Modes!UnderlayTCP6, Either
  <2> QED
    BY <2>2, EndsFit DEF FitUnderlay, mine, theirs
<1>5. CASE (a.mode = "tcp6" /\ e.version >= 3) \/ (a.mode = "tcppunch" /\ e.nat = "cone" /\ e.peerNat = "cone")
  <2>1. mine = Modes!UnderlayTCP(a) /\ theirs = Modes!UnderlayTCP(Theirs(a))
    BY <1>1, <1>5, UnderlayOf
  <2> HIDE DEF mine, theirs
  <2>2. Either(mine, theirs, "punch and read", "punch and write")
    BY <1>1, <1>5, <2>1 DEF Modes!UnderlayTCP, Either
  <2> QED
    BY <2>2, EndsFit DEF FitUnderlay, mine, theirs
<1>6. CASE a.mode = "tcppunch" /\ ~(e.nat = "cone" /\ e.peerNat = "cone")
  <2>1. mine = Modes!UnderlayTCPSymmetric(e.peerNat) /\ theirs = Modes!UnderlayTCPSymmetric(e.nat)
    BY <1>0, <1>1, <1>6, UnderlayOf
  <2> HIDE DEF mine, theirs
  <2>2. Either(mine, theirs, "c2s", "s2c")
    BY <1>0, <1>6, <2>1 DEF Modes!UnderlayTCPSymmetric, Modes!OneIsCone, Either
  <2> QED
    BY <2>2, EndsFit DEF FitUnderlay, mine, theirs
<1> QED
  BY <1>2, <1>3, <1>4, <1>5, <1>6 DEF AllAttempts

(* A UDP punch is tried only where one side is behind a cone NAT. *)
LEMMA HandshakesFit ==
    ASSUME NEW e \in Modes!Env, NEW a, a.mode = "udppunch" => Modes!OneIsCone(e)
    PROVE  FitHandshake(e, a)
<1>0. e.nat \in {"cone", "symmetric"} /\ e.peerNat \in {"cone", "symmetric"}
  BY DEF Modes!Env, Modes!NAT
<1>1. CASE e.nat = "cone" /\ e.peerNat = "cone"
  BY <1>1 DEF FitHandshake, Modes!Handshake
<1>2. CASE e.nat = "cone" /\ e.peerNat = "symmetric"
  BY <1>2 DEF FitHandshake, Modes!Handshake
<1>3. CASE e.nat = "symmetric" /\ e.peerNat = "cone"
  BY <1>3 DEF FitHandshake, Modes!Handshake
<1> QED
  BY <1>0, <1>1, <1>2, <1>3 DEF Modes!OneIsCone, FitHandshake

(* An attempt whose conditions hold is one that fits, *)
LEMMA AttemptFits ==
    ASSUME NEW e \in Modes!Env, NEW mode, NEW side \in {0, 1},
           mode \in {"intranet", "tcp6", "tcp4", "udp4", "udppunch", "tcppunch"},
           mode \in {"udppunch", "tcppunch"} => Modes!OneIsCone(e),
           FitListener(e, Modes!Attempt(mode, side))
    PROVE  <<Modes!Attempt(mode, side)>> \in Seq(FitAttempts(e))
<1> DEFINE a == Modes!Attempt(mode, side)
<1>1. a \in AllAttempts /\ a.mode = mode
  BY DEF Modes!Attempt, AllAttempts
<1> HIDE DEF a
<1>2. FitUnderlay(e, a) /\ FitHandshake(e, a)
  BY <1>1, UnderlaysFit, HandshakesFit
<1>3. a \in FitAttempts(e)
  BY <1>1, <1>2 DEF FitAttempts, a
<1> QED
  BY <1>3 DEF a

(* and the attempts of addDirectTunnel are such attempts.                  *)
LEMMA AttemptsFit ==
    ASSUME NEW e \in Modes!Env
    PROVE  Modes!Attempts(e) \in Seq(FitAttempts(e))
<1>0. << >> \in Seq(FitAttempts(e))
  OBVIOUS
<1>1. Modes!Intranet(e) \in Seq(FitAttempts(e))
  <2>1. <<Modes!Attempt("intranet", 0)>> \in Seq(FitAttempts(e))
    BY AttemptFits DEF FitListener, Modes!Attempt
  <2> QED
    BY <1>0, <2>1 DEF Modes!Intranet
<1>2. Modes!TCP6(e) \in Seq(FitAttempts(e))
  <2>1. <<Modes!Attempt("tcp6", 0)>> \in Seq(FitAttempts(e))
    BY AttemptFits DEF FitListener, Modes!Attempt
  <2> QED
    BY <1>0, <2>1 DEF Modes!TCP6
<1>3. Modes!IPv4(e) \in Seq(FitAttempts(e))
  <2>1. ASSUME NEW mode \in {"udp4", "tcp4"}, e.v4
        PROVE  <<Modes!Attempt(mode, 1)>> \in Seq(FitAttempts(e))
    BY <2>1, AttemptFits DEF FitListener, Modes!Attempt
  <2>2. ASSUME NEW mode \in {"udp4", "tcp4"}, e.peerV4
        PROVE  <<Modes!Attempt(mode, 0)>> \in Seq(FitAttempts(e))
    <3>1. FitListener(e, Modes!Attempt(mode, 0))
      BY <2>2 DEF FitListener, Modes!Attempt
    <3> QED
      BY <3>1, AttemptFits
  <2> DEFINE mode == IF e.udpOnly /\ e.version = 4 THEN "udp4" ELSE "tcp4"
  <2>3. mode \in {"udp4", "tcp4"}
    OBVIOUS
  <2>4. Modes!IPv4(e) \in {<< >>} \/ (e.v4 /\ Modes!IPv4(e) = <<Modes!Attempt(mode, 1)>>)
        \/ (e.peerV4 /\ Modes!IPv4(e) = <<Modes!Attempt(mode, 0)>>)
    BY DEF Modes!IPv4
  <2> HIDE DEF mode
  <2> QED
    BY <1>0, <2>1, <2>2, <2>3, <2>4
<1>4. Modes!UDPPunch(e) \in Seq(FitAttempts(e))
  <2>1. Modes!OneIsCone(e) => <<Modes!Attempt("udppunch", 0)>> \in Seq(FitAttempts(e))
    BY AttemptFits DEF FitListener, Modes!Attempt
  <2> QED
    BY <1>0, <2>1 DEF Modes!UDPPunch
<1>5. Modes!TCPPunch(e) \in Seq(FitAttempts(e))
  <2>1. Modes!OneIsCone(e) => <<Modes!Attempt("tcppunch", 0)>> \in Seq(FitAttempts(e))
    BY AttemptFits DEF FitListener, Modes!Attempt
  <2> QED
    BY <1>0, <2>1 DEF Modes!TCPPunch
<1>6. Modes!Primary(e) \in Seq(FitAttempts(e)) /\ Modes!Secondary(e) \in Seq(FitAttempts(e))
  BY <1>4, <1>5 DEF Modes!Primary, Modes!Secondary
<1> QED
  BY <1>1, <1>2, <1>3, <1>6 DEF Modes!Attempts

(* The environment stays and the attempts are counted from 1. *)
ModesInv == env \in Modes!Env /\ trying \in Nat \ {0}

(* The first attempt is next. *)
LEMMA ModesInit == Modes!Init => ModesInv
BY DEF Modes!Init, ModesInv

(* An attempt succeeds or fails. *)
LEMMA ModesNext ==
    ASSUME ModesInv, Modes!Next
    PROVE  ModesInv'
<1>1. env' = env /\ trying' \in {trying, trying + 1}
  BY DEF Modes!Next, Modes!Succeed, Modes!Fail, Modes!GiveUp
<1> QED
  BY <1>1 DEF ModesInv

(* The attempt under way is one of the list. *)
LEMMA ModesFit == ModesInv => SidesFit
<1> SUFFICES ASSUME ModesInv, Modes!Trying
             PROVE  Modes!UnderlaysPair /\ Modes!HandshakesPair /\ Modes!ListenerReachable
  BY DEF SidesFit, Modes!SidesFit
<1>1. Modes!Current \in FitAttempts(env)
  <2>1. Modes!Attempts(env) \in Seq(FitAttempts(env))
    BY AttemptsFit DEF ModesInv
  <2>2. trying \in 1 .. Len(Modes!Attempts(env))
    BY <2>1 DEF ModesInv, Modes!Trying
  <2> QED
    BY <2>1, <2>2 DEF Modes!Current
<1> QED
  BY <1>1 DEF FitAttempts, FitUnderlay, FitHandshake, FitListener, Theirs,
       Modes!UnderlaysPair, Modes!HandshakesPair, Modes!ListenerReachable

-----------------------------------------------------------------------------
(* Overlay, for the users us over the tunnels ts, of whom those in one     *)
(* share a port number: a payload and its answer carry the id of the user  *)
(* that sent it, or of one who shares its port; and a connection that can  *)
(* be written to was created for such a user.                              *)
Kin(u, v, one) == u = v \/ (u \in one /\ v \in one)

Messages(us, one) ==
    {m \in [type : {"connect", "data", "disconnect"}, id : us, from : us \cup {None}] :
        m.type = "data" => Kin(m.from, m.id, one)}

Boxes(us, ts, one) == [ts -> Seq(Messages(us, one))]
ClientStates == {"none", "stored", "run", "stopped"}
Live == {"stored", "run"}

OverlayInv(us, ts, one) ==
    /\ client \in [us -> ClientStates] /\ remote \in [us -> us \cup {None}]
    /\ toPeer \in Boxes(us, ts, one) /\ toUs \in Boxes(us, ts, one)
    /\ \A i \in us : client[i] \in Live => Kin(remote[i], i, one)
    /\ strays \subseteq one \X one

(* The two instances. *)
IsTCP(us, ts, one) == us = Users /\ ts = Tunnels /\ one = {}
IsUDP(us, ts, one) == us = UDPUsers /\ ts = {Tunnel} /\ one = OnePort

(* A message is sent, *)
LEMMA Sent ==
    ASSUME NEW us, NEW ts, NEW one, NEW box \in Boxes(us, ts, one), NEW t \in ts, NEW m \in Messages(us, one)
    PROVE  [box EXCEPT ![t] = @ \o <<m>>] \in Boxes(us, ts, one)
<1> DEFINE M == Messages(us, one)
<1>1. box \in [ts -> Seq(M)] /\ m \in M
  BY DEF Boxes
<1> HIDE DEF M
<1>2. box[t] \o <<m>> \in Seq(M)
  <2>1. box[t] \in Seq(M) /\ <<m>> \in Seq(M)
    BY <1>1
  <2> QED
    BY <2>1
<1>3. [box EXCEPT ![t] = @ \o <<m>>] \in [ts -> Seq(M)]
  BY <1>1, <1>2
<1> QED
  BY <1>3 DEF Boxes, M

(* and the first one of a tunnel is received.                              *)
LEMMA Received ==
    ASSUME NEW us, NEW ts, NEW one, NEW box \in Boxes(us, ts, one), NEW t \in ts, box[t] # << >>
    PROVE  Head(box[t]) \in Messages(us, one) /\ [box EXCEPT ![t] = Tail(@)] \in Boxes(us, ts, one)
<1> DEFINE M == Messages(us, one)
<1>1. box \in [ts -> Seq(M)]
  BY DEF Boxes
<1> HIDE DEF M
<1>2. Head(box[t]) \in M /\ Tail(box[t]) \in Seq(M)
  <2>1. box[t] \in Seq(M)
    BY <1>1
  <2> QED
    BY <2>1
<1>3. [box EXCEPT ![t] = Tail(@)] \in [ts -> Seq(M)]
  BY <1>1, <1>2
<1> QED
  BY <1>2, <1>3 DEF Boxes, M

(* What is on its way changes by a message at most. *)
LEMMA Grown ==
    ASSUME NEW us, NEW ts, NEW one, NEW box \in Boxes(us, ts, one), NEW next,
           next = box \/ \E t \in ts : \E m \in Messages(us, one) : next = [box EXCEPT ![t] = @ \o <<m>>]
    PROVE  next \in Boxes(us, ts, one)
<1>1. ASSUME NEW t \in ts, NEW m \in Messages(us, one), next = [box EXCEPT ![t] = @ \o <<m>>]
      PROVE  next \in Boxes(us, ts, one)
  <2>1. [box EXCEPT ![t] = @ \o <<m>>] \in Boxes(us, ts, one)
    BY Sent, Zenon
  <2> QED
    BY <1>1, <2>1, Zenon
<1> QED
  BY <1>1, Zenon

(* An id is a user's own, or that of one who shares its port.              *)
LEMMA Ids ==
    /\ \A u \in Users : TCP!overlayID(u) = u
    /\ \A u \in UDPUsers : UDP!overlayID(u) \in UDPUsers /\ Kin(u, UDP!overlayID(u), OnePort)
<1>1. \A u \in Users : TCP!overlayID(u) = u
  BY DEF TCP!overlayID
<1>2. ASSUME NEW u \in UDPUsers PROVE UDP!overlayID(u) \in UDPUsers /\ Kin(u, UDP!overlayID(u), OnePort)
  <2>1. CASE u \in OnePort
    <3>1. UDP!overlayID(u) = CHOOSE v \in OnePort : TRUE
      BY <2>1 DEF UDP!overlayID
    <3>2. (CHOOSE v \in OnePort : TRUE) \in OnePort
      BY <2>1
    <3> QED
      BY <2>1, <3>1, <3>2, UserAssumption DEF Kin
  <2>2. CASE u \notin OnePort
    BY <2>2 DEF UDP!overlayID, Kin
  <2> QED
    BY <2>1, <2>2
<1> QED
  BY <1>1, <1>2

(* There are no messages yet. *)
LEMMA OverlayInit ==
    ASSUME NEW us, NEW ts, NEW one, (IsTCP(us, ts, one) /\ TCP!Init) \/ (IsUDP(us, ts, one) /\ UDP!Init)
    PROVE  OverlayInv(us, ts, one)
<1>1. /\ client = [i \in us |-> "none"] /\ remote = [i \in us |-> None]
      /\ toPeer = [t \in ts |-> << >>] /\ toUs = [t \in ts |-> << >>] /\ strays = {}
  BY DEF TCP!Init, UDP!Init, IsTCP, IsUDP
<1> QED
  BY <1>1 DEF OverlayInv, Boxes, ClientStates, Live

(* A step that takes no user on: connections go on or end, nothing is      *)
(* delivered to a user.                                                    *)
LEMMA OverlayGoesOn ==
    ASSUME NEW us, NEW ts, NEW one, OverlayInv(us, ts, one), strays' = strays,
           client' \in [us -> ClientStates], remote' \in [us -> us \cup {None}],
           \A i \in us : client'[i] \in Live => client[i] \in Live /\ remote'[i] = remote[i],
           toPeer' \in Boxes(us, ts, one), toUs' \in Boxes(us, ts, one)
    PROVE  OverlayInv(us, ts, one)'
BY DEF OverlayInv

(* The same if only what is on its way to the peer changes, by a message.  *)
LEMMA OverlaySends ==
    ASSUME NEW us, NEW ts, NEW one, OverlayInv(us, ts, one), UNCHANGED <<remote, toUs, strays>>,
           client' \in [us -> ClientStates], \A i \in us : client'[i] \in Live => client[i] \in Live,
           toPeer' = toPeer \/ \E t \in ts : \E m \in Messages(us, one) : toPeer' = [toPeer EXCEPT ![t] = @ \o <<m>>]
    PROVE  OverlayInv(us, ts, one)'
<1>1. toPeer' \in Boxes(us, ts, one)
  <2>1. toPeer \in Boxes(us, ts, one)
    BY DEF OverlayInv
  <2> QED
    BY <2>1, Grown, Zenon
<1>2. toUs' \in Boxes(us, ts, one) /\ remote' \in [us -> us \cup {None}] /\ remote' = remote
  BY DEF OverlayInv
<1> QED
  BY <1>1, <1>2, OverlayGoesOn

(* What the listener of an app does, and Close.                            *)
LEMMA OverlayLocal ==
    ASSUME NEW us, NEW ts, NEW one, OverlayInv(us, ts, one),
           \/ IsTCP(us, ts, one) /\ (TCP!Listening \/ TCP!CloseBegins \/ TCP!Closing)
           \/ IsUDP(us, ts, one) /\ (UDP!Listening \/ UDP!CloseBegins \/ UDP!Closing)
    PROVE  OverlayInv(us, ts, one)'
<1>0. client \in [us -> ClientStates]
  BY DEF OverlayInv
<1>1. CASE UNCHANGED <<client, remote, toPeer, toUs, strays>>
  BY <1>0, <1>1, OverlaySends
<1>2. CASE TCP!Create \/ TCP!Check \/ TCP!AcceptFails \/ TCP!CloseBegins \/ TCP!CloseListener \/ TCP!CloseReturns
  BY <1>1, <1>2 DEF TCP!Create, TCP!Check, TCP!AcceptFails, TCP!CloseBegins, TCP!CloseListener, TCP!CloseReturns,
       TCP!conns, TCP!history
<1>3. CASE UDP!Create \/ UDP!Check \/ UDP!AcceptFails \/ UDP!CloseBegins \/ UDP!CloseListener \/ UDP!CloseReturns
  BY <1>1, <1>3 DEF UDP!Create, UDP!Check, UDP!AcceptFails, UDP!CloseBegins, UDP!CloseListener, UDP!CloseReturns,
       UDP!conns, UDP!history
<1>4. CASE (IsTCP(us, ts, one) /\ TCP!closeOverlayConns) \/ (IsUDP(us, ts, one) /\ UDP!closeOverlayConns)
  <2>1. /\ client' = [i \in us |-> IF client[i] \in {"stored", "run"} THEN "stopped" ELSE client[i]]
        /\ UNCHANGED <<remote, toPeer, toUs, strays>>
    BY <1>4 DEF TCP!closeOverlayConns, UDP!closeOverlayConns, IsTCP, IsUDP, TCP!history, UDP!history
  <2>2. client' \in [us -> ClientStates] /\ \A i \in us : client'[i] \in Live => client[i] \in Live
    BY <1>0, <2>1 DEF ClientStates, Live
  <2> QED
    BY <2>1, <2>2, OverlaySends
<1>5. CASE \/ IsTCP(us, ts, one) /\ \E u \in Users : TCP!Answered(u)
           \/ IsUDP(us, ts, one) /\ \E u \in UDPUsers : UDP!Answered(u)
  <2>1. /\ \E j \in us : client' = [client EXCEPT ![j] = IF @ = "stored" THEN "run" ELSE @]
        /\ toPeer' = toPeer \/ \E t \in ts : \E m \in Messages(us, one) : toPeer' = [toPeer EXCEPT ![t] = @ \o <<m>>]
        /\ UNCHANGED <<remote, toUs, strays>>
    <3>1. CASE IsTCP(us, ts, one) /\ \E u \in Users : TCP!Answered(u)
      BY <3>1, Ids DEF TCP!Answered, TCP!history, IsTCP
    <3>2. CASE IsUDP(us, ts, one) /\ \E u \in UDPUsers : UDP!Answered(u)
      <4>1. PICK u \in UDPUsers : UDP!Answered(u)
        BY <3>2
      <4>2. UDP!Message("data", UDP!overlayID(u), u) \in Messages(us, one)
        BY <3>2, Ids DEF UDP!Message, Messages, IsUDP
      <4> QED
        BY <3>2, <4>1, <4>2, Ids DEF UDP!Answered, UDP!Send, UDP!history, IsUDP
    <3> QED
      BY <1>5, <3>1, <3>2
  <2>2. client' \in [us -> ClientStates] /\ \A i \in us : client'[i] \in Live => client[i] \in Live
    BY <1>0, <2>1 DEF ClientStates, Live
  <2> QED
    BY <2>1, <2>2, OverlaySends
<1> QED
  BY <1>2, <1>3, <1>4, <1>5 DEF TCP!Listening, UDP!Listening, TCP!Closing, UDP!Closing

(* A user sends. *)
LEMMA OverlayUsers ==
    ASSUME NEW us, NEW ts, NEW one, OverlayInv(us, ts, one),
           \/ IsTCP(us, ts, one) /\ \E u \in Users : TCP!UserSends(u)
           \/ IsUDP(us, ts, one) /\ \E u \in UDPUsers : UDP!UserSends(u)
    PROVE  OverlayInv(us, ts, one)'
<1>1. /\ \E t \in ts : \E m \in Messages(us, one) : toPeer' = [toPeer EXCEPT ![t] = @ \o <<m>>]
      /\ UNCHANGED <<client, remote, toUs, strays>>
  <2>1. ASSUME IsTCP(us, ts, one), NEW u \in Users, TCP!UserSends(u) PROVE <1>1!:
    <3>1. TCP!Message("data", TCP!overlayID(u), u) \in Messages(us, one)
      BY <2>1, Ids DEF TCP!Message, Messages, IsTCP, Kin
    <3> QED
      BY <2>1, <3>1 DEF TCP!UserSends, TCP!Send, TCP!conns, TCP!history, IsTCP
  <2>2. ASSUME IsUDP(us, ts, one), NEW u \in UDPUsers, UDP!UserSends(u) PROVE <1>1!:
    <3>1. UDP!Message("data", UDP!overlayID(u), u) \in Messages(us, one)
      BY <2>2, Ids DEF UDP!Message, Messages, IsUDP
    <3> QED
      BY <2>2, <3>1 DEF UDP!UserSends, UDP!Send, UDP!conns, UDP!history, IsUDP
  <2> QED
    BY <2>1, <2>2
<1> QED
  BY <1>1, OverlaySends DEF OverlayInv

(* A user is taken on. *)
LEMMA OverlayAccepts ==
    ASSUME NEW us, NEW ts, NEW one, OverlayInv(us, ts, one),
           \/ IsTCP(us, ts, one) /\ \E u \in Users : TCP!AcceptNew(u)
           \/ IsUDP(us, ts, one) /\ \E u \in UDPUsers : UDP!AcceptNew(u)
    PROVE  OverlayInv(us, ts, one)'
<1>1. \E u, i \in us :
         /\ Kin(u, i, one)
         /\ client' = [client EXCEPT ![i] = "stored"] /\ remote' = [remote EXCEPT ![i] = u]
         /\ \E t \in ts : \E m \in Messages(us, one) : toPeer' = [toPeer EXCEPT ![t] = @ \o <<m>>]
         /\ UNCHANGED <<toUs, strays>>
  <2>1. ASSUME IsTCP(us, ts, one), NEW u \in Users, TCP!AcceptNew(u) PROVE <1>1!:
    <3>1. TCP!Message("connect", TCP!overlayID(u), u) \in Messages(us, one) /\ TCP!overlayID(u) = u /\ Kin(u, u, one)
      BY <2>1, Ids DEF TCP!Message, Messages, IsTCP, Kin
    <3> QED
      BY <2>1, <3>1 DEF TCP!AcceptNew, TCP!Send, TCP!history, IsTCP
  <2>2. ASSUME IsUDP(us, ts, one), NEW u \in UDPUsers, UDP!AcceptNew(u) PROVE <1>1!:
    <3>1. UDP!Message("connect", UDP!overlayID(u), u) \in Messages(us, one) /\ Kin(u, UDP!overlayID(u), one)
      BY <2>2, Ids DEF UDP!Message, Messages, IsUDP
    <3> QED
      BY <2>2, <3>1, Ids DEF UDP!AcceptNew, UDP!Send, UDP!history, IsUDP
  <2> QED
    BY <2>1, <2>2
<1>2. toPeer' \in Boxes(us, ts, one)
  <2>1. toPeer \in Boxes(us, ts, one)
    BY DEF OverlayInv
  <2> QED
    BY <1>1, <2>1, Grown, Zenon
<1> QED
  BY <1>1, <1>2 DEF OverlayInv, ClientStates, Live

(* The peer receives, and its connections end.                             *)
LEMMA OverlayPeer ==
    ASSUME NEW us, NEW ts, NEW one, OverlayInv(us, ts, one),
           \/ /\ IsTCP(us, ts, one)
              /\ \/ \E t \in Tunnels : TCP!HandleConnect(t) \/ TCP!HandleData(t) \/ TCP!HandleDisconnect(t)
                 \/ \E i \in Users : TCP!ServerEnds(i)
           \/ /\ IsUDP(us, ts, one)
              /\ \/ \E t \in {Tunnel} : UDP!HandleConnect(t) \/ UDP!HandleData(t) \/ UDP!HandleDisconnect(t)
                 \/ \E i \in UDPUsers : UDP!ServerEnds(i)
    PROVE  OverlayInv(us, ts, one)'
<1>0. toPeer \in Boxes(us, ts, one) /\ toUs \in Boxes(us, ts, one)
  BY DEF OverlayInv
<1>1. /\ UNCHANGED <<client, remote, strays>>
      /\ \/ \E t \in ts :
               /\ toPeer[t] # << >> /\ toPeer' = [toPeer EXCEPT ![t] = Tail(@)]
               /\ toUs' = toUs \/ \E s \in ts : toUs' = [toUs EXCEPT ![s] = @ \o <<Head(toPeer[t])>>]
         \/ /\ \E t \in ts : \E m \in Messages(us, one) : toUs' = [toUs EXCEPT ![t] = @ \o <<m>>]
            /\ toPeer' = toPeer
  <2>1. ASSUME IsTCP(us, ts, one), NEW t \in Tunnels, TCP!HandleConnect(t) \/ TCP!HandleData(t) \/ TCP!HandleDisconnect(t)
        PROVE <1>1!:
    BY <2>1 DEF TCP!HandleConnect, TCP!HandleData, TCP!HandleDisconnect, TCP!Send, TCP!conns, TCP!history, IsTCP
  <2>2. ASSUME IsUDP(us, ts, one), NEW t \in {Tunnel}, UDP!HandleConnect(t) \/ UDP!HandleData(t) \/ UDP!HandleDisconnect(t)
        PROVE <1>1!:
    BY <2>2 DEF UDP!HandleConnect, UDP!HandleData, UDP!HandleDisconnect, UDP!Send, UDP!conns, UDP!history, IsUDP
  <2>3. ASSUME NEW i \in us
        PROVE  /\ TCP!Message("disconnect", i, None) \in Messages(us, one)
               /\ UDP!Message("disconnect", i, None) \in Messages(us, one)
    BY DEF TCP!Message, UDP!Message, Messages
  <2>4. ASSUME IsTCP(us, ts, one), NEW i \in Users, TCP!ServerEnds(i) PROVE <1>1!:
    BY <2>3, <2>4 DEF TCP!ServerEnds, TCP!Send, TCP!conns, TCP!history, IsTCP
  <2>5. ASSUME IsUDP(us, ts, one), NEW i \in UDPUsers, UDP!ServerEnds(i) PROVE <1>1!:
    BY <2>3, <2>5 DEF UDP!ServerEnds, UDP!Send, UDP!conns, UDP!history, IsUDP
  <2> QED
    BY <2>1, <2>2, <2>4, <2>5
<1>2. toPeer' \in Boxes(us, ts, one) /\ toUs' \in Boxes(us, ts, one)
  <2>1. ASSUME NEW t \in ts, toPeer[t] # << >>, toPeer' = [toPeer EXCEPT ![t] = Tail(@)],
               toUs' = toUs \/ \E s \in ts : toUs' = [toUs EXCEPT ![s] = @ \o <<Head(toPeer[t])>>]
        PROVE  toPeer' \in Boxes(us, ts, one) /\ toUs' \in Boxes(us, ts, one)
    <3>1. Head(toPeer[t]) \in Messages(us, one) /\ toPeer' \in Boxes(us, ts, one)
      BY <1>0, <2>1, Received
    <3>2. toUs' \in Boxes(us, ts, one)
      BY <1>0, <2>1, <3>1, Grown, Zenon
    <3> QED
      BY <3>1, <3>2
  <2>2. ASSUME \E t \in ts : \E m \in Messages(us, one) : toUs' = [toUs EXCEPT ![t] = @ \o <<m>>], toPeer' = toPeer
        PROVE  toPeer' \in Boxes(us, ts, one) /\ toUs' \in Boxes(us, ts, one)
    <3>1. toUs' \in Boxes(us, ts, one)
      BY <1>0, <2>2, Grown, Zenon
    <3> QED
      BY <1>0, <2>2, <3>1
  <2> QED
    BY <1>1, <2>1, <2>2
<1>3. client' \in [us -> ClientStates] /\ remote' \in [us -> us \cup {None}] /\ UNCHANGED <<client, remote, strays>>
  BY <1>1 DEF OverlayInv
<1> QED
  BY <1>2, <1>3, OverlayGoesOn

(* This node receives an answer: it is written to the user of the          *)
(* connection, who shares its port with the sender if it is not the same.  *)
LEMMA OverlayWrites ==
    ASSUME NEW us, NEW ts, NEW one, OverlayInv(us, ts, one),
           \/ IsTCP(us, ts, one) /\ \E t \in Tunnels : TCP!ReceiveData(t)
           \/ IsUDP(us, ts, one) /\ \E t \in {Tunnel} : UDP!ReceiveData(t)
    PROVE  OverlayInv(us, ts, one)'
<1>0. client \in [us -> ClientStates] /\ toUs \in Boxes(us, ts, one) /\ toPeer \in Boxes(us, ts, one)
      /\ remote \in [us -> us \cup {None}]
  BY DEF OverlayInv
<1>1. PICK t \in ts :
         /\ toUs[t] # << >> /\ toUs' = [toUs EXCEPT ![t] = Tail(@)] /\ UNCHANGED <<remote, toPeer>>
         /\ Head(toUs[t]).type = "data"
         /\ LET m == Head(toUs[t]) IN
            \/ UNCHANGED <<client, strays>>
            \/ /\ client[m.id] \in {"stored", "run"} /\ client' = client
               /\ strays' = strays \cup ({<<m.from, remote[m.id]>>} \ {<<m.from, m.from>>})
            \/ client' = [client EXCEPT ![m.id] = "stopped"] /\ strays' = strays
  BY DEF TCP!ReceiveData, UDP!ReceiveData, IsTCP, IsUDP
<1> DEFINE m == Head(toUs[t])
<1>2. m \in Messages(us, one) /\ toUs' \in Boxes(us, ts, one) /\ m.type = "data"
  BY <1>0, <1>1, Received
<1> HIDE DEF m
<1>3. m.id \in us /\ Kin(m.from, m.id, one)
  BY <1>2 DEF Messages
<1>4. CASE UNCHANGED <<client, strays>>
  BY <1>0, <1>1, <1>2, <1>4, OverlayGoesOn
<1>5. CASE /\ client[m.id] \in {"stored", "run"} /\ client' = client
           /\ strays' = strays \cup ({<<m.from, remote[m.id]>>} \ {<<m.from, m.from>>})
  <2>1. Kin(remote[m.id], m.id, one)
    BY <1>3, <1>5 DEF OverlayInv, Live
  <2>2. m.from # remote[m.id] => m.from \in one /\ remote[m.id] \in one
    BY <1>3, <2>1 DEF Kin
  <2>3. strays' \subseteq one \X one
    BY <1>5, <2>2 DEF OverlayInv
  <2> QED
    BY <1>0, <1>1, <1>2, <1>5, <2>3 DEF OverlayInv
<1>6. CASE client' = [client EXCEPT ![m.id] = "stopped"] /\ strays' = strays
  <2>1. client' \in [us -> ClientStates] /\ \A i \in us : client'[i] \in Live => client[i] \in Live
    BY <1>0, <1>6 DEF ClientStates, Live
  <2> QED
    BY <1>0, <1>1, <1>2, <1>6, <2>1, OverlayGoesOn
<1> QED
  BY <1>1, <1>4, <1>5, <1>6 DEF m

(* This node is told of an end, and its connections end. *)
LEMMA OverlayEnds ==
    ASSUME NEW us, NEW ts, NEW one, OverlayInv(us, ts, one),
           \/ /\ IsTCP(us, ts, one)
              /\ (\E t \in Tunnels : TCP!ReceiveDisconnect(t)) \/ (\E i \in Users : TCP!ClientEnds(i))
           \/ /\ IsUDP(us, ts, one)
              /\ (\E t \in {Tunnel} : UDP!ReceiveDisconnect(t)) \/ (\E i \in UDPUsers : UDP!ClientEnds(i))
    PROVE  OverlayInv(us, ts, one)'
<1>0. client \in [us -> ClientStates] /\ toUs \in Boxes(us, ts, one) /\ toPeer \in Boxes(us, ts, one)
      /\ remote \in [us -> us \cup {None}]
  BY DEF OverlayInv
<1>1. CASE \/ IsTCP(us, ts, one) /\ \E t \in Tunnels : TCP!ReceiveDisconnect(t)
           \/ IsUDP(us, ts, one) /\ \E t \in {Tunnel} : UDP!ReceiveDisconnect(t)
  <2>1. PICK t \in ts :
           /\ toUs[t] # << >> /\ toUs' = [toUs EXCEPT ![t] = Tail(@)] /\ UNCHANGED <<remote, toPeer, strays>>
           /\ client' = client \/ client' = [client EXCEPT ![Head(toUs[t]).id] = "stopped"]
    BY <1>1 DEF TCP!ReceiveDisconnect, UDP!ReceiveDisconnect, TCP!history, UDP!history, IsTCP, IsUDP
  <2>2. toUs' \in Boxes(us, ts, one)
    BY <1>0, <2>1, Received
  <2>3. client' \in [us -> ClientStates] /\ \A j \in us : client'[j] \in Live => client[j] \in Live
    BY <1>0, <2>1 DEF ClientStates, Live
  <2> QED
    BY <1>0, <2>1, <2>2, <2>3, OverlayGoesOn
<1>2. CASE \/ IsTCP(us, ts, one) /\ \E i \in Users : TCP!ClientEnds(i)
           \/ IsUDP(us, ts, one) /\ \E i \in UDPUsers : UDP!ClientEnds(i)
  <2>1. PICK i \in us :
           /\ client' = [client EXCEPT ![i] = "none"] /\ remote' = [remote EXCEPT ![i] = None]
           /\ \E t \in ts : \E m \in Messages(us, one) : toPeer' = [toPeer EXCEPT ![t] = @ \o <<m>>]
           /\ UNCHANGED <<toUs, strays>>
    <3>1. ASSUME NEW i \in us
          PROVE  /\ TCP!Message("disconnect", i, None) \in Messages(us, one)
                 /\ UDP!Message("disconnect", i, None) \in Messages(us, one)
      BY DEF TCP!Message, UDP!Message, Messages
    <3> QED
      BY <1>2, <3>1 DEF TCP!ClientEnds, UDP!ClientEnds, TCP!Send, UDP!Send, TCP!history, UDP!history, IsTCP, IsUDP
  <2>2. toPeer' \in Boxes(us, ts, one)
    BY <1>0, <2>1, Grown, Zenon
  <2>3. /\ client' \in [us -> ClientStates] /\ remote' \in [us -> us \cup {None}]
        /\ \A j \in us : client'[j] \in Live => client[j] \in Live /\ remote'[j] = remote[j]
    BY <1>0, <2>1 DEF ClientStates, Live
  <2> QED
    BY <1>0, <2>1, <2>2, <2>3, OverlayGoesOn
<1> QED
  BY <1>1, <1>2

(* All steps of a tcp app and of a udp app. *)
LEMMA OverlayNext ==
    /\ OverlayInv(Users, Tunnels, {}) /\ TCP!Next => OverlayInv(Users, Tunnels, {})'
    /\ OverlayInv(UDPUsers, {Tunnel}, OnePort) /\ UDP!Next => OverlayInv(UDPUsers, {Tunnel}, OnePort)'
<1>1. IsTCP(Users, Tunnels, {}) /\ IsUDP(UDPUsers, {Tunnel}, OnePort)
  BY DEF IsTCP, IsUDP
<1>2. ASSUME OverlayInv(Users, Tunnels, {}), TCP!Next PROVE OverlayInv(Users, Tunnels, {})'
  BY <1>1, <1>2, OverlayLocal, OverlayUsers, OverlayAccepts, OverlayPeer, OverlayWrites, OverlayEnds
     DEF TCP!Next, TCP!Delivery
<1>3. ASSUME OverlayInv(UDPUsers, {Tunnel}, OnePort), UDP!Next PROVE OverlayInv(UDPUsers, {Tunnel}, OnePort)'
  BY <1>1, <1>3, OverlayLocal, OverlayUsers, OverlayAccepts, OverlayPeer, OverlayWrites, OverlayEnds
     DEF UDP!Next, UDP!Delivery
<1> QED
  BY <1>2, <1>3

-----------------------------------------------------------------------------
(* The inductive invariant: one conjunct per part.                         *)
TunnelsInv ==
    /\ TableInv /\ ModesInv /\ HoleInv /\ PunchInv
    /\ part # "udp" => OverlayInv(Users, Tunnels, {})
    /\ part = "udp" => OverlayInv(UDPUsers, {Tunnel}, OnePort)

vars == <<part, tableVars, tunnelVars, modeVars, punchVars, overlayVars>>

(* It holds in every initial state, *)
LEMMA TunnelsInit == Init => TunnelsInv
<1> SUFFICES ASSUME Init PROVE TunnelsInv
  OBVIOUS
<1>1. Table!Init /\ Modes!Init /\ Punch!Init /\ TCPPunch!Init
  BY DEF Init
<1>2. part # "udp" => OverlayInv(Users, Tunnels, {})
  BY OverlayInit DEF Init, IsTCP
<1>3. part = "udp" => OverlayInv(UDPUsers, {Tunnel}, OnePort)
  BY OverlayInit DEF Init, IsUDP
<1> QED
  BY <1>1, <1>2, <1>3, TableInit, ModesInit, HoleInit, PunchInit DEF TunnelsInv

(* none of its conjuncts reads the variables of another part, *)
LEMMA TunnelsApart ==
    /\ TableInv /\ UNCHANGED tableVars => TableInv'
    /\ ModesInv /\ UNCHANGED modeVars => ModesInv'
    /\ HoleInv /\ UNCHANGED udpPunchVars => HoleInv'
    /\ PunchInv /\ UNCHANGED tcpPunchVars => PunchInv'
    /\ OverlayInv(Users, Tunnels, {}) /\ UNCHANGED overlayVars => OverlayInv(Users, Tunnels, {})'
    /\ OverlayInv(UDPUsers, {Tunnel}, OnePort) /\ UNCHANGED overlayVars => OverlayInv(UDPUsers, {Tunnel}, OnePort)'
<1>1. TableInv /\ UNCHANGED tableVars => TableInv'
  BY DEF TableInv, Table!Running, Table!FindApp, tableVars
<1>2. ModesInv /\ UNCHANGED modeVars => ModesInv'
  BY DEF ModesInv, modeVars
<1>3. HoleInv /\ UNCHANGED udpPunchVars => HoleInv'
  BY LiveSockets DEF HoleInv, HoleTypes, Chosen, udpPunchVars
<1>4. PunchInv /\ UNCHANGED tcpPunchVars => PunchInv'
  BY DEF PunchInv, Shape, Involved, tcpPunchVars
<1>5. ASSUME NEW us, NEW ts, NEW one, OverlayInv(us, ts, one), UNCHANGED overlayVars PROVE OverlayInv(us, ts, one)'
  BY <1>5 DEF OverlayInv, overlayVars
<1> QED
  BY <1>1, <1>2, <1>3, <1>4, <1>5

(* and every step of every part keeps it. *)
LEMMA TunnelsNext == TunnelsInv /\ [Next]_vars => TunnelsInv'
<1> SUFFICES ASSUME TunnelsInv, [Next]_vars PROVE TunnelsInv'
  OBVIOUS
<1> USE TunnelsApart
<1>0. CASE UNCHANGED vars
  BY <1>0 DEF TunnelsInv, vars, punchVars
<1>1. CASE UNCHANGED part /\ Table!Next /\ UNCHANGED <<tunnelVars, modeVars, punchVars, overlayVars>>
  BY <1>1, TableNext DEF TunnelsInv, punchVars
<1>2. CASE UNCHANGED part /\ UNCHANGED <<tableVars, modeVars, punchVars, overlayVars>>
  BY <1>2 DEF TunnelsInv, punchVars
<1>3. CASE UNCHANGED part /\ Modes!Next /\ UNCHANGED <<tableVars, tunnelVars, punchVars, overlayVars>>
  BY <1>3, ModesNext DEF TunnelsInv, punchVars
<1>4. CASE UNCHANGED part /\ Punch!Next /\ UNCHANGED <<tableVars, tunnelVars, modeVars, tcpPunchVars, overlayVars>>
  BY <1>4, HoleNext DEF TunnelsInv
<1>5. CASE UNCHANGED part /\ TCPPunch!Next /\ UNCHANGED <<tableVars, tunnelVars, modeVars, udpPunchVars, overlayVars>>
  BY <1>5, PunchNext DEF TunnelsInv
<1>6. CASE UNCHANGED part /\ part = "tcp" /\ TCP!Next /\ UNCHANGED <<tableVars, tunnelVars, modeVars, punchVars>>
  BY <1>6, OverlayNext DEF TunnelsInv, punchVars
<1>7. CASE UNCHANGED part /\ part = "udp" /\ UDP!Next /\ UNCHANGED <<tableVars, tunnelVars, modeVars, punchVars>>
  BY <1>7, OverlayNext DEF TunnelsInv, punchVars
<1>8. CASE Next
  BY <1>1, <1>2, <1>3, <1>4, <1>5, <1>6, <1>7, <1>8 DEF Next
<1> QED
  BY <1>0, <1>8

(* The inductive invariant holds for any number of apps, sockets,          *)
(* connections, users and tunnels, and whatever the bounds are.            *)
THEOREM TunnelsInvariant == Spec => []TunnelsInv
<1>1. Spec => Init /\ [][Next]_vars
  BY DEF Spec, vars
<1> QED
  BY <1>1, TunnelsInit, TunnelsNext, PTL

(* The two sides of a punch go on with the same path.                      *)
(* connectUnderlayTCPSymmetric: they never return different connections,   *)
(* in whatever order their goroutines run, connections break and a side    *)
(* gives up.  handshakeC2C, handshakeC2S and handshakeS2C: the address     *)
(* that the cone side uses is the socket that the other side uses, however *)
(* many sockets get through and whatever is lost or overtaken.             *)
THEOREM PunchesAgree == Spec => []PeersAgree
<1>1. TunnelsInv => PeersAgree
  BY PunchAgrees, HoleAgrees DEF TunnelsInv, PeersAgree
<1> QED
  BY <1>1, TunnelsInvariant, PTL

(* AddApp checks before it stores: as long as the runtime adds no app      *)
(* itself, no two running apps have one port.                              *)
THEOREM PortHasOneApp == Spec => []OneAppPerPort
<1>1. TunnelsInv => OneAppPerPort
  BY DEF TunnelsInv, TableInv, OneAppPerPort, Table!OneAppPerPort
<1> QED
  BY <1>1, TunnelsInvariant, PTL

(* addDirectTunnel: in every attempt of every pair of peers the two sides  *)
(* fit each other.                                                         *)
THEOREM SidesAlwaysFit == Spec => []SidesFit
<1>1. TunnelsInv => SidesFit
  BY ModesFit DEF TunnelsInv
<1> QED
  BY <1>1, TunnelsInvariant, PTL

(* An answer of the service reaches the user whose payload it answers,     *)
(* with udp or another who sends from the same port number if there is     *)
(* one, whatever connections end or are made again under the same id       *)
(* meanwhile.                                                              *)
THEOREM AnswersAreTheSenders == Spec => []AnswersReachSender
<1>1. TunnelsInv => AnswersReachSender
  BY DEF TunnelsInv, OverlayInv, AnswersReachSender, TCP!AnswersReachSender, UDP!AnswersReachSender
<1> QED
  BY <1>1, TunnelsInvariant, PTL
=============================================================================
