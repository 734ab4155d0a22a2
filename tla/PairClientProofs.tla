-------------------------- MODULE PairClientProofs --------------------------
(***************************************************************************)
(* That a Sync reads the answer to its own report, that a device in a      *)
(* session has the address and the PSK of its lease, and that it does not  *)
(* leave a room it is a member of, for every number of connections, keys,  *)
(* losses, joins, removals and stops and every pool of addresses.          *)
(***************************************************************************)
EXTENDS PairClient, WellFoundedInduction, TLAPS

-----------------------------------------------------------------------------
(* The types of the frames, of a connection, and of the state. *)
Statuses == {"auth", "paused", "internal", "full", "disabled"}
States == {"", "pairing", "configured", "offline"}

Upward == [type : {"request"}, member : BOOLEAN, key : Nat] \cup {Ack} \cup [type : {"report"}, report : {0, 1}]
Downward == [type : {"status"}, status : Statuses] \cup [type : {"result"}, addr : Nat] \cup [type : {"list"}, report : {0, 1}]

Connection == [srv : {"off", "open", "pending", "control", "over"}, open : BOOLEAN, cut : BOOLEAN,
               key : Nat, up : Seq(Upward), down : Seq(Downward)]

TypeOK ==
    /\ client \in [at : {"out", "dial", "asked", "idle", "sync"}, conn : Conns \cup {NoConn}, joining : BOOLEAN,
                   member : BOOLEAN, invite : Nat, psk : Nat, addr : Nat, report : {0, 1}]
    /\ saved \in Nat
    /\ conn \in [Conns -> Connection]
    /\ host \in [running : BOOLEAN, listening : BOOLEAN, key : Nat, addr : Nat, psk : Nat, state : States, timer : BOOLEAN]
    /\ pending \in [conn : Conns \cup {NoConn}, addr : Nat, psk : Nat, state : States]
    /\ owner \in Conns \cup {NoConn}
    /\ others \subseteq Addrs
    /\ used \in [losses : Nat, joins : Nat, removes : Nat, stops : Nat]

-----------------------------------------------------------------------------
(* Every non-empty set of naturals has a least element. *)
LEMMA LeastAddress ==
  ASSUME NEW S \in SUBSET Nat, S # {}
  PROVE  Min(S) \in S
<1> DEFINE Less == {ss \in Nat \X Nat : ss[1] < ss[2]}
<1>1. IsWellFoundedOn(Less, Nat)
  BY NatLessThanWellFounded, Zenon DEF OpToRel
<1>2. PICK x \in S : \A y \in S : ~(<<y, x>> \in Less)
  <2> HIDE DEF Less
  <2> QED BY <1>1, WFMin
<1>3. ASSUME NEW y \in S PROVE x =< y
  <2>1. x \in Nat /\ y \in Nat /\ <<y, x>> \in Nat \X Nat /\ <<y, x>>[1] = y /\ <<y, x>>[2] = x
    OBVIOUS
  <2>2. ~(y < x)
    BY <1>2, <2>1
  <2> QED
    BY <2>1, <2>2
<1> QED
  BY <1>3 DEF Min

(* The frames under way on an empty stream, after a frame was written, and *)
(* after the first one was read.                                           *)
LEMMA FramesOfNone == ToSet(<<>>) = {} /\ \A F : <<>> \in Seq(F)
BY DEF ToSet

(* After a frame was written, it is under way with those before it. *)
LEMMA FramesOfAppend ==
  ASSUME NEW F, NEW s \in Seq(F), NEW f \in F
  PROVE  Append(s, f) \in Seq(F) /\ ToSet(Append(s, f)) = ToSet(s) \cup {f}
<1>1. Append(s, f) \in Seq(F) /\ DOMAIN Append(s, f) = 1..(Len(s) + 1) /\ DOMAIN s = 1..Len(s)
  OBVIOUS
<1>2. Append(s, f)[Len(s) + 1] = f /\ \A i \in 1..Len(s) : Append(s, f)[i] = s[i]
  OBVIOUS
<1>3. ASSUME NEW g \in ToSet(Append(s, f)) PROVE g \in ToSet(s) \cup {f}
  BY <1>1, <1>2 DEF ToSet
<1>4. ToSet(s) \subseteq ToSet(Append(s, f))
  BY <1>1, <1>2 DEF ToSet
<1>5. f \in ToSet(Append(s, f))
  <2>1. Len(s) + 1 \in DOMAIN Append(s, f)
    BY <1>1
  <2> QED
    BY <1>2, <2>1 DEF ToSet
<1> QED
  BY <1>1, <1>3, <1>4, <1>5

(* The frame that is read was under way, and the others still are. *)
LEMMA FramesOfTail ==
  ASSUME NEW F, NEW s \in Seq(F), s # <<>>
  PROVE  Tail(s) \in Seq(F) /\ Head(s) \in F /\ Head(s) \in ToSet(s) /\ ToSet(Tail(s)) \subseteq ToSet(s)
BY DEF ToSet

(* What is left of a stream that breaks. *)
LEMMA FramesOfPrefix ==
  ASSUME NEW F, NEW s \in Seq(F), NEW p \in Prefixes(s)
  PROVE  p \in Seq(F) /\ ToSet(p) \subseteq ToSet(s)
BY DEF ToSet, Prefixes

(* At most one frame of a type is under way on a stream. *)
Single(s, type) == \A i, j \in DOMAIN s : s[i].type = type /\ s[j].type = type => i = j

(* A second frame of a type comes only when one is written. *)
LEMMA SingleAppend ==
  ASSUME NEW F, NEW s \in Seq(F), NEW f \in F, NEW t,
         Single(s, t), f.type # t \/ \A g \in ToSet(s) : g.type # t
  PROVE  Single(Append(s, f), t)
BY DEF ToSet, Single

(* The only frame of a type is gone when it was read. *)
LEMMA SingleTail ==
  ASSUME NEW F, NEW s \in Seq(F), s # <<>>, NEW t, Single(s, t)
  PROVE  /\ Single(Tail(s), t)
         /\ Head(s).type = t => \A g \in ToSet(Tail(s)) : g.type # t
BY DEF ToSet, Single

(* A stream that breaks gets no second frame of a type. *)
LEMMA SinglePrefix ==
  ASSUME NEW F, NEW s \in Seq(F), NEW p \in Prefixes(s), NEW t, Single(s, t)
  PROVE  Single(p, t)
BY DEF ToSet, Single, Prefixes

(* No frame of a type is at most one. *)
LEMMA SingleNone ==
  ASSUME NEW F, NEW s \in Seq(F), NEW t, \A g \in ToSet(s) : g.type # t
  PROVE  Single(s, t)
BY DEF ToSet, Single

-----------------------------------------------------------------------------
(* What each end does to a connection when it writes or closes. *)
LEMMA OffType ==
  /\ Off \in Connection
  /\ Off.srv = "off" /\ Off.open = FALSE /\ Off.up = <<>> /\ Off.down = <<>>
BY DEF Off, Connection

(* No pairing is pending. *)
LEMMA NoPendingType ==
  /\ NoPending \in [conn : Conns \cup {NoConn}, addr : Nat, psk : Nat, state : States]
  /\ NoPending.conn = NoConn /\ NoPending.addr = 0 /\ NoPending.psk = 0 /\ NoPending.state = ""
BY DEF NoPending, States

(* The device writes a frame: it is under way unless the connection is     *)
(* cut.                                                                    *)
LEMMA SentFrame ==
  ASSUME NEW k \in Connection, NEW f \in Upward
  PROVE  /\ Sent(k, f) \in Connection
         /\ Sent(k, f).srv = k.srv /\ Sent(k, f).open = k.open /\ Sent(k, f).down = k.down
         /\ Sent(k, f).up = k.up \/ Sent(k, f).up = Append(k.up, f)
         /\ ToSet(Sent(k, f).up) \subseteq ToSet(k.up) \cup {f}
<1>1. k.up \in Seq(Upward) /\ Append(k.up, f) \in Seq(Upward) /\ ToSet(Append(k.up, f)) = ToSet(k.up) \cup {f}
  BY FramesOfAppend DEF Connection
<1>2. CASE k.cut
  BY <1>2 DEF Sent
<1>3. CASE ~k.cut
  <2>1. Sent(k, f) = [k EXCEPT !.up = Append(k.up, f)]
    BY <1>3 DEF Sent
  <2>2. Sent(k, f).up = Append(k.up, f)
    BY <2>1 DEF Connection
  <2> QED
    BY <1>1, <2>1, <2>2 DEF Connection
<1> QED
  BY <1>2, <1>3

(* The host writes a frame: it is under way unless the connection is cut   *)
(* or the device has closed it.                                            *)
LEMMA AnsweredFrame ==
  ASSUME NEW k \in Connection, NEW f \in Downward
  PROVE  /\ Answered(k, f) \in Connection
         /\ Answered(k, f).srv = k.srv /\ Answered(k, f).open = k.open /\ Answered(k, f).up = k.up
         /\ Answered(k, f).down = k.down \/ (k.open /\ Answered(k, f).down = Append(k.down, f))
         /\ ToSet(Answered(k, f).down) \subseteq ToSet(k.down) \cup {f}
<1>1. k.down \in Seq(Downward) /\ Append(k.down, f) \in Seq(Downward) /\ ToSet(Append(k.down, f)) = ToSet(k.down) \cup {f}
  BY FramesOfAppend DEF Connection
<1>2. CASE k.cut \/ ~k.open
  BY <1>2 DEF Answered
<1>3. CASE ~(k.cut \/ ~k.open)
  <2>1. Answered(k, f) = [k EXCEPT !.down = Append(k.down, f)]
    BY <1>3 DEF Answered
  <2>2. Answered(k, f).down = Append(k.down, f)
    BY <2>1 DEF Connection
  <2> QED
    BY <1>1, <1>3, <2>1, <2>2 DEF Connection
<1> QED
  BY <1>2, <1>3

(* Each end reads the first frame. *)
LEMMA ClientReadsFrame ==
  ASSUME NEW k \in Connection, k.down # <<>>
  PROVE  /\ ClientReads(k) \in Connection
         /\ ClientReads(k).srv = k.srv /\ ClientReads(k).open = k.open /\ ClientReads(k).up = k.up
         /\ ClientReads(k).down = Tail(k.down) /\ ToSet(ClientReads(k).down) \subseteq ToSet(k.down)
<1>1. Tail(k.down) \in Seq(Downward) /\ ToSet(Tail(k.down)) \subseteq ToSet(k.down)
  BY FramesOfTail DEF Connection
<1>2. ClientReads(k).down = Tail(k.down)
  BY DEF ClientReads, Connection
<1> QED
  BY <1>1, <1>2 DEF ClientReads, Connection

(* The host reads the first frame. *)
LEMMA HostReadsFrame ==
  ASSUME NEW k \in Connection, k.up # <<>>
  PROVE  /\ HostReads(k) \in Connection
         /\ HostReads(k).srv = k.srv /\ HostReads(k).open = k.open /\ HostReads(k).down = k.down
         /\ HostReads(k).up = Tail(k.up) /\ ToSet(HostReads(k).up) \subseteq ToSet(k.up)
<1>1. Tail(k.up) \in Seq(Upward) /\ ToSet(Tail(k.up)) \subseteq ToSet(k.up)
  BY FramesOfTail DEF Connection
<1>2. HostReads(k).up = Tail(k.up)
  BY DEF HostReads, Connection
<1> QED
  BY <1>1, <1>2 DEF HostReads, Connection

(* The host closes: the device can still read what has arrived. *)
LEMMA HostCloses ==
  ASSUME NEW k \in Connection
  PROVE  /\ ClosedByHost(k) \in Connection
         /\ ClosedByHost(k).open = k.open
         /\ ClosedByHost(k).srv \in {"over", "off"}
         /\ k.open => ClosedByHost(k).srv = "over" /\ ClosedByHost(k).down = k.down
         /\ ~k.open => ClosedByHost(k).down = <<>>
         /\ ClosedByHost(k).up = <<>>
<1>1. CASE k.open
  <2>1. ClosedByHost(k) = [k EXCEPT !.srv = "over", !.up = <<>>]
    BY <1>1 DEF ClosedByHost
  <2> QED
    BY <1>1, <2>1, FramesOfNone DEF Connection
<1>2. CASE ~k.open
  <2>1. k.open = FALSE
    BY <1>2 DEF Connection
  <2> QED
    BY <1>2, <2>1, OffType DEF ClosedByHost
<1> QED
  BY <1>1, <1>2

(* The device closes: the handler goes on with what has arrived. *)
LEMMA ClientCloses ==
  ASSUME NEW k \in Connection, NEW left \in Prefixes(k.up)
  PROVE  /\ ClosedByClient(k, left) \in Connection
         /\ ~ClosedByClient(k, left).open
         /\ ClosedByClient(k, left).srv \in {k.srv, "off"}
         /\ k.srv # "over" => ClosedByClient(k, left).srv = k.srv
         /\ ClosedByClient(k, left).down = <<>>
         /\ ToSet(ClosedByClient(k, left).up) \subseteq ToSet(k.up)
<1>1. left \in Seq(Upward) /\ ToSet(left) \subseteq ToSet(k.up)
  BY FramesOfPrefix DEF Connection
<1>2. CASE k.srv = "over"
  BY <1>2, OffType, FramesOfNone DEF ClosedByClient
<1>3. CASE k.srv # "over"
  <2>1. ClosedByClient(k, left) = [k EXCEPT !.open = FALSE, !.up = left, !.down = <<>>]
    BY <1>3 DEF ClosedByClient
  <2>2. /\ ClosedByClient(k, left).srv = k.srv /\ ClosedByClient(k, left).up = left
        /\ ClosedByClient(k, left).open = FALSE /\ ClosedByClient(k, left).down = <<>>
    BY <2>1 DEF Connection
  <2>3. <<>> \in Seq(Downward)
    BY FramesOfNone
  <2>4. ClosedByClient(k, left) \in Connection
    BY <1>1, <2>1, <2>3 DEF Connection
  <2> QED
    BY <1>1, <2>2, <2>4
<1> QED
  BY <1>2, <1>3

-----------------------------------------------------------------------------
(* The device has a connection; it is a member, or was before it lost it.  *)
Paired == client.at \in {"asked", "idle", "sync"}
Settled == client.at # "out" /\ ~client.joining

(* The key the device pairs with. *)
Key == IF client.member THEN client.psk ELSE client.invite

Lacks(s, type) == \A f \in ToSet(s) : f.type # type

(* The device holds one connection open, and has left no request behind    *)
(* on another one while it does.                                           *)
Ends ==
    /\ client.conn \in Conns <=> Paired
    /\ \A c \in Conns : conn[c].open <=> c = client.conn
    /\ \A c \in Conns : ~conn[c].open => conn[c].down = <<>>
    /\ Paired => \A c \in Conns : ~LeftBehind(c)
    /\ InSession => Mine.srv # "open" /\ ~client.joining

(* A report or its answer is under way only during the Sync that sent it,  *)
(* and never more than one of the two.                                     *)
Reports ==
    /\ client.at \in {"asked", "idle"} => Lacks(Mine.up, "report") /\ Lacks(Mine.down, "list")
    /\ client.at = "sync" =>
        /\ Single(Mine.up, "report") /\ Single(Mine.down, "list")
        /\ Lacks(Mine.up, "report") \/ Lacks(Mine.down, "list")
        /\ \A f \in ToSet(Mine.up) : f.type = "report" => f.report = client.report
        /\ \A f \in ToSet(Mine.down) : f.type = "list" => f.report = client.report

(* A handler that has not read its request finds the one the device made,  *)
(* with its PSK once it is a member.                                       *)
Requests ==
    \A c \in Conns : conn[c].srv = "open" =>
        /\ conn[c].down = <<>>
        /\ \A f \in ToSet(conn[c].up) :
            /\ f.type = "request"
            /\ c = client.conn => f = Request(client)
            /\ Settled => f.member /\ f.key = client.psk

(* The addresses the host has, gave and would restore are the one of the   *)
(* device, and the PSK is the one it paired with, unless the lease is gone *)
(* or the connection is.                                                   *)
Served == Paired /\ Mine.srv \in {"pending", "control"}

Agreed ==
    /\ Settled => client.member /\ host.addr \in {0, client.addr} /\ pending.addr \in {0, client.addr}
    /\ Paired => \A f \in ToSet(Mine.down) : f.type = "result" =>
           host.addr \in {0, f.addr} /\ pending.addr \in {0, f.addr}
    /\ Served \/ InSession \/ (Paired /\ ~Lacks(Mine.down, "result"))
           => pending = NoPending \/ pending.conn = client.conn
    /\ Served /\ host.addr # 0 => host.psk = Key

(* The connection that reported last is still served. *)
Owned == owner # NoConn => conn[owner].srv = "control"

(* The keys are keys. *)
Known == (client.member => client.psk # 0) /\ (client.joining => client.invite # 0)

(* In a room that was not stopped, a pairing that is pending is waited     *)
(* for, and a timer runs only for a lease that was never acknowledged.     *)
Acked == {"configured", "offline"}

Sound ==
    used.stops = 0 =>
        /\ host.running /\ host.listening
        /\ pending # NoPending =>
            /\ pending.conn \in Conns /\ conn[pending.conn].srv = "pending"
            /\ host.state \notin Acked
            /\ host.addr = 0 => pending.addr = 0 \/ pending.state \notin Acked
        /\ host.timer => host.state \notin Acked /\ pending.state \notin Acked

(* A device that is told to leave has no lease, or none with its PSK that  *)
(* is acknowledged or would be by an acknowledgement under way.            *)
Gone == host.addr = 0 \/ host.psk # client.psk

Told ==
    used.stops = 0 =>
        /\ Settled /\ pending # NoPending => host.addr = 0 \/ host.psk = client.psk
        /\ Paired => \A f \in ToSet(Mine.down) : f.type = "status" =>
            /\ f.status = "disabled" => host.addr = 0 /\ pending = NoPending
            /\ Settled /\ client.at = "asked" /\ f.status # "internal" =>
                /\ ~(Leased /\ host.psk = client.psk)
                /\ pending # NoPending => Gone

ClientInv == TypeOK /\ Ends /\ Reports /\ Requests /\ Agreed /\ Owned /\ Known /\ Sound /\ Told

-----------------------------------------------------------------------------
(* A step of one connection leaves the others alone. *)
LEMMA Updated ==
  ASSUME NEW S, NEW T, NEW f \in [S -> T], NEW c \in S, NEW k \in T
  PROVE  /\ [f EXCEPT ![c] = k] \in [S -> T]
         /\ [f EXCEPT ![c] = k][c] = k
         /\ \A d \in S : d # c => [f EXCEPT ![c] = k][d] = f[d]
OBVIOUS

(* A step that does not touch the room leaves what is said of it, as long  *)
(* as the handlers go on.                                                  *)
LEMMA OwnedKept ==
  ASSUME ClientInv, owner' \in {owner, NoConn},
         \A d \in Conns : conn[d].srv = "control" /\ owner' = d => conn'[d].srv = "control"
  PROVE  Owned'
BY DEF ClientInv, TypeOK, Owned

(* What is said of a room that was not stopped does not depend on the      *)
(* device.                                                                 *)
LEMMA SoundKept ==
  ASSUME ClientInv, UNCHANGED <<host, pending>>, used'.stops = used.stops,
         \A d \in Conns : conn[d].srv = "pending" => conn'[d].srv = "pending"
  PROVE  Sound'
BY DEF ClientInv, Sound

(* A step without a status frame tells the device nothing. *)
LEMMA ToldKept ==
  ASSUME ClientInv, UNCHANGED <<client, host, pending>>, used'.stops = used.stops,
         Paired => \A f \in ToSet(Mine'.down) : f \in ToSet(Mine.down) \/ f.type # "status"
  PROVE  Told'
<1>1. (Settled' <=> Settled) /\ (Paired' <=> Paired) /\ (Leased' <=> Leased) /\ (Gone' <=> Gone)
  BY DEF Settled, Paired, Leased, Gone
<1> QED
  BY <1>1 DEF ClientInv, Told

(* The device moves on: what it was told before is behind it. *)
LEMMA ToldMoves ==
  ASSUME ClientInv, UNCHANGED <<host, pending>>, used'.stops = used.stops,
         Settled' => (Settled /\ client'.psk = client.psk)
                        \/ (used.stops = 0 /\ pending # NoPending => host.addr = 0 \/ host.psk = client'.psk),
         Paired' => \A f \in ToSet(Mine'.down) : Paired /\ f \in ToSet(Mine.down) /\ client'.at # "asked"
  PROVE  Told'
BY DEF ClientInv, Told

(* The keys of the device are its own. *)
LEMMA KnownKept == ASSUME ClientInv, UNCHANGED client PROVE Known'
BY DEF ClientInv, Known

(* A device that closes its connection, to dial again or to leave, keeps   *)
(* its PSK and address if it goes on as a member.                          *)
LEMMA Dropping ==
  ASSUME ClientInv, Paired, UNCHANGED <<saved, host, pending, owner, others>>,
         used' \in [losses : Nat, joins : Nat, removes : Nat, stops : Nat], used'.stops = used.stops,
         NEW next, Drops(next),
         \/ next = Away
         \/ next = [client EXCEPT !.at = "dial", !.conn = NoConn]
         \/ client.joining /\ next = [client EXCEPT !.at = "dial", !.conn = NoConn, !.member = FALSE]
  PROVE  ClientInv'
<1> DEFINE c == client.conn
<1>1. PICK left \in Prefixes(conn[c].up) : conn' = [conn EXCEPT ![c] = ClosedByClient(@, left)]
  BY DEF Drops, Mine
<1>2. c \in Conns /\ c # NoConn
  BY ConnAssumption DEF ClientInv, Ends
<1>3. conn[c] \in Connection
  BY <1>2 DEF ClientInv, TypeOK
<1>4. /\ conn' \in [Conns -> Connection]
      /\ \A d \in Conns : d # c => conn'[d] = conn[d]
      /\ ~conn'[c].open /\ conn'[c].down = <<>>
      /\ conn'[c].srv \in {conn[c].srv, "off"} /\ ToSet(conn'[c].up) \subseteq ToSet(conn[c].up)
      /\ conn[c].srv # "over" => conn'[c].srv = conn[c].srv
  <2> DEFINE k == ClosedByClient(conn[c], left)
  <2>1. /\ k \in Connection /\ ~k.open /\ k.down = <<>> 
        /\ k.srv \in {conn[c].srv, "off"} /\ ToSet(k.up) \subseteq ToSet(conn[c].up)
        /\ conn[c].srv # "over" => k.srv = conn[c].srv
    BY <1>3, ClientCloses
  <2>2. conn' = [conn EXCEPT ![c] = k]
    BY <1>1
  <2> HIDE DEF k
  <2>3. conn' \in [Conns -> Connection] /\ conn'[c] = k /\ \A d \in Conns : d # c => conn'[d] = conn[d]
    BY <1>2, <2>1, <2>2, Updated DEF ClientInv, TypeOK
  <2> QED
    BY <2>1, <2>3
<1>5. /\ client'.at \in {"dial", "out"} /\ client'.conn = NoConn
      /\ client'.at # "out" /\ ~client'.joining =>
            Settled /\ client'.member = client.member /\ client'.psk = client.psk /\ client'.addr = client.addr
      /\ Known'
      /\ client' \in [at : {"out", "dial", "asked", "idle", "sync"}, conn : Conns \cup {NoConn}, joining : BOOLEAN,
                   member : BOOLEAN, invite : Nat, psk : Nat, addr : Nat, report : {0, 1}]
  <2>1. client' = next
    BY DEF Drops
  <2>2. CASE next = Away
    BY <2>1, <2>2 DEF Away, Known
  <2>3. CASE next = [client EXCEPT !.at = "dial", !.conn = NoConn]
    BY <2>1, <2>3 DEF ClientInv, TypeOK, Settled, Paired, Known
  <2>4. CASE client.joining /\ next = [client EXCEPT !.at = "dial", !.conn = NoConn, !.member = FALSE]
    BY <2>1, <2>4 DEF ClientInv, TypeOK, Known
  <2> QED
    BY <2>2, <2>3, <2>4
<1>6. TypeOK'
  BY <1>4, <1>5 DEF ClientInv, TypeOK
<1>7. Ends'
  <2>1. ASSUME NEW d \in Conns PROVE ~conn'[d].open /\ conn'[d].down = <<>>
    BY <1>4 DEF ClientInv, Ends
  <2>2. ~Paired' /\ ~InSession'
    BY <1>5 DEF Paired, InSession
  <2>3. \A d \in Conns : ~(conn'[d].open)
    BY <2>1
  <2> QED
    BY <1>5, <2>1, <2>2, <2>3, ConnAssumption, Zenon DEF Ends
<1>8. Reports'
  BY <1>5 DEF Reports
<1>9. Requests'
  <2> SUFFICES ASSUME NEW d \in Conns, conn'[d].srv = "open"
               PROVE  /\ conn'[d].down = <<>>
                      /\ \A f \in ToSet(conn'[d].up) :
                            f.type = "request" /\ (Settled' => f.member /\ f.key = client.psk)
    BY <1>5, <1>2, ConnAssumption DEF Requests, Settled
  <2>1. conn[d].srv = "open" /\ conn'[d].down = <<>>
    BY <1>4 DEF ClientInv, Requests
  <2> QED
    BY <1>4, <1>5, <2>1 DEF ClientInv, Requests, Settled
<1>10. Agreed'
  BY <1>5 DEF ClientInv, Agreed, Settled, Paired, InSession, Served
<1>11. Owned' /\ Sound' /\ Told'
  <2>1. Owned'
    BY <1>4, OwnedKept
  <2>2. Sound'
    BY <1>4, SoundKept
  <2>3. Told'
    BY <1>5, ToldMoves DEF Settled, Paired
  <2> QED
    BY <2>1, <2>2, <2>3
<1> QED
  BY <1>5, <1>6, <1>7, <1>8, <1>9, <1>10, <1>11 DEF ClientInv

(* Reading that fails costs at most one of the losses. *)
LEMMA ReadFailsUsed ==
  ASSUME TypeOK, NEW k, NEW frames, NEW closed, ReadFails(k, frames, closed)
  PROVE  used' \in [losses : Nat, joins : Nat, removes : Nat, stops : Nat] /\ used'.stops = used.stops
BY DEF ReadFails, TypeOK

(* Leaving a connection, which there is. *)
LEMMA LeavesDrops ==
  ASSUME ClientInv, Paired, Leaves
  PROVE  Drops(Away)
BY ConnAssumption DEF Leaves, ClientInv, Ends

(* A refusal is read: the device falls back to the invite, leaves or dials *)
(* again.                                                                  *)
LEMMA RefusedStep == ASSUME ClientInv, Refused PROVE ClientInv'
<1> DEFINE s == Head(Mine.down).status
<1>1. Paired /\ UNCHANGED <<saved, host, pending, owner, others, used>>
  BY DEF Refused, Paired
<1>2. used' \in [losses : Nat, joins : Nat, removes : Nat, stops : Nat]
  BY <1>1 DEF ClientInv, TypeOK
<1>3. CASE FallsBack(s)
  <2>1. Drops([client EXCEPT !.at = "dial", !.conn = NoConn, !.member = FALSE])
    BY <1>3 DEF Refused
  <2>2. client.joining
    BY <1>3 DEF FallsBack
  <2> QED
    BY <1>1, <1>2, <2>1, <2>2, Dropping
<1>4. CASE ~FallsBack(s) /\ Terminal(s)
  <2>1. Drops(Away)
    BY <1>1, <1>4, LeavesDrops DEF Refused
  <2> QED
    BY <1>1, <1>2, <2>1, Dropping
<1>5. CASE ~FallsBack(s) /\ ~Terminal(s)
  <2>1. Drops([client EXCEPT !.at = "dial", !.conn = NoConn])
    BY <1>5 DEF Refused, Redials
  <2> QED
    BY <1>1, <1>2, <2>1, Dropping
<1> QED
  BY <1>3, <1>4, <1>5

(* Pairing or a Sync fails: the device dials again or leaves. *)
LEMMA RetrySteps ==
  ASSUME ClientInv, ConfigureFails \/ AckFails \/ PairingFails \/ SyncRefused \/ SyncFails
  PROVE  ClientInv'
<1>1. Paired /\ UNCHANGED <<saved, host, pending, owner, others>>
  BY DEF ConfigureFails, AckFails, PairingFails, SyncRefused, SyncFails, Paired
<1>2. used' \in [losses : Nat, joins : Nat, removes : Nat, stops : Nat] /\ used'.stops = used.stops
  <2>1. CASE ConfigureFails
    BY <2>1 DEF ConfigureFails, ClientInv, TypeOK
  <2>2. CASE PairingFails \/ SyncFails
    BY <2>2, ReadFailsUsed DEF PairingFails, SyncFails, ClientInv
  <2>3. CASE AckFails \/ SyncRefused
    BY <2>3 DEF AckFails, SyncRefused, ClientInv, TypeOK
  <2> QED
    BY <2>1, <2>2, <2>3
<1>3. Redials \/ Leaves
  BY DEF ConfigureFails, AckFails, PairingFails, SyncRefused, SyncFails
<1>4. CASE Redials
  BY <1>1, <1>2, <1>4, Dropping DEF Redials
<1>5. CASE Leaves
  <2>1. Drops(Away)
    BY <1>1, <1>5, LeavesDrops
  <2> QED
    BY <1>1, <1>2, <2>1, Dropping
<1> QED
  BY <1>3, <1>4, <1>5

(* A device without a connection that leaves, or begins to join. *)
LEMMA Unconnected ==
  ASSUME ClientInv, client.conn = NoConn, UNCHANGED <<saved, conn, host, pending, owner, others>>,
         used' \in [losses : Nat, joins : Nat, removes : Nat, stops : Nat],
         client' \in [at : {"out", "dial"}, conn : {NoConn}, joining : BOOLEAN,
                   member : BOOLEAN, invite : Nat, psk : Nat, addr : Nat, report : {0, 1}],
         ~Settled', Known', used'.stops = used.stops
  PROVE  ClientInv'
<1>1. client'.at \in {"out", "dial"} /\ client'.conn = NoConn
  OBVIOUS
<1>2. TypeOK'
  BY DEF ClientInv, TypeOK
<1>3. ~Paired' /\ ~InSession' /\ ~Paired
  BY <1>1, ConnAssumption DEF Paired, InSession, ClientInv, Ends
<1>4. Ends'
  BY <1>1, <1>3, ConnAssumption, Zenon DEF ClientInv, Ends
<1>5. Reports'
  BY <1>1 DEF Reports
<1>6. Requests'
  BY <1>1, ConnAssumption DEF ClientInv, Requests
<1>7. Agreed'
  BY <1>3 DEF Agreed, Served
<1>8. Owned' /\ Sound'
  BY OwnedKept, SoundKept
<1>9. Told'
  BY <1>3, ToldMoves
<1> QED
  BY <1>2, <1>4, <1>5, <1>6, <1>7, <1>8, <1>9 DEF ClientInv

(* The user leaves, with a connection or without. *)
LEMMA LeaveStep == ASSUME ClientInv, Leave PROVE ClientInv'
<1>1. client.at # "out" /\ Leaves /\ UNCHANGED <<saved, host, pending, owner, others, used>>
  BY DEF Leave
<1>2. used' \in [losses : Nat, joins : Nat, removes : Nat, stops : Nat]
  BY <1>1 DEF ClientInv, TypeOK
<1>3. CASE client.conn = NoConn
  <2>1. client' = Away /\ UNCHANGED conn
    BY <1>1, <1>3 DEF Leaves
  <2> QED
    BY <1>1, <1>2, <1>3, <2>1, Unconnected DEF Away, Settled, Known
<1>4. CASE client.conn # NoConn
  <2>1. Paired /\ Drops(Away)
    BY <1>1, <1>4 DEF Leaves, ClientInv, TypeOK, Ends
  <2> QED
    BY <1>1, <1>2, <2>1, Dropping
<1> QED
  BY <1>3, <1>4

(* Join begins with the saved PSK or the invite. *)
LEMMA JoinStep == ASSUME ClientInv, NEW k \in 1..host.key, Join(k) PROVE ClientInv'
<1>1. k \in Nat /\ host.key \in Nat /\ saved \in Nat
  BY DEF ClientInv, TypeOK
<1>2. client.conn = NoConn
  BY DEF Join, ClientInv, TypeOK, Ends, Paired
<1>3. /\ client' \in [at : {"out", "dial"}, conn : {NoConn}, joining : BOOLEAN,
                      member : BOOLEAN, invite : Nat, psk : Nat, addr : Nat, report : {0, 1}]
      /\ client'.joining = TRUE /\ client'.invite # 0 /\ (client'.member => client'.psk # 0)
      /\ UNCHANGED <<saved, conn, host, pending, owner, others>>
  <2> DEFINE m == saved # 0
  <2>1. client' = [Away EXCEPT !.at = "dial", !.joining = TRUE, !.member = m, !.psk = saved, !.invite = k]
    BY DEF Join
  <2>2. m \in BOOLEAN /\ (m => saved # 0) /\ k # 0
    BY <1>1
  <2> HIDE DEF m
  <2>3. UNCHANGED <<saved, conn, host, pending, owner, others>>
    BY DEF Join
  <2> QED
    BY <1>1, <2>1, <2>2, <2>3 DEF Away
<1>4. used' \in [losses : Nat, joins : Nat, removes : Nat, stops : Nat] /\ used'.stops = used.stops
  BY DEF Join, ClientInv, TypeOK
<1>5. ~Settled' /\ Known'
  BY <1>3 DEF Settled, Known
<1> QED
  BY <1>1, <1>2, <1>3, <1>4, <1>5, Unconnected

(* A new connection carries one request, and no other request is left      *)
(* behind.                                                                 *)
LEMMA DialStep == ASSUME ClientInv, NEW c \in Conns, Dial(c) PROVE ClientInv'
<1> DEFINE k == [Off EXCEPT !.srv = "open", !.open = TRUE, !.key = host.key, !.up = <<Request(client)>>]
<1>1. /\ client.at = "dial" /\ conn[c] = Off /\ \A d \in Conns : ~LeftBehind(d)
      /\ conn' = [conn EXCEPT ![c] = k]
      /\ client' = [client EXCEPT !.at = "asked", !.conn = c]
      /\ UNCHANGED <<saved, host, pending, owner, others, used>>
  BY DEF Dial
<1>2. Request(client) \in Upward
  BY DEF Request, Upward, ClientInv, TypeOK
<1>3. <<Request(client)>> \in Seq(Upward) /\ ToSet(<<Request(client)>>) = {Request(client)}
  BY <1>2 DEF ToSet
<1>4. k \in Connection /\ k.srv = "open" /\ k.open = TRUE /\ k.down = <<>> /\ k.up = <<Request(client)>>
  BY <1>3, FramesOfNone DEF Off, Connection, ClientInv, TypeOK
<1> HIDE DEF k
<1>5. conn' \in [Conns -> Connection] /\ conn'[c] = k /\ \A d \in Conns : d # c => conn'[d] = conn[d]
  BY <1>1, <1>4, Updated DEF ClientInv, TypeOK
<1>6. /\ client'.at = "asked" /\ client'.conn = c /\ client'.joining = client.joining
      /\ client'.member = client.member /\ client'.psk = client.psk /\ client'.invite = client.invite
      /\ client'.addr = client.addr
  BY <1>1 DEF ClientInv, TypeOK
<1>7. TypeOK'
  <2>1. client' \in [at : {"out", "dial", "asked", "idle", "sync"}, conn : Conns \cup {NoConn}, joining : BOOLEAN,
                   member : BOOLEAN, invite : Nat, psk : Nat, addr : Nat, report : {0, 1}]
    BY <1>1 DEF ClientInv, TypeOK
  <2> QED
    BY <1>1, <1>5, <2>1 DEF ClientInv, TypeOK
<1>8. \A d \in Conns : ~conn[d].open
  BY <1>1 DEF ClientInv, Ends, Paired
<1>9. Ends'
  <2>1. Paired' /\ ~InSession'
    BY <1>6 DEF Paired, InSession
  <2>2. ASSUME NEW d \in Conns
        PROVE  /\ conn'[d].open <=> d = client'.conn
               /\ ~conn'[d].open => conn'[d].down = <<>>
               /\ ~LeftBehind(d)'
    <3>1. CASE d = c
      BY <1>4, <1>5, <1>6, <3>1 DEF LeftBehind
    <3>2. CASE d # c
      BY <1>1, <1>5, <1>6, <1>8, <3>2 DEF LeftBehind, ClientInv, Ends
    <3> QED
      BY <3>1, <3>2
  <2> QED
    BY <1>6, <2>1, <2>2 DEF Ends
<1>10. Reports'
  <2>1. Lacks(conn'[c].up, "report") /\ Lacks(conn'[c].down, "list")
    BY <1>3, <1>4, <1>5, FramesOfNone DEF Lacks, Request
  <2> QED
    BY <1>6, <2>1 DEF Reports, Mine
<1>11. Requests'
  <2> SUFFICES ASSUME NEW d \in Conns, conn'[d].srv = "open"
               PROVE  /\ conn'[d].down = <<>>
                      /\ \A f \in ToSet(conn'[d].up) :
                            f.type = "request" /\ (d = c => f = Request(client'))
                            /\ (Settled' => f.member /\ f.key = client'.psk)
    BY <1>6 DEF Requests
  <2>1. Request(client') = Request(client) /\ (Settled' <=> Settled)
    BY <1>1, <1>6 DEF Request, Settled
  <2>2. CASE d = c
    <3>1. Settled => client.member
      BY DEF ClientInv, Agreed
    <3> QED
      BY <1>3, <1>4, <1>5, <1>6, <2>1, <2>2, <3>1 DEF Request
  <2>3. CASE d # c
    BY <1>1, <1>5, <1>6, <2>1, <2>3 DEF ClientInv, Requests
  <2> QED
    BY <2>2, <2>3
<1>12. Agreed'
  <2>1. ~Served' /\ ~InSession' /\ ToSet(conn'[c].down) = {}
    BY <1>4, <1>5, <1>6, FramesOfNone DEF Served, Mine, InSession
  <2>2. Settled' => Settled
    BY <1>1, <1>6 DEF Settled
  <2> QED
    BY <1>1, <1>6, <2>1, <2>2 DEF ClientInv, Agreed, Mine, Lacks
<1>13. Owned' /\ Sound'
  <2>1. conn[c].srv = "off"
    BY <1>1, OffType
  <2> QED
    BY <1>1, <1>5, <2>1, OwnedKept, SoundKept
<1>14. Told'
  <2>1. Settled' => Settled /\ client'.psk = client.psk
    BY <1>1, <1>6 DEF Settled
  <2>2. ToSet(Mine'.down) = {}
    BY <1>4, <1>5, <1>6, FramesOfNone DEF Mine
  <2> QED
    BY <1>1, <2>1, <2>2, ToldMoves
<1>15. Known'
  BY <1>6 DEF ClientInv, Known
<1> QED
  BY <1>7, <1>9, <1>10, <1>11, <1>12, <1>13, <1>14, <1>15 DEF ClientInv

(* A device that has its result goes on, writes and reads on the same      *)
(* connection: with the address of the result, and the PSK it paired with. *)
LEMMA Exchanging ==
  ASSUME ClientInv, Paired, UNCHANGED <<host, pending, owner, others, used>>, saved' \in Nat,
         client' \in [at : {"idle", "sync"}, conn : Conns \cup {NoConn}, joining : {FALSE},
                     member : {TRUE}, invite : Nat, psk : Nat, addr : Nat, report : {0, 1}],
         client'.conn = client.conn, client'.psk = Key,
         NEW k \in Connection, conn' = [conn EXCEPT ![client.conn] = k],
         k.srv = Mine.srv, k.open = Mine.open, ToSet(k.down) \subseteq ToSet(Mine.down),
         InSession \/ ~Lacks(Mine.down, "result"),
         {host.addr, pending.addr} \subseteq {0, client'.addr}
  PROVE  TypeOK' /\ Ends' /\ Requests' /\ Agreed' /\ Mine' = k /\ Owned' /\ Known' /\ Sound' /\ Told'
<1> DEFINE c == client.conn
<1>1. c \in Conns /\ c # NoConn
  BY ConnAssumption DEF ClientInv, Ends
<1>2. conn' \in [Conns -> Connection] /\ conn'[c] = k /\ \A d \in Conns : d # c => conn'[d] = conn[d]
  BY <1>1, Updated DEF ClientInv, TypeOK
<1>3. conn[c].srv # "open" /\ conn[c].open
  BY <1>1, FramesOfNone DEF ClientInv, Ends, Requests, Lacks, Mine
<1>4. /\ client'.at \in {"idle", "sync"} /\ client'.joining = FALSE /\ client'.member = TRUE
      /\ Paired' /\ InSession' /\ Mine' = k /\ Mine = conn[c]
  BY <1>2 DEF Paired, InSession, Mine
<1>5. TypeOK'
  BY <1>2 DEF ClientInv, TypeOK
<1>6. \A d \in Conns : conn'[d].srv # "open"
  <2> SUFFICES ASSUME NEW d \in Conns, d # c PROVE conn[d].srv # "open"
    BY <1>2, <1>3, <1>4
  <2> QED
    BY <1>3 DEF ClientInv, Ends, LeftBehind
<1>7. Ends'
  <2>1. ASSUME NEW d \in Conns
        PROVE  /\ conn'[d].open <=> d = c
               /\ ~conn'[d].open => conn'[d].down = <<>>
    BY <1>1, <1>2, <1>3, <1>4 DEF ClientInv, Ends
  <2> QED
    BY <1>1, <1>4, <1>6, <2>1, <1>3 DEF Ends, LeftBehind
<1>8. Requests'
  BY <1>6 DEF Requests
<1>9. Agreed'
  <2>1. Key' = Key
    BY <1>4 DEF Key
  <2>2. Served' => Served
    BY <1>4 DEF Served
  <2>3. pending = NoPending \/ pending.conn = c
    BY DEF ClientInv, Agreed
  <2>4. Served /\ host.addr # 0 => host.psk = Key
    BY DEF ClientInv, Agreed
  <2>5. \A f \in ToSet(k.down) : f.type = "result" => host.addr \in {0, f.addr} /\ pending.addr \in {0, f.addr}
    BY DEF ClientInv, Agreed
  <2> QED
    BY <1>4, <2>1, <2>2, <2>3, <2>4, <2>5 DEF Agreed
<1>10. Owned' /\ Sound'
  BY <1>1, <1>2, <1>4, OwnedKept, SoundKept
<1>11. Known'
  <2>1. ~client.joining => client.member
    BY DEF Paired, Settled, ClientInv, Agreed
  <2>2. Key # 0
    BY <2>1 DEF ClientInv, Known, Key
  <2> QED
    BY <1>4, <2>2 DEF Known
<1>12. Told'
  <2>1. used.stops = 0 /\ pending # NoPending => host.addr = 0 \/ host.psk = client'.psk
    <3> SUFFICES ASSUME used.stops = 0, pending # NoPending, host.addr # 0
                 PROVE  host.psk = client'.psk
      OBVIOUS
    <3>1. pending.conn = c /\ conn[c].srv = "pending"
      BY DEF ClientInv, Agreed, Sound
    <3>2. Served
      BY <1>4, <3>1 DEF Served
    <3> QED
      BY <3>2 DEF ClientInv, Agreed
  <2> QED
    BY <1>4, <2>1, ToldMoves
<1> QED
  BY <1>4, <1>5, <1>7, <1>8, <1>9, <1>10, <1>11, <1>12

(* The result is read: the address of a join is the one in it, a reconnect *)
(* keeps its own, which is the same.                                       *)
LEMMA AcceptedStep == ASSUME ClientInv, Accepted PROVE ClientInv'
<1> DEFINE c == client.conn
           rest == ClientReads(conn[c])
           k == Sent(rest, Ack)
           f == Head(conn[c].down)
<1>1. /\ client.at = "asked" /\ conn[c].down # <<>> /\ f.type = "result" /\ Mine = conn[c]
      /\ conn' = [conn EXCEPT ![c] = k]
      /\ UNCHANGED <<host, pending, owner, others, used>>
  <2>1. conn' = [conn EXCEPT ![c] = k]
    BY Zenon DEF Accepted
  <2> QED
    BY <2>1 DEF Accepted, HeadIs, Mine
<1>2. Paired /\ c \in Conns /\ conn[c] \in Connection
  BY <1>1 DEF Paired, ClientInv, Ends, TypeOK
<1>3. f \in Downward /\ f \in ToSet(conn[c].down) /\ ToSet(rest.down) \subseteq ToSet(conn[c].down)
  BY <1>1, <1>2, FramesOfTail, ClientReadsFrame DEF Connection
<1>4. rest \in Connection /\ rest.up = conn[c].up /\ rest.srv = conn[c].srv /\ rest.open = conn[c].open
  BY <1>1, <1>2, ClientReadsFrame
<1>5. Ack \in Upward /\ Ack.type # "report"
  BY DEF Ack, Upward
<1>6. /\ k \in Connection /\ k.srv = conn[c].srv /\ k.open = conn[c].open /\ k.down = rest.down
      /\ ToSet(k.up) \subseteq ToSet(conn[c].up) \cup {Ack}
  <2> HIDE DEF rest
  <2> QED
    BY <1>4, <1>5, SentFrame
<1>7. f.addr \in Nat
  BY <1>1, <1>3 DEF Downward
<1>8. /\ client' = [client EXCEPT !.at = "idle", !.joining = FALSE, !.member = TRUE, !.psk = Key,
                                  !.addr = IF client.joining THEN f.addr ELSE @]
      /\ saved' = IF client.joining THEN Key ELSE saved
  BY DEF Accepted, Key, Mine
<1> HIDE DEF k, f, rest
<1>9. Key \in Nat
  BY DEF Key, ClientInv, TypeOK
<1>10. /\ client' \in [at : {"idle", "sync"}, conn : Conns \cup {NoConn}, joining : {FALSE},
                     member : {TRUE}, invite : Nat, psk : Nat, addr : Nat, report : {0, 1}]
       /\ client'.at = "idle" /\ client'.conn = c /\ client'.psk = Key
       /\ client'.addr = IF client.joining THEN f.addr ELSE client.addr
       /\ saved' \in Nat
  BY <1>7, <1>8, <1>9 DEF ClientInv, TypeOK
<1>11. host.addr \in {0, client'.addr} /\ pending.addr \in {0, client'.addr}
  <2>1. host.addr \in {0, f.addr} /\ pending.addr \in {0, f.addr}
    BY <1>1, <1>2, <1>3 DEF ClientInv, Agreed
  <2>2. ~client.joining => host.addr \in {0, client.addr} /\ pending.addr \in {0, client.addr}
    BY <1>1 DEF ClientInv, Agreed, Settled
  <2> QED
    BY <1>10, <2>1, <2>2
<1>12. ~Lacks(Mine.down, "result")
  BY <1>1, <1>3 DEF Lacks
<1>13. TypeOK' /\ Ends' /\ Requests' /\ Agreed' /\ Mine' = k /\ Owned' /\ Known' /\ Sound' /\ Told'
  BY <1>1, <1>2, <1>3, <1>6, <1>10, <1>11, <1>12, Exchanging
<1>14. Reports'
  <2>1. Lacks(conn[c].up, "report") /\ Lacks(conn[c].down, "list")
    BY <1>1 DEF ClientInv, Reports
  <2>2. Lacks(k.up, "report") /\ Lacks(k.down, "list")
    BY <1>3, <1>5, <1>6, <2>1 DEF Lacks
  <2> QED
    BY <1>10, <1>13, <2>2 DEF Reports
<1> QED
  BY <1>13, <1>14 DEF ClientInv

(* A report is sent when none is under way. *)
LEMMA SyncStep == ASSUME ClientInv, Sync PROVE ClientInv'
<1> DEFINE c == client.conn
           n == 1 - client.report
           k == Sent(conn[c], Report(n))
<1>1. /\ client.at = "idle" /\ UNCHANGED <<saved, host, pending, owner, others, used>>
      /\ client' = [client EXCEPT !.at = "sync", !.report = n]
      /\ conn' = [conn EXCEPT ![c] = Sent(@, Report(client'.report))]
  BY DEF Sync
<1>2. Paired /\ InSession /\ c \in Conns /\ conn[c] \in Connection /\ Mine = conn[c]
  BY <1>1 DEF Paired, InSession, ClientInv, Ends, TypeOK, Mine
<1>3. n \in {0, 1}
  BY DEF ClientInv, TypeOK
<1> HIDE DEF n
<1>4. client'.report = n /\ client'.at = "sync"
  BY <1>1, <1>3 DEF ClientInv, TypeOK
<1>5. Report(n) \in Upward /\ Report(n).type = "report" /\ Report(n).report = n
  BY <1>3 DEF Report, Upward
<1>6. /\ k \in Connection /\ k.srv = conn[c].srv /\ k.open = conn[c].open /\ k.down = conn[c].down
      /\ k.up = conn[c].up \/ k.up = Append(conn[c].up, Report(n))
      /\ ToSet(k.up) \subseteq ToSet(conn[c].up) \cup {Report(n)}
  BY <1>2, <1>5, SentFrame
<1>7. conn' = [conn EXCEPT ![c] = k]
  BY <1>1, <1>4
<1> HIDE DEF k
<1>8. Settled /\ client.member /\ Key = client.psk
  <2>1. ~client.joining
    BY <1>2 DEF ClientInv, Ends
  <2> QED
    BY <1>1, <2>1 DEF ClientInv, Agreed, Settled, Key
<1>9. TypeOK' /\ Ends' /\ Requests' /\ Agreed' /\ Mine' = k /\ Owned' /\ Known' /\ Sound' /\ Told'
  <2>1. client' \in [at : {"idle", "sync"}, conn : Conns \cup {NoConn}, joining : {FALSE},
                     member : {TRUE}, invite : Nat, psk : Nat, addr : Nat, report : {0, 1}]
    BY <1>1, <1>3, <1>8 DEF ClientInv, TypeOK, Settled
  <2>2. client'.conn = c /\ client'.psk = Key /\ client'.addr = client.addr
    BY <1>1, <1>8 DEF ClientInv, TypeOK
  <2>3. {host.addr, pending.addr} \subseteq {0, client'.addr}
    BY <1>8, <2>2 DEF ClientInv, Agreed
  <2>4. saved' \in Nat
    BY <1>1 DEF ClientInv, TypeOK
  <2> QED
    BY <1>1, <1>2, <1>6, <1>7, <2>1, <2>2, <2>3, <2>4, Exchanging
<1>10. Reports'
  <2>1. Lacks(conn[c].up, "report") /\ Lacks(conn[c].down, "list")
    BY <1>1, <1>2 DEF ClientInv, Reports
  <2>2. conn[c].up \in Seq(Upward) /\ conn[c].down \in Seq(Downward)
    BY <1>2 DEF Connection
  <2>3. Single(conn[c].up, "report") /\ Single(conn[c].down, "list")
    BY <2>1, <2>2, SingleNone DEF Lacks
  <2>4. Single(k.up, "report")
    <3>1. \A g \in ToSet(conn[c].up) : g.type # "report"
      BY <2>1 DEF Lacks
    <3>2. Single(Append(conn[c].up, Report(n)), "report")
      BY <1>5, <2>2, <2>3, <3>1, SingleAppend
    <3> QED
      BY <1>6, <2>3, <3>2
  <2> QED
    BY <1>4, <1>5, <1>6, <1>9, <2>1, <2>3, <2>4 DEF Reports, Lacks
<1> QED
  BY <1>9, <1>10 DEF ClientInv

(* The one answer under way is read. *)
LEMMA SyncReturnsStep == ASSUME ClientInv, SyncReturns PROVE ClientInv'
<1> DEFINE c == client.conn
           k == ClientReads(conn[c])
<1>1. /\ client.at = "sync" /\ UNCHANGED <<saved, host, pending, owner, others, used>>
      /\ client' = [client EXCEPT !.at = "idle"]
      /\ conn' = [conn EXCEPT ![c] = k]
      /\ conn[c].down # <<>> /\ Head(conn[c].down).type = "list"
  BY DEF SyncReturns, HeadIs, Mine
<1>2. Paired /\ InSession /\ c \in Conns /\ conn[c] \in Connection /\ Mine = conn[c]
  BY <1>1 DEF Paired, InSession, ClientInv, Ends, TypeOK, Mine
<1>3. /\ k \in Connection /\ k.srv = conn[c].srv /\ k.open = conn[c].open /\ k.up = conn[c].up
      /\ k.down = Tail(conn[c].down) /\ ToSet(k.down) \subseteq ToSet(conn[c].down)
  BY <1>1, <1>2, ClientReadsFrame
<1> HIDE DEF k
<1>4. Settled /\ client.member /\ Key = client.psk
  <2>1. ~client.joining
    BY <1>2 DEF ClientInv, Ends
  <2> QED
    BY <1>1, <2>1 DEF ClientInv, Agreed, Settled, Key
<1>5. TypeOK' /\ Ends' /\ Requests' /\ Agreed' /\ Mine' = k /\ Owned' /\ Known' /\ Sound' /\ Told'
  <2>1. client' \in [at : {"idle", "sync"}, conn : Conns \cup {NoConn}, joining : {FALSE},
                     member : {TRUE}, invite : Nat, psk : Nat, addr : Nat, report : {0, 1}]
    BY <1>1, <1>4 DEF ClientInv, TypeOK, Settled
  <2>2. client'.conn = c /\ client'.psk = Key /\ client'.addr = client.addr
    BY <1>1, <1>4 DEF ClientInv, TypeOK
  <2>3. {host.addr, pending.addr} \subseteq {0, client'.addr}
    BY <1>4, <2>2 DEF ClientInv, Agreed
  <2>4. saved' \in Nat
    BY <1>1 DEF ClientInv, TypeOK
  <2> QED
    BY <1>1, <1>2, <1>3, <2>1, <2>2, <2>3, <2>4, Exchanging
<1>6. Reports'
  <2>1. /\ Single(conn[c].down, "list")
        /\ Lacks(conn[c].up, "report") \/ Lacks(conn[c].down, "list")
    BY <1>1, <1>2 DEF ClientInv, Reports
  <2>2. conn[c].down \in Seq(Downward)
    BY <1>2 DEF Connection
  <2>3. Lacks(Tail(conn[c].down), "list")
    BY <1>1, <2>1, <2>2, SingleTail DEF Lacks
  <2>4. ~Lacks(conn[c].down, "list")
    BY <1>1, <2>2, FramesOfTail DEF Lacks
  <2>5. client'.at = "idle"
    BY <1>1 DEF ClientInv, TypeOK
  <2> QED
    BY <1>3, <1>5, <2>1, <2>3, <2>4, <2>5 DEF Reports
<1> QED
  BY <1>5, <1>6 DEF ClientInv

-----------------------------------------------------------------------------
(* The host's end of one connection goes on, breaks or is closed.  What it *)
(* does keeps the exchange if it reads a report at most once and answers   *)
(* what it has read.                                                       *)
LEMMA HostSide ==
  ASSUME ClientInv, UNCHANGED <<client, saved, others>>, NEW c \in Conns, NEW k \in Connection,
         conn' = [conn EXCEPT ![c] = k], k.open = conn[c].open,
         k.srv = "open" => conn[c].srv = "open",
         ~k.open => k.down = <<>>
  PROVE  /\ conn' \in [Conns -> Connection]
         /\ conn'[c] = k /\ \A d \in Conns : d # c => conn'[d] = conn[d]
         /\ Ends'
         /\ c = client.conn => Mine' = k /\ Mine = conn[c]
         /\ Paired /\ c # client.conn => Mine' = Mine
<1>1. conn' \in [Conns -> Connection] /\ conn'[c] = k /\ \A d \in Conns : d # c => conn'[d] = conn[d]
  BY Updated DEF ClientInv, TypeOK
<1>2. /\ c = client.conn => Mine' = k /\ Mine = conn[c]
      /\ Paired /\ c # client.conn => Mine' = Mine
  BY <1>1 DEF Mine, ClientInv, Ends
<1>3. (Paired' <=> Paired) /\ (InSession' <=> InSession)
  BY DEF Paired, InSession
<1>4. InSession => Paired
  BY DEF Paired, InSession
<1>5. ASSUME NEW d \in Conns
      PROVE  /\ conn'[d].open <=> d = client.conn
             /\ ~conn'[d].open => conn'[d].down = <<>>
             /\ Paired => ~LeftBehind(d)'
  <2>1. CASE d = c
    BY <1>1, <2>1 DEF ClientInv, Ends, LeftBehind
  <2>2. CASE d # c
    BY <1>1, <2>2 DEF ClientInv, Ends, LeftBehind
  <2> QED
    BY <2>1, <2>2
<1>6. InSession => Mine'.srv # "open" /\ ~client.joining
  BY <1>2, <1>4 DEF ClientInv, Ends
<1> QED
  BY <1>1, <1>2, <1>3, <1>5, <1>6 DEF ClientInv, Ends

(* Frames that are lost, and frames that are not about reports. *)
LEMMA ReportsKept ==
  ASSUME ClientInv, UNCHANGED client, Paired,
         ToSet(Mine'.up) \subseteq ToSet(Mine.up),
         \A f \in ToSet(Mine'.down) : f \in ToSet(Mine.down) \/ f.type # "list",
         client.at = "sync" => Single(Mine'.up, "report") /\ Single(Mine'.down, "list")
  PROVE  Reports'
BY DEF ClientInv, Reports, Lacks

(* No handler that is still open is touched but this one. *)
LEMMA RequestsKept ==
  ASSUME ClientInv, UNCHANGED client, NEW c \in Conns, NEW k \in Connection,
         conn'[c] = k, \A d \in Conns : d # c => conn'[d] = conn[d],
         k.srv = "open" => conn[c].srv = "open" /\ k.down = <<>> /\ ToSet(k.up) \subseteq ToSet(conn[c].up)
  PROVE  Requests'
<1>1. Settled' <=> Settled
  BY DEF Settled
<1>2. ASSUME NEW d \in Conns, conn'[d].srv = "open"
      PROVE  /\ conn[d].srv = "open" /\ conn'[d].down = <<>>
             /\ ToSet(conn'[d].up) \subseteq ToSet(conn[d].up)
  BY <1>2 DEF ClientInv, Requests
<1> QED
  BY <1>1, <1>2 DEF ClientInv, Requests

(* The addresses and the PSK of the host stay, or the lease is gone or     *)
(* restored.                                                               *)
LEMMA AgreedKept ==
  ASSUME ClientInv, UNCHANGED client,
         host'.addr \in {0, host.addr, pending.addr}, pending' = pending \/ pending' = NoPending,
         Paired => \A f \in ToSet(Mine'.down) : f \in ToSet(Mine.down) \/ f.type # "result",
         Served' => Served,
         Served' /\ host'.addr # 0 => host.addr # 0 /\ host'.psk = host.psk
  PROVE  Agreed'
<1>1. (Settled' <=> Settled) /\ (Paired' <=> Paired) /\ (InSession' <=> InSession) /\ Key' = Key
  BY DEF Settled, Paired, InSession, Key
<1>2. pending'.addr \in {0, pending.addr}
  BY NoPendingType
<1>3. Settled => client.member /\ host'.addr \in {0, client.addr} /\ pending'.addr \in {0, client.addr}
  BY <1>2 DEF ClientInv, Agreed
<1>4. Paired => \A f \in ToSet(Mine'.down) : f.type = "result" =>
           host'.addr \in {0, f.addr} /\ pending'.addr \in {0, f.addr}
  BY <1>2 DEF ClientInv, Agreed
<1>5. Served' \/ InSession \/ (Paired /\ ~Lacks(Mine'.down, "result"))
           => pending' = NoPending \/ pending'.conn = client.conn
  BY DEF ClientInv, Agreed, Lacks
<1>6. Served' /\ host'.addr # 0 => host'.psk = Key
  BY DEF ClientInv, Agreed
<1> QED
  BY <1>1, <1>3, <1>4, <1>5, <1>6 DEF Agreed

(* The host refuses: a member is refused for good only when its lease is   *)
(* gone or has another PSK.                                                *)
LEMMA RefuseStep == ASSUME ClientInv, NEW c \in Conns, Refuse(c) PROVE ClientInv'
<1> DEFINE s == Refusal(conn[c], Head(conn[c].up))
           a == Answered(conn[c], Status(s))
           k == ClosedByHost(a)
<1>1. /\ conn[c].srv = "open" /\ conn[c] \in Connection
      /\ conn' = [conn EXCEPT ![c] = k]
      /\ s \in Statuses \ {"disabled"}
      /\ UNCHANGED <<client, saved, host, pending, owner, others, used>>
  BY DEF Refuse, Refusal, Statuses, ClientInv, TypeOK
<1>10. Settled /\ used.stops = 0 /\ s # "internal" => Gone
  <2> SUFFICES ASSUME Settled, used.stops = 0, ~Gone PROVE s \in {"none", "internal"}
    BY DEF Refuse
  <2> DEFINE r == Head(conn[c].up)
  <2>1. r \in ToSet(conn[c].up)
    BY <1>1, FramesOfTail DEF Refuse, HeadIs, Connection
  <2>2. r.member /\ r.key = client.psk /\ client.psk # 0
    BY <1>1, <2>1 DEF ClientInv, Requests, Agreed, Known
  <2>3. ByMemberKey(r) /\ ~ByRoomKey(conn[c], r) /\ host.addr # 0
    BY <2>2 DEF ByMemberKey, ByRoomKey, KnownMember, Gone, ClientInv, Sound
  <2> QED
    BY <2>3 DEF Refusal
<1> HIDE DEF s
<1>2. Status(s) \in Downward /\ Status(s).type = "status" /\ Status(s).status = s
  BY <1>1 DEF Status, Downward
<1>3. /\ a \in Connection /\ a.open = conn[c].open
      /\ ToSet(a.down) \subseteq ToSet(conn[c].down) \cup {Status(s)}
      /\ a.down = conn[c].down \/ (conn[c].open /\ a.down = Append(conn[c].down, Status(s)))
  BY <1>1, <1>2, AnsweredFrame
<1> HIDE DEF a
<1>4. /\ k \in Connection /\ k.open = conn[c].open /\ k.srv \in {"over", "off"} /\ k.up = <<>>
      /\ conn[c].open => k.down = a.down
      /\ ~k.open => k.down = <<>>
  BY <1>3, HostCloses
<1> HIDE DEF k
<1>5. /\ conn' \in [Conns -> Connection]
      /\ conn'[c] = k /\ \A d \in Conns : d # c => conn'[d] = conn[d]
      /\ Ends'
      /\ c = client.conn => Mine' = k /\ Mine = conn[c]
      /\ Paired /\ c # client.conn => Mine' = Mine
  BY <1>1, <1>4, HostSide
<1>6. TypeOK'
  BY <1>1, <1>5 DEF ClientInv, TypeOK
<1>7. Requests'
  BY <1>1, <1>4, <1>5, RequestsKept
<1>8. Reports'
  <2> SUFFICES ASSUME Paired PROVE Reports'
    BY <1>1 DEF Reports, Paired
  <2>1. CASE c # client.conn
    BY <1>1, <1>5, <2>1 DEF ClientInv, Reports
  <2>2. CASE c = client.conn
    <3>1. client.at # "sync" /\ conn[c].open
      BY <1>1, <1>5, <2>2 DEF ClientInv, Ends, InSession
    <3> QED
      BY <1>1, <1>2, <1>3, <1>4, <1>5, <2>2, <3>1, FramesOfNone, ReportsKept
  <2> QED
    BY <2>1, <2>2
<1>9. Agreed'
  <2>1. Paired => \A f \in ToSet(Mine'.down) : f \in ToSet(Mine.down) \/ f.type # "result"
    BY <1>2, <1>3, <1>4, <1>5, FramesOfNone
  <2>2. Served' => Served
    BY <1>1, <1>4, <1>5 DEF Served, Paired
  <2> QED
    BY <1>1, <2>1, <2>2, AgreedKept
<1>11. Owned' /\ Sound' /\ Known'
  BY <1>1, <1>4, <1>5, OwnedKept, SoundKept, KnownKept
<1>12. Told'
  <2>1. CASE Paired /\ c = client.conn
    <3>1. ToSet(Mine'.down) \subseteq {Status(s)}
      BY <1>1, <1>3, <1>4, <1>5, <2>1, FramesOfNone DEF ClientInv, Requests
    <3>2. (Settled' <=> Settled) /\ (Gone' <=> Gone) /\ (Gone => ~(Leased' /\ host.psk = client.psk))
      BY <1>1 DEF Settled, Gone, Leased
    <3> QED
      BY <1>1, <1>2, <1>10, <3>1, <3>2 DEF ClientInv, Told
  <2>2. CASE ~(Paired /\ c = client.conn)
    BY <1>1, <1>5, <2>2, ToldKept
  <2> QED
    BY <2>1, <2>2
<1> QED
  BY <1>5, <1>6, <1>7, <1>8, <1>9, <1>11, <1>12 DEF ClientInv

(* The host reads the acknowledgement: the lease it had assigned is kept. *)
LEMMA AcknowledgeStep == ASSUME ClientInv, NEW c \in Conns, Acknowledge(c) PROVE ClientInv'
<1> DEFINE r == HostReads(conn[c])
           k == [r EXCEPT !.srv = "control"]
<1>1. /\ conn[c].srv = "pending" /\ conn[c].up # <<>> /\ conn[c] \in Connection
      /\ conn' = [conn EXCEPT ![c] = k]
      /\ UNCHANGED <<client, saved, owner, others, used>>
  BY DEF Acknowledge, HeadIs, ClientInv, TypeOK
<1>2. /\ r \in Connection /\ r.open = conn[c].open /\ r.down = conn[c].down
      /\ r.up = Tail(conn[c].up) /\ ToSet(r.up) \subseteq ToSet(conn[c].up)
  BY <1>1, HostReadsFrame
<1> HIDE DEF r
<1>3. /\ k \in Connection /\ k.open = conn[c].open /\ k.down = conn[c].down /\ k.up = r.up /\ k.srv = "control"
  BY <1>2 DEF Connection
<1> HIDE DEF k
<1>4. /\ conn' \in [Conns -> Connection]
      /\ conn'[c] = k /\ \A d \in Conns : d # c => conn'[d] = conn[d]
      /\ Ends'
      /\ c = client.conn => Mine' = k /\ Mine = conn[c]
      /\ Paired /\ c # client.conn => Mine' = Mine
  <2>1. ~k.open => k.down = <<>>
    BY <1>3 DEF ClientInv, Ends
  <2> QED
    BY <1>1, <1>3, <2>1, HostSide
<1>5. /\ \/ pending' = NoPending /\ host' = [host EXCEPT !.state = "configured", !.timer = FALSE]
         \/ UNCHANGED <<pending, host>>
      /\ host'.addr = host.addr /\ host'.psk = host.psk
  BY DEF Acknowledge, ClientInv, TypeOK
<1>6. TypeOK'
  <2>1. host' \in [running : BOOLEAN, listening : BOOLEAN, key : Nat, addr : Nat, psk : Nat, state : States, timer : BOOLEAN]
    BY <1>5 DEF ClientInv, TypeOK, States
  <2>2. pending' = NoPending \/ pending' = pending
    BY <1>5
  <2> QED
    BY <1>1, <1>4, <2>1, <2>2, NoPendingType DEF ClientInv, TypeOK
<1>7. Requests'
  BY <1>1, <1>3, <1>4, RequestsKept
<1>8. Reports'
  <2> SUFFICES ASSUME Paired PROVE Reports'
    BY <1>1 DEF Reports, Paired
  <2>1. CASE c # client.conn
    BY <1>1, <1>4, <2>1 DEF ClientInv, Reports
  <2>2. CASE c = client.conn
    <3>1. client.at = "sync" => Single(k.up, "report") /\ Single(k.down, "list")
      <4>1. conn[c].up \in Seq(Upward)
        BY <1>1 DEF Connection
      <4> QED
        BY <1>1, <1>2, <1>3, <1>4, <2>2, <4>1, SingleTail DEF ClientInv, Reports
    <3> QED
      BY <1>1, <1>2, <1>3, <1>4, <2>2, <3>1, ReportsKept
  <2> QED
    BY <2>1, <2>2
<1>9. Agreed'
  <2>1. Paired => \A f \in ToSet(Mine'.down) : f \in ToSet(Mine.down)
    BY <1>3, <1>4
  <2>2. Served' => Served
    BY <1>1, <1>4 DEF Served, Paired
  <2>3. pending' = pending \/ pending' = NoPending
    BY <1>5
  <2> QED
    BY <1>1, <1>5, <2>1, <2>2, <2>3, AgreedKept
<1>10. Owned' /\ Known'
  BY <1>1, <1>3, <1>4, OwnedKept, KnownKept
<1>11. Sound' /\ Told'
  <2>1. CASE host.running /\ pending.conn = c
    <3>1. pending' = NoPending /\ pending # NoPending /\ host' = [host EXCEPT !.state = "configured", !.timer = FALSE]
      BY <2>1, ConnAssumption, NoPendingType DEF Acknowledge
    <3>2. host'.running = host.running /\ host'.listening = host.listening /\ ~host'.timer
      BY <3>1 DEF ClientInv, TypeOK
    <3>3. Sound'
      BY <1>1, <3>1, <3>2 DEF ClientInv, Sound
    <3>4. /\ (Settled' <=> Settled) /\ (Paired' <=> Paired)
          /\ Gone => ~(Leased' /\ host.psk = client.psk)
      BY <1>1, <1>5 DEF Settled, Paired, Gone, Leased
    <3>5. Paired => Mine'.down = Mine.down
      BY <1>3, <1>4
    <3>6. Told'
      BY <1>1, <1>5, <3>1, <3>4, <3>5 DEF ClientInv, Told
    <3> QED
      BY <3>3, <3>6
  <2>2. CASE ~(host.running /\ pending.conn = c)
    <3>1. UNCHANGED <<pending, host>>
      BY <2>2 DEF Acknowledge
    <3>2. Told'
      BY <1>1, <1>3, <1>4, <3>1, ToldKept
    <3>3. Sound'
      BY <1>1, <1>4, <2>2, <3>1 DEF ClientInv, Sound
    <3> QED
      BY <3>2, <3>3
  <2> QED
    BY <2>1, <2>2
<1> QED
  BY <1>4, <1>6, <1>7, <1>8, <1>9, <1>10, <1>11 DEF ClientInv

(* What pairingFailed does to the room. *)
LEMMA PairingFailedHost ==
  ASSUME TypeOK, NEW c \in Conns, PairingFailed(c)
  PROVE  /\ host' \in [running : BOOLEAN, listening : BOOLEAN, key : Nat, addr : Nat, psk : Nat, state : States, timer : BOOLEAN]
         /\ host'.running = host.running /\ host'.listening = host.listening
         /\ pending.conn = c => pending' = NoPending
         /\ pending.conn # c => UNCHANGED <<pending, host>>
         /\ host'.addr \in {host.addr, pending.addr}
         /\ pending.conn = c =>
              \/ host'.addr = host.addr /\ host'.psk = host.psk /\ host'.state = host.state
              \/ pending.addr # 0 /\ host'.psk = pending.psk /\ host'.state = pending.state /\ host'.timer = host.timer
<1>1. CASE pending.conn # c
  BY <1>1 DEF PairingFailed, TypeOK
<1>2. CASE pending.conn = c /\ pending.addr = 0
  <2>1. pending' = NoPending /\ host' = [host EXCEPT !.timer = TRUE]
    BY <1>2 DEF PairingFailed
  <2> QED
    BY <1>2, <2>1 DEF TypeOK
<1>3. CASE pending.conn = c /\ pending.addr # 0
  <2> DEFINE a == IF pending.addr \in others THEN host.addr ELSE pending.addr
  <2>1. pending' = NoPending /\ host' = [host EXCEPT !.addr = a, !.psk = pending.psk, !.state = pending.state]
    BY <1>3 DEF PairingFailed
  <2>2. a \in Nat /\ a \in {host.addr, pending.addr}
    BY DEF TypeOK
  <2> HIDE DEF a
  <2> QED
    BY <1>3, <2>1, <2>2 DEF TypeOK
<1> QED
  BY <1>1, <1>2, <1>3

(* A handler fails: a lease that was there is restored as it was before it *)
(* was assigned again.                                                     *)
LEMMA ServerFailsStep == ASSUME ClientInv, NEW c \in Conns, ServerFails(c) PROVE ClientInv'
<1> DEFINE k == ClosedByHost(conn[c])
<1>1. /\ conn[c] \in Connection /\ conn[c].srv # "over" /\ conn[c].srv # "off"
      /\ conn' = [conn EXCEPT ![c] = k]
      /\ UNCHANGED <<client, saved, others>>
      /\ owner' \in Conns \cup {NoConn}
  BY DEF ServerFails, ClientInv, TypeOK
<1>2. /\ k \in Connection /\ k.open = conn[c].open /\ k.srv \in {"over", "off"} /\ k.up = <<>>
      /\ k.open => k.down = conn[c].down
      /\ ~k.open => k.down = <<>>
  BY <1>1, HostCloses
<1> HIDE DEF k
<1>3. /\ conn' \in [Conns -> Connection]
      /\ conn'[c] = k /\ \A d \in Conns : d # c => conn'[d] = conn[d]
      /\ Ends'
      /\ c = client.conn => Mine' = k /\ Mine = conn[c]
      /\ Paired /\ c # client.conn => Mine' = Mine
  BY <1>1, <1>2, HostSide
<1>4. /\ host' \in [running : BOOLEAN, listening : BOOLEAN, key : Nat, addr : Nat, psk : Nat, state : States, timer : BOOLEAN]
      /\ pending' = pending \/ pending' = NoPending
      /\ pending = NoPending \/ pending.conn # c => UNCHANGED <<pending, host>>
      /\ host'.addr \in {host.addr, pending.addr}
  <2>1. CASE conn[c].srv = "pending"
    <3>1. PairingFailed(c)
      BY <2>1 DEF ServerFails
    <3>2. pending = NoPending => pending.conn # c
      BY ConnAssumption, NoPendingType
    <3> QED
      BY <3>1, <3>2, PairingFailedHost DEF ClientInv
  <2>2. CASE conn[c].srv # "pending"
    BY <2>2 DEF ServerFails, ClientInv, TypeOK
  <2> QED
    BY <2>1, <2>2
<1>5. TypeOK'
  <2>1. used' \in [losses : Nat, joins : Nat, removes : Nat, stops : Nat]
    BY ReadFailsUsed DEF ServerFails, ClientInv
  <2> QED
    BY <1>1, <1>3, <1>4, <2>1, NoPendingType DEF ClientInv, TypeOK
<1>6. Requests'
  BY <1>1, <1>2, <1>3, RequestsKept
<1>7. Reports'
  <2> SUFFICES ASSUME Paired PROVE Reports'
    BY <1>1 DEF Reports, Paired
  <2>1. CASE c # client.conn
    BY <1>1, <1>3, <2>1 DEF ClientInv, Reports
  <2>2. CASE c = client.conn
    <3>1. k.down = conn[c].down
      BY <1>2, <2>2 DEF ClientInv, Ends
    <3>2. Single(k.up, "report")
      BY <1>2 DEF Single
    <3>3. client.at = "sync" => Single(k.down, "list")
      BY <1>3, <2>2, <3>1 DEF ClientInv, Reports
    <3> QED
      BY <1>1, <1>2, <1>3, <2>2, <3>1, <3>2, <3>3, FramesOfNone, ReportsKept
  <2> QED
    BY <2>1, <2>2
<1>8. Agreed'
  <2>1. Paired => \A f \in ToSet(Mine'.down) : f \in ToSet(Mine.down)
    BY <1>2, <1>3, FramesOfNone
  <2>2. Served' => Served /\ c # client.conn
    BY <1>1, <1>2, <1>3 DEF Served, Paired
  <2>3. Served' => UNCHANGED <<pending, host>>
    BY <1>4, <2>2 DEF ClientInv, Agreed
  <2> QED
    BY <1>1, <1>4, <2>1, <2>2, <2>3, AgreedKept
<1>9. Owned' /\ Known'
  <2>1. owner' \in {owner, NoConn} /\ owner' # c
    BY ConnAssumption DEF ServerFails
  <2> QED
    BY <1>1, <1>3, <2>1, OwnedKept, KnownKept
<1>10. used'.stops = used.stops
  BY ReadFailsUsed DEF ServerFails, ClientInv
<1>11. Sound' /\ Told'
  <2>1. Paired => \A f \in ToSet(Mine'.down) : f \in ToSet(Mine.down)
    BY <1>2, <1>3, FramesOfNone
  <2>2. CASE pending.conn = c /\ conn[c].srv = "pending"
    <3>1. PairingFailed(c) /\ TypeOK
      BY <2>2 DEF ServerFails, ClientInv
    <3>2. /\ host'.running = host.running /\ host'.listening = host.listening
          /\ pending' = NoPending /\ pending # NoPending
          /\ host'.addr \in {host.addr, pending.addr}
          /\ \/ host'.addr = host.addr /\ host'.psk = host.psk /\ host'.state = host.state
             \/ pending.addr # 0 /\ host'.psk = pending.psk /\ host'.state = pending.state /\ host'.timer = host.timer
      BY <2>2, <3>1, PairingFailedHost, ConnAssumption, NoPendingType
    <3>3. Sound'
      BY <1>10, <3>2, NoPendingType DEF ClientInv, Sound, Acked
    <3>4. (Settled' <=> Settled) /\ (Paired' <=> Paired)
      BY <1>1 DEF Settled, Paired
    <3>5. ASSUME used.stops = 0, Settled, ~(Leased /\ host.psk = client.psk), Gone
          PROVE  ~(Leased' /\ host'.psk = client.psk)
      <4>1. host.state \notin Acked /\ (host.addr = 0 => pending.addr = 0 \/ pending.state \notin Acked)
        BY <3>2, <3>5 DEF ClientInv, Sound
      <4>2. host.addr = 0
        BY <3>2, <3>5 DEF ClientInv, Told, Gone
      <4> QED
        BY <3>2, <4>1, <4>2 DEF Leased, Acked
    <3>6. Told'
      BY <1>1, <1>10, <2>1, <3>2, <3>4, <3>5 DEF ClientInv, Told
    <3> QED
      BY <3>3, <3>6
  <2>3. CASE pending.conn # c \/ conn[c].srv # "pending"
    <3>1. UNCHANGED <<pending, host>>
      BY <2>3 DEF ServerFails, PairingFailed
    <3>2. Told'
      BY <1>1, <1>10, <2>1, <3>1, ToldKept
    <3>3. Sound'
      BY <1>3, <1>10, <2>3, <3>1 DEF ClientInv, Sound
    <3> QED
      BY <3>2, <3>3
  <2> QED
    BY <2>2, <2>3
<1> QED
  BY <1>3, <1>5, <1>6, <1>7, <1>8, <1>9, <1>11 DEF ClientInv

(* The host answers with a status and closes. *)
LEMMA DisabledStep ==
  ASSUME ClientInv, NEW c \in Conns, Control(c), ~KnownMember
  PROVE  ClientInv'
<1> DEFINE a == Answered(conn[c], Status("disabled"))
           k == ClosedByHost(a)
<1>1. /\ conn[c].srv = "control" /\ conn[c] \in Connection
      /\ conn' = [conn EXCEPT ![c] = k]
      /\ owner' \in Conns \cup {NoConn}
      /\ UNCHANGED <<client, saved, host, pending, others, used>>
  BY DEF Control, ClientInv, TypeOK
<1>2. Status("disabled") \in Downward /\ Status("disabled").type = "status"
  BY DEF Status, Downward, Statuses
<1>3. /\ a \in Connection /\ a.open = conn[c].open
      /\ ToSet(a.down) \subseteq ToSet(conn[c].down) \cup {Status("disabled")}
      /\ a.down = conn[c].down \/ a.down = Append(conn[c].down, Status("disabled"))
  BY <1>1, <1>2, AnsweredFrame
<1> HIDE DEF a
<1>4. /\ k \in Connection /\ k.open = conn[c].open /\ k.srv \in {"over", "off"} /\ k.up = <<>>
      /\ conn[c].open => k.down = a.down
      /\ ~k.open => k.down = <<>>
  BY <1>3, HostCloses
<1> HIDE DEF k
<1>5. /\ conn' \in [Conns -> Connection]
      /\ conn'[c] = k /\ \A d \in Conns : d # c => conn'[d] = conn[d]
      /\ Ends'
      /\ c = client.conn => Mine' = k /\ Mine = conn[c]
      /\ Paired /\ c # client.conn => Mine' = Mine
  BY <1>1, <1>4, HostSide
<1>6. TypeOK'
  BY <1>1, <1>5 DEF ClientInv, TypeOK
<1>7. Requests'
  BY <1>1, <1>4, <1>5, RequestsKept
<1>8. Reports'
  <2> SUFFICES ASSUME Paired PROVE Reports'
    BY <1>1 DEF Reports, Paired
  <2>1. CASE c # client.conn
    BY <1>1, <1>5, <2>1 DEF ClientInv, Reports
  <2>2. CASE c = client.conn
    <3>1. k.down = a.down
      BY <1>4, <2>2 DEF ClientInv, Ends
    <3>2. Single(k.up, "report")
      BY <1>4 DEF Single
    <3>3. client.at = "sync" => Single(k.down, "list")
      <4>1. conn[c].down \in Seq(Downward)
        BY <1>1 DEF Connection
      <4>2. client.at = "sync" => Single(conn[c].down, "list")
        BY <1>5, <2>2 DEF ClientInv, Reports
      <4> QED
        BY <1>2, <1>3, <3>1, <4>1, <4>2, SingleAppend
    <3> QED
      BY <1>1, <1>2, <1>3, <1>4, <1>5, <2>2, <3>1, <3>2, <3>3, FramesOfNone, ReportsKept
  <2> QED
    BY <2>1, <2>2
<1>9. Agreed'
  <2>1. Paired => \A f \in ToSet(Mine'.down) : f \in ToSet(Mine.down) \/ f.type # "result"
    BY <1>2, <1>3, <1>4, <1>5, FramesOfNone
  <2>2. Served' => Served
    BY <1>1, <1>4, <1>5 DEF Served, Paired
  <2> QED
    BY <1>1, <2>1, <2>2, AgreedKept
<1>10. Owned' /\ Known' /\ Sound'
  <2>1. owner' \in {owner, NoConn} /\ owner' # c
    BY ConnAssumption DEF Control
  <2> QED
    BY <1>1, <1>5, <2>1, OwnedKept, KnownKept, SoundKept
<1>11. Told'
  <2>1. CASE Paired /\ c = client.conn /\ used.stops = 0
    <3>1. host.addr = 0
      BY <2>1 DEF KnownMember, ClientInv, Sound
    <3>2. pending = NoPending
      BY <1>1, <1>5, <2>1 DEF ClientInv, Sound, Agreed, Served
    <3>3. ~Leased'
      BY <1>1, <3>1 DEF Leased
    <3> QED
      BY <1>1, <3>1, <3>2, <3>3 DEF Told
  <2>2. CASE used.stops # 0
    BY <1>1, <2>2 DEF Told
  <2>3. CASE ~(Paired /\ c = client.conn)
    BY <1>1, <1>5, <2>3, ToldKept
  <2> QED
    BY <2>1, <2>2, <2>3
<1> QED
  BY <1>5, <1>6, <1>7, <1>8, <1>9, <1>10, <1>11 DEF ClientInv

(* The host reads a report and answers it. *)
LEMMA ListStep ==
  ASSUME ClientInv, NEW c \in Conns, Control(c), KnownMember
  PROVE  ClientInv'
<1> DEFINE f == Head(conn[c].up)
           n == f.report
           r == HostReads(conn[c])
           k == Answered(r, List(n))
<1>1. /\ conn[c].srv = "control" /\ conn[c] \in Connection
      /\ conn[c].up # <<>> /\ f.type = "report"
      /\ conn' = [conn EXCEPT ![c] = k]
      /\ owner' = c
      /\ UNCHANGED <<client, saved, host, pending, others, used>>
  BY DEF Control, HeadIs, ClientInv, TypeOK
<1>2. f \in Upward /\ f \in ToSet(conn[c].up) /\ conn[c].up \in Seq(Upward) /\ conn[c].down \in Seq(Downward)
  BY <1>1, FramesOfTail DEF Connection
<1>3. n \in {0, 1}
  BY <1>1, <1>2 DEF Upward, Ack
<1>4. List(n) \in Downward /\ List(n).type = "list" /\ List(n).report = n
  BY <1>3 DEF List, Downward
<1>5. /\ r \in Connection /\ r.open = conn[c].open /\ r.down = conn[c].down /\ r.srv = "control"
      /\ r.up = Tail(conn[c].up) /\ ToSet(r.up) \subseteq ToSet(conn[c].up)
  BY <1>1, HostReadsFrame
<1> HIDE DEF r, n
<1>6. /\ k \in Connection /\ k.open = conn[c].open /\ k.srv = "control" /\ k.up = r.up
      /\ k.down = conn[c].down \/ (conn[c].open /\ k.down = Append(conn[c].down, List(n)))
      /\ ToSet(k.down) \subseteq ToSet(conn[c].down) \cup {List(n)}
  BY <1>4, <1>5, AnsweredFrame
<1> HIDE DEF k
<1>7. /\ conn' \in [Conns -> Connection]
      /\ conn'[c] = k /\ \A d \in Conns : d # c => conn'[d] = conn[d]
      /\ Ends'
      /\ c = client.conn => Mine' = k /\ Mine = conn[c]
      /\ Paired /\ c # client.conn => Mine' = Mine
  <2>1. ~k.open => k.down = <<>>
    BY <1>6 DEF ClientInv, Ends
  <2> QED
    BY <1>1, <1>6, <2>1, HostSide
<1>8. TypeOK'
  BY <1>1, <1>7 DEF ClientInv, TypeOK
<1>9. Requests'
  BY <1>1, <1>6, <1>7, RequestsKept
<1>10. Reports'
  <2> SUFFICES ASSUME Paired PROVE Reports'
    BY <1>1 DEF Reports, Paired
  <2>1. CASE c # client.conn
    BY <1>1, <1>7, <2>1 DEF ClientInv, Reports
  <2>2. CASE c = client.conn
    <3>1. ~Lacks(conn[c].up, "report") /\ Mine = conn[c] /\ Mine' = k
      BY <1>1, <1>2, <1>7, <2>2 DEF Lacks
    <3>2. client.at = "sync"
      BY <3>1 DEF Paired, ClientInv, Reports
    <3>3. /\ Single(conn[c].up, "report") /\ Single(conn[c].down, "list") /\ Lacks(conn[c].down, "list")
          /\ n = client.report
      BY <1>1, <1>2, <3>1, <3>2 DEF ClientInv, Reports, n
    <3>4. Lacks(k.up, "report") /\ Single(k.up, "report")
      BY <1>1, <1>2, <1>5, <1>6, <3>3, SingleTail DEF Lacks
    <3>5. Single(k.down, "list")
      <4>1. \A g \in ToSet(conn[c].down) : g.type # "list"
        BY <3>3 DEF Lacks
      <4>2. Single(Append(conn[c].down, List(n)), "list")
        BY <1>2, <1>4, <3>3, <4>1, SingleAppend
      <4> QED
        BY <1>6, <3>3, <4>2
    <3>6. \A g \in ToSet(k.down) : g.type = "list" => g.report = client.report
      BY <1>4, <1>6, <3>3 DEF Lacks
    <3>7. \A g \in ToSet(k.up) : g.type = "report" => g.report = client.report
      BY <3>4 DEF Lacks
    <3> QED
      BY <1>1, <3>1, <3>2, <3>4, <3>5, <3>6, <3>7 DEF Reports
  <2> QED
    BY <2>1, <2>2
<1>11. Agreed'
  <2>1. Paired => \A g \in ToSet(Mine'.down) : g \in ToSet(Mine.down) \/ g.type # "result"
    BY <1>4, <1>6, <1>7
  <2>2. Served' => Served
    BY <1>1, <1>6, <1>7 DEF Served, Paired
  <2> QED
    BY <1>1, <2>1, <2>2, AgreedKept
<1>12. Owned' /\ Known' /\ Sound'
  <2>1. Owned'
    BY <1>1, <1>6, <1>7 DEF Owned
  <2> QED
    BY <1>1, <1>7, <2>1, KnownKept, SoundKept
<1>13. Told'
  <2>1. Paired => \A g \in ToSet(Mine'.down) : g \in ToSet(Mine.down) \/ g.type # "status"
    BY <1>4, <1>6, <1>7
  <2> QED
    BY <1>1, <2>1, ToldKept
<1> QED
  BY <1>7, <1>8, <1>9, <1>10, <1>11, <1>12, <1>13 DEF ClientInv

(* A connection breaks with what is under way. *)
LEMMA LoseStep == ASSUME ClientInv, NEW c \in Conns, Lose(c) PROVE ClientInv'
<1>1. PICK up \in Prefixes(conn[c].up), down \in Prefixes(conn[c].down) :
        conn' = [conn EXCEPT ![c].cut = TRUE, ![c].up = up, ![c].down = down]
  BY DEF Lose
<1> DEFINE k == [conn[c] EXCEPT !.cut = TRUE, !.up = up, !.down = down]
<1>2. conn[c] \in Connection /\ conn[c].up \in Seq(Upward) /\ conn[c].down \in Seq(Downward)
  BY DEF ClientInv, TypeOK, Connection
<1>3. /\ up \in Seq(Upward) /\ ToSet(up) \subseteq ToSet(conn[c].up)
      /\ down \in Seq(Downward) /\ ToSet(down) \subseteq ToSet(conn[c].down)
  BY <1>1, <1>2, FramesOfPrefix
<1>4. /\ k \in Connection /\ k.srv = conn[c].srv /\ k.open = conn[c].open /\ k.up = up /\ k.down = down
  BY <1>2, <1>3 DEF Connection
<1>5. conn' = [conn EXCEPT ![c] = k]
  BY <1>1, <1>2 DEF ClientInv, TypeOK, Connection
<1> HIDE DEF k
<1>6. conn[c].down = <<>> => k.down = <<>>
  BY <1>1, <1>4 DEF Prefixes
<1>7. /\ UNCHANGED <<client, saved, host, pending, owner, others>>
      /\ used' \in [losses : Nat, joins : Nat, removes : Nat, stops : Nat] /\ used'.stops = used.stops
  BY DEF Lose, ClientInv, TypeOK
<1>8. /\ conn' \in [Conns -> Connection]
      /\ conn'[c] = k /\ \A d \in Conns : d # c => conn'[d] = conn[d]
      /\ Ends'
      /\ c = client.conn => Mine' = k /\ Mine = conn[c]
      /\ Paired /\ c # client.conn => Mine' = Mine
  <2>1. ~k.open => k.down = <<>>
    BY <1>4, <1>6 DEF ClientInv, Ends
  <2> QED
    BY <1>4, <1>5, <1>7, <2>1, HostSide
<1>9. TypeOK'
  BY <1>7, <1>8 DEF ClientInv, TypeOK
<1>10. Requests'
  <2>1. k.srv = "open" => conn[c].srv = "open" /\ k.down = <<>>
    BY <1>4, <1>6 DEF ClientInv, Requests
  <2> QED
    BY <1>3, <1>4, <1>7, <1>8, <2>1, RequestsKept
<1>11. Reports'
  <2> SUFFICES ASSUME Paired PROVE Reports'
    BY <1>7 DEF Reports, Paired
  <2>1. CASE c # client.conn
    BY <1>7, <1>8, <2>1 DEF ClientInv, Reports
  <2>2. CASE c = client.conn
    <3>1. client.at = "sync" => Single(conn[c].up, "report") /\ Single(conn[c].down, "list")
      BY <1>8, <2>2 DEF ClientInv, Reports
    <3>2. client.at = "sync" => Single(k.up, "report") /\ Single(k.down, "list")
      BY <1>1, <1>2, <1>4, <3>1, SinglePrefix
    <3> QED
      BY <1>3, <1>4, <1>7, <1>8, <2>2, <3>2, ReportsKept
  <2> QED
    BY <2>1, <2>2
<1>12. Agreed'
  <2>1. Paired => \A f \in ToSet(Mine'.down) : f \in ToSet(Mine.down)
    BY <1>3, <1>4, <1>8
  <2>2. Served' => Served
    BY <1>4, <1>7, <1>8 DEF Served, Paired
  <2> QED
    BY <1>7, <2>1, <2>2, AgreedKept
<1>13. Owned' /\ Known' /\ Sound'
  BY <1>4, <1>7, <1>8, OwnedKept, KnownKept, SoundKept
<1>14. Told'
  <2>1. Paired => \A f \in ToSet(Mine'.down) : f \in ToSet(Mine.down)
    BY <1>3, <1>4, <1>8
  <2> QED
    BY <1>7, <2>1, ToldKept
<1> QED
  BY <1>8, <1>9, <1>10, <1>11, <1>12, <1>13, <1>14 DEF ClientInv

(* What assign does to the room: a member keeps its lease, another device  *)
(* gets its old address or a free one and the key of the room.             *)
LEMMA AssignHost ==
  ASSUME ClientInv, NEW c \in Conns, Assign(c)
  PROVE  \E a \in Nat \ {0} :
           LET r == Head(conn[c].up) IN
           /\ conn' = [conn EXCEPT ![c] = Answered([HostReads(conn[c]) EXCEPT !.srv = "pending"], Result(a))]
           /\ pending = NoPending
           /\ pending' = [conn |-> c, addr |-> host.addr, psk |-> host.psk, state |-> host.state]
           /\ host' \in [running : BOOLEAN, listening : BOOLEAN, key : Nat, addr : Nat, psk : Nat, state : States, timer : BOOLEAN]
           /\ host'.addr = a /\ host.addr \in {0, a}
           /\ host'.state = "pairing" /\ host'.running = host.running /\ host'.listening = host.listening
           /\ host'.timer = host.timer
           /\ r.member => host.addr # 0 /\ host.psk = r.key /\ host'.psk = host.psk
           /\ ~r.member => host'.psk = r.key
<1> DEFINE r == Head(conn[c].up)
           a == IF host.addr # 0 THEN host.addr ELSE Min(Addrs \ others)
<1>1. /\ pending' = [conn |-> c, addr |-> host.addr, psk |-> host.psk, state |-> host.state]
      /\ host' = [host EXCEPT !.addr = a, !.psk = IF r.member THEN @ ELSE conn[c].key, !.state = "pairing"]
      /\ conn' = [conn EXCEPT ![c] = Answered([HostReads(conn[c]) EXCEPT !.srv = "pending"], Result(a))]
      /\ Refusal(conn[c], r) = "none"
  BY DEF Assign
<1>2. /\ ByRoomKey(conn[c], r) \/ ByMemberKey(r)
      /\ pending = NoPending
      /\ host.addr # 0 \/ ~(Addrs \subseteq others)
  BY <1>1 DEF Refusal
<1>3. a \in Nat \ {0} /\ host.addr \in {0, a}
  <2>1. CASE host.addr # 0
    BY <2>1 DEF ClientInv, TypeOK
  <2>2. CASE host.addr = 0
    <3>1. Addrs \ others # {} /\ Addrs \ others \in SUBSET Nat
      BY <1>2, <2>2, AddrAssumption
    <3>2. Min(Addrs \ others) \in Addrs \ others
      BY <3>1, LeastAddress
    <3> QED
      BY <2>2, <3>2, AddrAssumption
  <2> QED
    BY <2>1, <2>2
<1> HIDE DEF a
<1>4. conn[c].key \in Nat
  BY DEF ClientInv, TypeOK, Connection
<1>5. /\ host' \in [running : BOOLEAN, listening : BOOLEAN, key : Nat, addr : Nat, psk : Nat, state : States, timer : BOOLEAN]
      /\ host'.addr = a /\ host'.psk = (IF r.member THEN host.psk ELSE conn[c].key)
      /\ host'.state = "pairing" /\ host'.running = host.running /\ host'.listening = host.listening
      /\ host'.timer = host.timer
  BY <1>1, <1>3, <1>4 DEF ClientInv, TypeOK, States
<1>6. /\ r.member => host.addr # 0 /\ host.psk = r.key
      /\ ~r.member => r.key = conn[c].key
  BY <1>2 DEF ByRoomKey, ByMemberKey, KnownMember
<1>7. (r.member => host'.psk = host.psk) /\ (~r.member => host'.psk = r.key)
  BY <1>5, <1>6
<1> QED
  BY <1>1, <1>2, <1>3, <1>5, <1>6, <1>7

(* The host assigns an address and waits for the acknowledgement. *)
LEMMA AssignStep == ASSUME ClientInv, NEW c \in Conns, Assign(c) PROVE ClientInv'
<1> DEFINE r == Head(conn[c].up)
<1>1. PICK a \in Nat \ {0} :
           /\ conn' = [conn EXCEPT ![c] = Answered([HostReads(conn[c]) EXCEPT !.srv = "pending"], Result(a))]
           /\ pending = NoPending
           /\ pending' = [conn |-> c, addr |-> host.addr, psk |-> host.psk, state |-> host.state]
           /\ host' \in [running : BOOLEAN, listening : BOOLEAN, key : Nat, addr : Nat, psk : Nat, state : States, timer : BOOLEAN]
           /\ host'.addr = a /\ host.addr \in {0, a}
           /\ host'.state = "pairing" /\ host'.running = host.running /\ host'.listening = host.listening
           /\ host'.timer = host.timer
           /\ r.member => host.addr # 0 /\ host.psk = r.key /\ host'.psk = host.psk
           /\ ~r.member => host'.psk = r.key
  BY AssignHost
<1> DEFINE b == HostReads(conn[c])
           m == [b EXCEPT !.srv = "pending"]
           k == Answered(m, Result(a))
<1>2. /\ conn[c].srv = "open" /\ conn[c] \in Connection /\ conn[c].up # <<>>
      /\ UNCHANGED <<client, saved, owner, others, used>>
  BY DEF Assign, HeadIs, ClientInv, TypeOK
<1>3. r \in ToSet(conn[c].up)
  BY <1>2, FramesOfTail DEF Connection
<1>4. Result(a) \in Downward /\ Result(a).type = "result" /\ Result(a).addr = a
  BY DEF Result, Downward
<1>5. /\ b \in Connection /\ b.open = conn[c].open /\ b.down = conn[c].down
      /\ b.up = Tail(conn[c].up) /\ ToSet(b.up) \subseteq ToSet(conn[c].up)
  BY <1>2, HostReadsFrame
<1> HIDE DEF b
<1>6. m \in Connection /\ m.open = conn[c].open /\ m.down = conn[c].down /\ m.up = b.up /\ m.srv = "pending"
  BY <1>5 DEF Connection
<1>7. conn' = [conn EXCEPT ![c] = k]
  BY <1>1 DEF b
<1> HIDE DEF m
<1>8. /\ k \in Connection /\ k.open = conn[c].open /\ k.up = b.up /\ k.srv = "pending"
      /\ k.down = conn[c].down \/ conn[c].open
      /\ ToSet(k.down) \subseteq ToSet(conn[c].down) \cup {Result(a)}
  <2>0. Result(a) \in Downward /\ m \in Connection
    BY <1>4, <1>6
  <2>1. /\ k \in Connection /\ k.open = m.open /\ k.up = m.up /\ k.srv = m.srv
        /\ k.down = m.down \/ m.open
        /\ ToSet(k.down) \subseteq ToSet(m.down) \cup {Result(a)}
    BY <2>0, AnsweredFrame, Zenon
  <2> HIDE DEF k
  <2> QED
    BY <1>6, <2>1
<1> HIDE DEF k
<1>9. /\ conn' \in [Conns -> Connection]
      /\ conn'[c] = k /\ \A d \in Conns : d # c => conn'[d] = conn[d]
      /\ Ends'
      /\ c = client.conn => Mine' = k /\ Mine = conn[c]
      /\ Paired /\ c # client.conn => Mine' = Mine
  <2>1. ~k.open => k.down = <<>>
    BY <1>8 DEF ClientInv, Ends
  <2> QED
    BY <1>2, <1>7, <1>8, <2>1, HostSide
<1>10. TypeOK'
  <2>1. pending' \in [conn : Conns \cup {NoConn}, addr : Nat, psk : Nat, state : States]
    BY <1>1 DEF ClientInv, TypeOK
  <2> QED
    BY <1>1, <1>2, <1>9, <2>1 DEF ClientInv, TypeOK
<1>11. Requests'
  BY <1>2, <1>8, <1>9, RequestsKept
<1>12. Paired => c = client.conn /\ ~InSession
  BY <1>2, <1>9 DEF ClientInv, Ends, LeftBehind
<1>13. Reports'
  <2> SUFFICES ASSUME Paired PROVE Reports'
    BY <1>2 DEF Reports, Paired
  <2>1. client.at # "sync"
    BY <1>12 DEF InSession
  <2> QED
    BY <1>2, <1>4, <1>5, <1>8, <1>9, <1>12, <2>1, ReportsKept
<1>14. Agreed'
  <2>1. (Settled' <=> Settled) /\ (Paired' <=> Paired) /\ (InSession' <=> InSession) /\ Key' = Key
    BY <1>2 DEF Settled, Paired, InSession, Key
  <2>2. pending'.addr = host.addr /\ pending'.conn = c
    BY <1>1
  <2>3. Settled => client.member /\ host'.addr \in {0, client.addr} /\ pending'.addr \in {0, client.addr}
    <3>1. Settled => r.member /\ client.member /\ host.addr \in {0, client.addr}
      BY <1>2, <1>3 DEF ClientInv, Requests, Agreed
    <3> QED
      BY <1>1, <2>2, <3>1
  <2>4. Paired => \A f \in ToSet(Mine'.down) : f.type = "result" => f.addr = a
    <3>1. ToSet(conn[c].down) = {}
      BY <1>2, FramesOfNone DEF ClientInv, Requests
    <3> QED
      BY <1>4, <1>8, <1>9, <1>12, <3>1
  <2>5. Paired => host'.psk = Key
    <3>1. Paired => r = Request(client)
      BY <1>2, <1>3, <1>12 DEF ClientInv, Requests
    <3>2. Paired => r.member = client.member /\ r.key = Key
      BY <3>1 DEF Request, Key
    <3>3. r.member => host'.psk = r.key
      BY <1>1
    <3> QED
      BY <1>1, <3>2, <3>3
  <2>6. Served' => Paired
    BY <2>1 DEF Served
  <2> QED
    <3>1. Paired => \A f \in ToSet(Mine'.down) : f.type = "result" =>
             host'.addr \in {0, f.addr} /\ pending'.addr \in {0, f.addr}
      BY <1>1, <2>2, <2>4
    <3>2. Served' \/ InSession \/ Paired => pending'.conn = client.conn
      BY <1>12, <2>2, <2>6 DEF InSession, Paired
    <3>3. Served' => host'.psk = Key
      BY <2>5, <2>6
    <3> QED
      BY <1>2, <2>1, <2>3, <3>1, <3>2, <3>3 DEF Agreed
<1>15. Owned' /\ Known'
  BY <1>2, <1>8, <1>9, OwnedKept, KnownKept
<1>16. Sound'
  <2>1. pending'.conn = c /\ pending'.state = host.state /\ conn'[c].srv = "pending"
    BY <1>1, <1>8, <1>9
  <2> QED
    BY <1>1, <1>2, <2>1 DEF ClientInv, Sound, Acked
<1>17. Told'
  <2>1. (Settled' <=> Settled) /\ (Paired' <=> Paired)
    BY <1>2 DEF Settled, Paired
  <2>2. Settled => host'.psk = client.psk
    BY <1>1, <1>2, <1>3 DEF ClientInv, Requests
  <2>3. Paired => \A f \in ToSet(Mine'.down) : f.type # "status"
    <3>1. ToSet(conn[c].down) = {}
      BY <1>2, FramesOfNone DEF ClientInv, Requests
    <3> QED
      BY <1>4, <1>8, <1>9, <1>12, <3>1
  <2> QED
    BY <1>2, <2>1, <2>2, <2>3 DEF Told
<1> QED
  BY <1>9, <1>10, <1>11, <1>13, <1>14, <1>15, <1>16, <1>17 DEF ClientInv

-----------------------------------------------------------------------------
(* What the room does by itself, without a frame: the address of the       *)
(* device stays or is taken from it.                                       *)
LEMMA RoomStep ==
  ASSUME ClientInv, UNCHANGED <<client, saved, conn, owner>>,
         host' \in [running : BOOLEAN, listening : BOOLEAN, key : Nat, addr : Nat, psk : Nat, state : States, timer : BOOLEAN],
         host'.addr = 0 \/ (host'.addr = host.addr /\ host'.psk = host.psk),
         pending' = pending \/ pending' = NoPending,
         others' \subseteq Addrs,
         used' \in [losses : Nat, joins : Nat, removes : Nat, stops : Nat],
         Sound', Told'
  PROVE  ClientInv'
<1>1. (Paired' <=> Paired) /\ (Settled' <=> Settled) /\ (InSession' <=> InSession) /\ (Served' <=> Served) /\ Mine' = Mine
  BY DEF Paired, Settled, InSession, Served, Mine
<1>2. TypeOK'
  BY NoPendingType DEF ClientInv, TypeOK
<1>3. Ends'
  BY <1>1 DEF ClientInv, Ends, LeftBehind
<1>4. Reports' /\ Requests'
  BY <1>1 DEF ClientInv, Reports, Requests
<1>5. Agreed'
  BY <1>1, AgreedKept
<1>6. Owned' /\ Known'
  BY OwnedKept, KnownKept
<1> QED
  BY <1>2, <1>3, <1>4, <1>5, <1>6 DEF ClientInv

(* A step that changes neither the lease nor whether the room runs. *)
LEMMA LeaseStays ==
  ASSUME ClientInv, UNCHANGED <<client, conn, pending>>, used'.stops = used.stops,
         host'.running = host.running, host'.listening = host.listening, host'.addr = host.addr,
         host'.psk = host.psk, host'.state = host.state, host'.timer = host.timer
  PROVE  Sound' /\ Told'
<1>1. /\ (Settled' <=> Settled) /\ (Paired' <=> Paired) /\ (Leased' <=> Leased) /\ (Gone' <=> Gone)
      /\ Mine' = Mine
  BY DEF Settled, Paired, Leased, Gone, Mine
<1>2. Sound'
  BY DEF ClientInv, Sound
<1>3. Told'
  BY <1>1 DEF ClientInv, Told
<1> QED
  BY <1>2, <1>3

(* The timer of a lease that was never acknowledged takes it back. *)
LEMMA TimerFiresStep == ASSUME ClientInv, TimerFires PROVE ClientInv'
<1>1. /\ host.timer /\ UNCHANGED <<client, saved, conn, pending, owner, others, used>>
      /\ host' = IF host.running /\ host.addr # 0 /\ host.state # "configured"
                   THEN [host EXCEPT !.timer = FALSE, !.addr = 0, !.psk = 0, !.state = ""]
                   ELSE [host EXCEPT !.timer = FALSE]
  BY DEF TimerFires
<1>2. /\ host' \in [running : BOOLEAN, listening : BOOLEAN, key : Nat, addr : Nat, psk : Nat, state : States, timer : BOOLEAN]
      /\ host'.running = host.running /\ host'.listening = host.listening /\ ~host'.timer
      /\ host'.addr = 0 \/ (host'.addr = host.addr /\ host'.psk = host.psk)
      /\ (host'.addr = 0 /\ host'.state = "") \/ (host'.addr = host.addr /\ host'.state = host.state)
  BY <1>1 DEF ClientInv, TypeOK, States
<1>3. Sound'
  BY <1>1, <1>2 DEF ClientInv, Sound, Acked
<1>4. Told'
  <2>1. /\ (Settled' <=> Settled) /\ (Paired' <=> Paired) /\ (Gone => Gone') /\ Mine' = Mine
        /\ (Leased' /\ host'.psk = client'.psk => Leased /\ host.psk = client.psk)
    BY <1>1, <1>2 DEF Settled, Paired, Leased, Gone, Mine
  <2> QED
    BY <1>1, <1>2, <2>1 DEF ClientInv, Told
<1> QED
  BY <1>1, <1>2, <1>3, <1>4, RoomStep DEF ClientInv, TypeOK

(* The key is changed, other members come and go, the room is stopped and  *)
(* started.                                                                *)
LEMMA RoomSteps ==
  ASSUME ClientInv, RotateKey \/ OtherJoins \/ (\E a \in others : OtherRemoved(a)) \/ Stop \/ Start
  PROVE  ClientInv'
<1>1. CASE RotateKey
  <2>1. /\ UNCHANGED <<client, saved, conn, pending, owner, others, used>>
        /\ host' = [host EXCEPT !.key = host.key + 1]
    BY <1>1 DEF RotateKey
  <2>2. /\ host' \in [running : BOOLEAN, listening : BOOLEAN, key : Nat, addr : Nat, psk : Nat, state : States, timer : BOOLEAN]
        /\ host'.running = host.running /\ host'.listening = host.listening /\ host'.addr = host.addr
        /\ host'.psk = host.psk /\ host'.state = host.state /\ host'.timer = host.timer
    BY <2>1 DEF ClientInv, TypeOK
  <2>3. Sound' /\ Told'
    BY <2>1, <2>2, LeaseStays
  <2> QED
    BY <2>1, <2>2, <2>3, RoomStep DEF ClientInv, TypeOK
<1>2. CASE OtherJoins
  <2>1. Addrs \ (others \cup {host.addr}) # {} /\ Addrs \ (others \cup {host.addr}) \in SUBSET Nat
    BY <1>2, AddrAssumption DEF OtherJoins
  <2>2. Min(Addrs \ (others \cup {host.addr})) \in Addrs
    BY <2>1, LeastAddress
  <2>3. Sound' /\ Told'
    BY <1>2, LeaseStays DEF OtherJoins
  <2> QED
    BY <1>2, <2>2, <2>3, RoomStep DEF OtherJoins, ClientInv, TypeOK
<1>3. CASE \E a \in others : OtherRemoved(a)
  <2>1. Sound' /\ Told'
    BY <1>3, LeaseStays DEF OtherRemoved
  <2> QED
    BY <1>3, <2>1, RoomStep DEF OtherRemoved, ClientInv, TypeOK
<1>4. CASE Stop
  <2>1. /\ host' = [host EXCEPT !.running = FALSE, !.timer = FALSE]
        /\ used' = [used EXCEPT !.stops = @ + 1]
        /\ UNCHANGED <<client, saved, conn, pending, owner, others>>
    BY <1>4 DEF Stop
  <2>2. /\ host' \in [running : BOOLEAN, listening : BOOLEAN, key : Nat, addr : Nat, psk : Nat, state : States, timer : BOOLEAN]
        /\ host'.addr = host.addr /\ host'.psk = host.psk
    BY <2>1 DEF ClientInv, TypeOK
  <2>3. used' \in [losses : Nat, joins : Nat, removes : Nat, stops : Nat] /\ used'.stops # 0
    BY <2>1 DEF ClientInv, TypeOK
  <2>4. others' \subseteq Addrs
    BY <2>1 DEF ClientInv, TypeOK
  <2>5. Sound' /\ Told'
    BY <2>3 DEF Sound, Told
  <2> QED
    BY <2>1, <2>2, <2>3, <2>4, <2>5, RoomStep
<1>5. CASE Start
  <2>1. /\ host' = [host EXCEPT !.running = TRUE, !.listening = TRUE, !.state = IF host.addr # 0 THEN "offline" ELSE ""]
        /\ ~host.listening /\ pending' = NoPending /\ UNCHANGED <<client, saved, conn, owner, others, used>>
    BY <1>5 DEF Start
  <2>2. /\ host' \in [running : BOOLEAN, listening : BOOLEAN, key : Nat, addr : Nat, psk : Nat, state : States, timer : BOOLEAN]
        /\ host'.addr = host.addr /\ host'.psk = host.psk
    BY <2>1 DEF ClientInv, TypeOK, States
  <2>3. Sound' /\ Told'
    BY <2>1 DEF ClientInv, Sound, Told
  <2> QED
    BY <2>1, <2>2, <2>3, RoomStep DEF ClientInv, TypeOK
<1> QED
  BY <1>1, <1>2, <1>3, <1>4, <1>5

(* The member is removed, and told so on the connection that reported      *)
(* last.                                                                   *)
LEMMA RemoveMemberStep == ASSUME ClientInv, RemoveMember PROVE ClientInv'
<1> DEFINE s == Status("disabled")
<1>1. /\ host' = [host EXCEPT !.addr = 0, !.psk = 0, !.state = "", !.timer = FALSE]
      /\ pending' = NoPending /\ owner' = NoConn
      /\ conn' = [c \in Conns |-> IF c = owner THEN Answered(conn[c], s) ELSE conn[c]]
      /\ UNCHANGED <<client, saved, others>>
      /\ used' \in [losses : Nat, joins : Nat, removes : Nat, stops : Nat]
  BY DEF RemoveMember, ClientInv, TypeOK
<1>2. s \in Downward /\ s.type = "status"
  BY DEF Status, Downward, Statuses
<1>3. ASSUME NEW d \in Conns
      PROVE  /\ conn'[d] \in Connection /\ conn'[d].srv = conn[d].srv /\ conn'[d].open = conn[d].open
             /\ conn'[d].up = conn[d].up
             /\ conn'[d].down = conn[d].down
                  \/ (conn[d].open /\ conn[d].srv = "control" /\ conn'[d].down = Append(conn[d].down, s))
             /\ ToSet(conn'[d].down) \subseteq ToSet(conn[d].down) \cup {s}
  <2>1. conn[d] \in Connection
    BY DEF ClientInv, TypeOK
  <2>2. CASE d = owner
    <3> DEFINE k == Answered(conn[d], s)
    <3>1. conn'[d] = k /\ conn[d].srv = "control"
      BY <1>1, <2>2, ConnAssumption DEF ClientInv, Owned
    <3>2. /\ k \in Connection /\ k.srv = conn[d].srv /\ k.open = conn[d].open /\ k.up = conn[d].up
          /\ k.down = conn[d].down \/ (conn[d].open /\ k.down = Append(conn[d].down, s))
          /\ ToSet(k.down) \subseteq ToSet(conn[d].down) \cup {s}
      BY <1>2, <2>1, AnsweredFrame
    <3> HIDE DEF k, s
    <3> QED
      BY <3>1, <3>2
  <2>3. CASE d # owner
    BY <1>1, <2>1, <2>3
  <2> QED
    BY <2>2, <2>3
<1>4. TypeOK'
  <2>1. conn' \in [Conns -> Connection]
    BY <1>1, <1>3
  <2>2. host' \in [running : BOOLEAN, listening : BOOLEAN, key : Nat, addr : Nat, psk : Nat, state : States, timer : BOOLEAN]
    BY <1>1 DEF ClientInv, TypeOK, States
  <2> QED
    BY <1>1, <2>1, <2>2, NoPendingType DEF ClientInv, TypeOK
<1>5. /\ (Paired' <=> Paired) /\ (Settled' <=> Settled) /\ (InSession' <=> InSession) /\ (InSession => Paired)
      /\ Mine' = conn'[client.conn] /\ Mine = conn[client.conn]
  BY <1>1 DEF Paired, Settled, InSession, Mine
<1>6. Paired => client.conn \in Conns
  BY DEF ClientInv, Ends
<1>7. Ends'
  <2>1. ASSUME NEW d \in Conns
        PROVE  /\ conn'[d].open <=> d = client.conn
               /\ ~conn'[d].open => conn'[d].down = <<>>
               /\ Paired => ~LeftBehind(d)'
    BY <1>3 DEF ClientInv, Ends, LeftBehind
  <2>2. InSession => Mine'.srv # "open" /\ ~client.joining
    BY <1>3, <1>5, <1>6 DEF ClientInv, Ends
  <2> QED
    BY <1>1, <1>5, <2>1, <2>2 DEF ClientInv, Ends
<1>8. Requests'
  <2>1. ASSUME NEW d \in Conns, conn'[d].srv = "open"
        PROVE  conn[d].srv = "open" /\ conn'[d].down = conn[d].down /\ conn'[d].up = conn[d].up
    BY <1>3, <2>1
  <2> QED
    BY <1>1, <1>5, <2>1 DEF ClientInv, Requests
<1>9. Reports'
  <2> SUFFICES ASSUME Paired PROVE Reports'
    BY <1>1 DEF Reports, Paired
  <2> DEFINE c == client.conn
  <2>1. c \in Conns /\ conn[c].down \in Seq(Downward)
    BY <1>6 DEF ClientInv, TypeOK, Connection
  <2>2. client.at = "sync" => Single(conn'[c].up, "report") /\ Single(conn[c].down, "list")
    BY <1>3, <1>5, <2>1 DEF ClientInv, Reports
  <2>3. client.at = "sync" => Single(conn'[c].down, "list")
    <3> HIDE DEF s
    <3>1. client.at = "sync" => Single(Append(conn[c].down, s), "list")
      BY <1>2, <2>1, <2>2, SingleAppend
    <3> QED
      BY <1>3, <2>1, <2>2, <3>1
  <2> QED
    BY <1>1, <1>2, <1>3, <1>5, <2>1, <2>2, <2>3, ReportsKept
<1>10. Agreed'
  <2>1. host'.addr = 0
    BY <1>1 DEF ClientInv, TypeOK
  <2>2. Paired => \A f \in ToSet(Mine'.down) : f \in ToSet(Mine.down) \/ f.type # "result"
    BY <1>2, <1>3, <1>5, <1>6
  <2>3. Served' => Served
    BY <1>3, <1>5, <1>6 DEF Served
  <2> QED
    BY <1>1, <2>1, <2>2, <2>3, AgreedKept
<1>11. Owned' /\ Known'
  BY <1>1, KnownKept DEF Owned
<1>12. /\ used'.stops = used.stops /\ host'.addr = 0 /\ ~host'.timer
       /\ host'.running = host.running /\ host'.listening = host.listening
  BY <1>1 DEF RemoveMember, ClientInv, TypeOK
<1>13. Sound'
  BY <1>1, <1>12 DEF ClientInv, Sound
<1>14. Told'
  <2>1. ~Leased'
    BY <1>12 DEF Leased
  <2> QED
    BY <1>1, <1>12, <2>1 DEF Told
<1> QED
  BY <1>4, <1>7, <1>8, <1>9, <1>10, <1>11, <1>13, <1>14 DEF ClientInv

(* The server closes and cuts every connection. *)
LEMMA CloseStep == ASSUME ClientInv, Close PROVE ClientInv'
<1>1. PICK keep \in SUBSET Conns : conn' = [c \in Conns |-> Cut(conn[c], c \in keep)]
  BY DEF Close
<1>2. /\ UNCHANGED <<client, saved, pending, owner, others, used>>
      /\ host' = [host EXCEPT !.listening = FALSE]
  BY DEF Close
<1>3. ASSUME NEW d \in Conns
      PROVE  /\ conn'[d] \in Connection /\ conn'[d].srv = conn[d].srv /\ conn'[d].open = conn[d].open
             /\ conn'[d].up = <<>> /\ conn'[d].down \in {conn[d].down, <<>>}
  <2> DEFINE b == conn[d] # Off
             e == IF d \in keep THEN conn[d].down ELSE <<>>
  <2>1. conn[d] \in Connection /\ b \in BOOLEAN
    BY DEF ClientInv, TypeOK
  <2>2. conn'[d] = [conn[d] EXCEPT !.cut = b, !.up = <<>>, !.down = e]
    BY <1>1 DEF Cut
  <2>3. e \in Seq(Downward) /\ e \in {conn[d].down, <<>>}
    BY <2>1, FramesOfNone DEF Connection
  <2> DEFINE k == [conn[d] EXCEPT !.cut = b, !.up = <<>>, !.down = e]
  <2> HIDE DEF b, e
  <2>4. k \in Connection /\ k.srv = conn[d].srv /\ k.open = conn[d].open /\ k.up = <<>> /\ k.down = e
    BY <2>1, <2>3, FramesOfNone DEF Connection
  <2> HIDE DEF k
  <2>5. conn'[d] = k
    BY <2>2 DEF k
  <2> QED
    BY <2>3, <2>4, <2>5
<1>4. TypeOK'
  <2>1. conn' \in [Conns -> Connection]
    BY <1>1, <1>3
  <2>2. host' \in [running : BOOLEAN, listening : BOOLEAN, key : Nat, addr : Nat, psk : Nat, state : States, timer : BOOLEAN]
    BY <1>2 DEF ClientInv, TypeOK
  <2> QED
    BY <1>2, <2>1, <2>2 DEF ClientInv, TypeOK
<1>5. /\ (Paired' <=> Paired) /\ (Settled' <=> Settled) /\ (InSession' <=> InSession) /\ (InSession => Paired)
      /\ Mine' = conn'[client.conn] /\ Mine = conn[client.conn]
  BY <1>2 DEF Paired, Settled, InSession, Mine
<1>6. Paired => client.conn \in Conns
  BY DEF ClientInv, Ends
<1>7. Ends'
  <2>1. ASSUME NEW d \in Conns
        PROVE  /\ conn'[d].open <=> d = client.conn
               /\ ~conn'[d].open => conn'[d].down = <<>>
               /\ Paired => ~LeftBehind(d)'
    BY <1>3 DEF ClientInv, Ends, LeftBehind
  <2>2. InSession => Mine'.srv # "open" /\ ~client.joining
    BY <1>3, <1>5, <1>6 DEF ClientInv, Ends
  <2> QED
    BY <1>2, <1>5, <2>1, <2>2 DEF ClientInv, Ends
<1>8. Requests'
  <2>1. ASSUME NEW d \in Conns, conn'[d].srv = "open"
        PROVE  conn'[d].down = <<>> /\ ToSet(conn'[d].up) = {}
    BY <1>3, <2>1, FramesOfNone DEF ClientInv, Requests
  <2> QED
    BY <2>1 DEF Requests
<1>9. Reports'
  <2> SUFFICES ASSUME Paired PROVE Reports'
    BY <1>2 DEF Reports, Paired
  <2> DEFINE c == client.conn
  <2>1. Single(<<>>, "list") /\ Single(<<>>, "report")
    BY DEF Single
  <2>2. client.at = "sync" => Single(conn'[c].up, "report") /\ Single(conn'[c].down, "list")
    BY <1>3, <1>5, <1>6, <2>1 DEF ClientInv, Reports
  <2>3. ToSet(conn'[c].up) = {} /\ ToSet(conn'[c].down) \subseteq ToSet(conn[c].down)
    BY <1>3, <1>6, FramesOfNone
  <2> QED
    BY <1>2, <1>5, <2>2, <2>3, ReportsKept
<1>10. Agreed'
  <2>1. host'.addr = host.addr /\ host'.psk = host.psk
    BY <1>2 DEF ClientInv, TypeOK
  <2>2. Paired => \A f \in ToSet(Mine'.down) : f \in ToSet(Mine.down)
    BY <1>3, <1>5, <1>6, FramesOfNone
  <2>3. Served' => Served
    BY <1>3, <1>5, <1>6 DEF Served
  <2> QED
    BY <1>2, <2>1, <2>2, <2>3, AgreedKept
<1>11. Owned' /\ Known'
  BY <1>2, <1>3, OwnedKept, KnownKept
<1>12. Sound' /\ Told'
  BY <1>2 DEF Close, ClientInv, Sound, Told
<1> QED
  BY <1>4, <1>7, <1>8, <1>9, <1>10, <1>11, <1>12 DEF ClientInv

-----------------------------------------------------------------------------
(* The invariant holds before the first join. *)
LEMMA ClientInit == Init => ClientInv
<1> SUFFICES ASSUME Init PROVE ClientInv
  OBVIOUS
<1>1. TypeOK
  BY OffType, NoPendingType DEF Init, Away, TypeOK, States
<1>2. client.at = "out" /\ client.conn = NoConn /\ ~client.joining /\ ~client.member
  BY DEF Init, Away
<1>3. ~Paired /\ ~Settled /\ ~InSession /\ ~Served
  BY <1>2 DEF Paired, Settled, InSession, Served
<1>4. \A c \in Conns : conn[c].srv = "off" /\ conn[c].open = FALSE /\ conn[c].down = <<>>
  BY OffType DEF Init
<1>5. Ends
  BY <1>2, <1>3, <1>4, ConnAssumption DEF Ends
<1>6. Reports /\ Requests /\ Agreed /\ Owned /\ Known
  BY <1>2, <1>3, <1>4 DEF Reports, Requests, Agreed, Owned, Known, Init
<1>7. Sound
  BY DEF Init, Sound
<1>8. Told
  BY <1>3 DEF Told
<1> QED
  BY <1>1, <1>5, <1>6, <1>7, <1>8 DEF ClientInv

(* Every step of the device, the host and the network keeps the invariant. *)
LEMMA ClientNext == ClientInv /\ [Next]_vars => ClientInv'
<1> SUFFICES ASSUME ClientInv, [Next]_vars PROVE ClientInv'
  OBVIOUS
<1>1. CASE UNCHANGED vars
  BY <1>1 DEF vars, ClientInv, TypeOK, Ends, Reports, Requests, Agreed, Owned, Known, Sound, Told, Gone, Acked,
              Paired, Settled, InSession, Served, Leased, Mine, LeftBehind, Key
<1>2. CASE ClientStep
  <2>1. CASE \E c \in Conns : Dial(c)
    BY <2>1, DialStep
  <2>2. CASE Refused
    BY <2>2, RefusedStep
  <2>3. CASE Accepted
    BY <2>3, AcceptedStep
  <2>4. CASE AckFails \/ PairingFails \/ SyncRefused \/ SyncFails
    BY <2>4, RetrySteps
  <2>5. CASE Sync
    BY <2>5, SyncStep
  <2>6. CASE SyncReturns
    BY <2>6, SyncReturnsStep
  <2> QED
    BY <1>2, <2>1, <2>2, <2>3, <2>4, <2>5, <2>6 DEF ClientStep
<1>3. CASE ConfigureFails
  BY <1>3, RetrySteps
<1>4. CASE Leave
  BY <1>4, LeaveStep
<1>5. CASE \E k \in 1..host.key : Join(k)
  BY <1>5, JoinStep
<1>6. ASSUME NEW c \in Conns, ServerStep(c) PROVE ClientInv'
  <2>1. CASE Control(c)
    BY <2>1, DisabledStep, ListStep
  <2> QED
    BY <1>6, <2>1, RefuseStep, AssignStep, AcknowledgeStep, ServerFailsStep DEF ServerStep
<1>7. ASSUME NEW c \in Conns, Lose(c) PROVE ClientInv'
  BY <1>7, LoseStep
<1>8. CASE RemoveMember
  BY <1>8, RemoveMemberStep
<1>9. CASE TimerFires
  BY <1>9, TimerFiresStep
<1>10. CASE RotateKey \/ OtherJoins \/ (\E a \in others : OtherRemoved(a)) \/ Stop \/ Start
  BY <1>10, RoomSteps
<1>11. CASE Close
  BY <1>11, CloseStep
<1> QED
  BY <1>1, <1>2, <1>3, <1>4, <1>5, <1>6, <1>7, <1>8, <1>9, <1>10, <1>11 DEF Next

(* The invariant of a device and its host holds in every state, however    *)
(* frames are lost, connections break, handlers outlive their clients,     *)
(* timers fire, and the room is stopped and started.                       *)
THEOREM ClientInvariant == Spec => []ClientInv
BY ClientInit, ClientNext, PTL DEF Spec

(* Session.Sync sends one report and reads one list: the list is the       *)
(* answer to that report, because syncDevices gives a session up when a    *)
(* Sync fails instead of sending the next report on it.                    *)
THEOREM SyncGetsItsAnswer == Spec => []SyncReadsItsAnswer
<1>1. ClientInv => SyncReadsItsAnswer
  <2> SUFFICES ASSUME ClientInv, client.at = "sync", HeadIs(Mine.down, "list")
               PROVE  Head(Mine.down).report = client.report
    BY DEF SyncReadsItsAnswer
  <2>1. client.conn \in Conns
    BY DEF ClientInv, Ends, Paired
  <2>2. Mine.down \in Seq(Downward)
    BY <2>1 DEF ClientInv, TypeOK, Connection, Mine
  <2>3. Head(Mine.down) \in ToSet(Mine.down) /\ Head(Mine.down).type = "list"
    BY <2>2, FramesOfTail DEF HeadIs
  <2> QED
    BY <2>3 DEF ClientInv, Reports
<1> QED
  BY <1>1, ClientInvariant, PTL

(* A device that is served has the address and the PSK of its lease,       *)
(* although syncDevices ignores the address that a reconnect is given: the *)
(* host keeps the address of a lease for as long as it accepts its PSK.    *)
THEOREM AdapterHasTheLease == Spec => []AdapterIsLease
<1>1. ClientInv => AdapterIsLease
  <2> SUFFICES ASSUME ClientInv, InSession, Mine.srv = "control", Leased
               PROVE  client.addr = host.addr /\ client.psk = host.psk
    BY DEF AdapterIsLease
  <2>1. Paired /\ Settled /\ Served
    BY DEF InSession, Paired, Settled, Served, ClientInv, Ends
  <2> QED
    BY <2>1 DEF ClientInv, Agreed, Leased, Key
<1> QED
  BY <1>1, ClientInvariant, PTL

(* In a room that was not stopped, terminalPairError and a "disabled"      *)
(* status end a session only when the device has no acknowledged lease     *)
(* with its PSK: a busy host, a lost frame and a handler that is left      *)
(* behind never do.                                                        *)
THEOREM MembersStay == Spec => StaysWhileMember
<1>1. ClientInv => [(Refused \/ SyncRefused) /\ ~client.joining /\ client'.at = "out" /\ used.stops = 0
                      => ~(Leased /\ host.psk = client.psk)]_vars
  <2> SUFFICES ASSUME ClientInv, Refused \/ SyncRefused, ~client.joining, client'.at = "out", used.stops = 0
               PROVE  ~(Leased /\ host.psk = client.psk)
    OBVIOUS
  <2> DEFINE f == Head(Mine.down)
  <2>1. Paired /\ Settled
    BY DEF Refused, SyncRefused, Paired, Settled
  <2>2. client.conn \in Conns
    BY <2>1 DEF ClientInv, Ends
  <2>3. Mine.down \in Seq(Downward)
    BY <2>2 DEF ClientInv, TypeOK, Connection, Mine
  <2>4. f \in ToSet(Mine.down) /\ f.type = "status"
    BY <2>3, FramesOfTail DEF Refused, SyncRefused, HeadIs
  <2>5. ~Redials
    BY DEF Redials, Drops, ClientInv, TypeOK
  <2>6. CASE Refused
    <3>1. client.at = "asked" /\ ~FallsBack(f.status)
      BY <2>6 DEF Refused, FallsBack
    <3>2. Terminal(f.status)
      BY <2>5, <2>6, <3>1 DEF Refused
    <3>3. f.status # "internal"
      BY <3>2 DEF Terminal
    <3> QED
      BY <2>1, <2>4, <3>1, <3>3 DEF ClientInv, Told
  <2>7. CASE SyncRefused
    <3>1. f.status = "disabled"
      BY <2>5, <2>7 DEF SyncRefused
    <3> QED
      BY <2>1, <2>4, <3>1 DEF ClientInv, Told, Leased
  <2> QED
    BY <2>6, <2>7
<1> QED
  BY <1>1, ClientInvariant, PTL DEF StaysWhileMember

=============================================================================
