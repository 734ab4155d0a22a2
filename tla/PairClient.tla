----------------------------- MODULE PairClient -----------------------------
(***************************************************************************)
(* A joining device and the host's pairing server, frame by frame          *)
(* (pairing/network.go, core/runtime.go): the device pairs with the key of *)
(* its invite or with the PSK of an earlier session, acknowledges, reports *)
(* and reads the device list, and reconnects with its PSK when a report    *)
(* fails.  A reconnect does not configure anything: the device goes on     *)
(* with the address and the PSK it has.  Connections are lost with what is *)
(* in flight, deadlines pass, a handler of the host outlives its client.   *)
(*                                                                         *)
(* The room is the part of it that concerns this one device; its other     *)
(* members only take addresses.  Left out, as they are in Room: blocking,  *)
(* a paused room, failing saves, and revisions, of which one device in one *)
(* room has no two that a timer could confuse.  A PSK is the number of the *)
(* room key it was derived from, 0 is none.                                *)
(***************************************************************************)
EXTENDS Naturals, Sequences, SequencesExt, FiniteSetsExt

CONSTANTS
    Conns,       \* connections that can exist at a time
    Addrs,       \* addresses of the pool
    NoConn,
    MaxKeys, MaxLosses, MaxJoins, MaxRemoves, MaxStops  \* bounds

ASSUME ConnAssumption == NoConn \notin Conns
ASSUME AddrAssumption == Addrs \subseteq Nat \ {0}

VARIABLES
    client,  \* where Join or syncDevices is, and its local variables
    saved,   \* the PSK in membership.secret
    conn,    \* per connection: both ends and the frames under way
    host,    \* the room: its key and the lease, PSK, state and timer of the device
    pending, \* Service.pending of the device
    owner,   \* Server.deviceOwners of the device
    others,  \* addresses of other members
    used     \* of the bounds

vars == <<client, saved, conn, host, pending, owner, others, used>>

Away == [at |-> "out", conn |-> NoConn, joining |-> FALSE, member |-> FALSE,
         invite |-> 0, psk |-> 0, addr |-> 0, report |-> 0]

NoPending == [conn |-> NoConn, addr |-> 0, psk |-> 0, state |-> ""]

(* "off" is free for a new connection; "over" is closed by the host only.  *)
Off == [srv |-> "off", open |-> FALSE, cut |-> FALSE, key |-> 0, up |-> <<>>, down |-> <<>>]

Init ==
    /\ client = Away /\ saved = 0
    /\ conn = [c \in Conns |-> Off]
    /\ host = [running |-> TRUE, listening |-> TRUE, key |-> 1,
               addr |-> 0, psk |-> 0, state |-> "", timer |-> FALSE]
    /\ pending = NoPending /\ owner = NoConn /\ others = {}
    /\ used = [losses |-> 0, joins |-> 0, removes |-> 0, stops |-> 0]

Mine == conn[client.conn]

(* Either end closes; the other one can read what has arrived.             *)
ClosedByClient(c, left) ==
    IF c.srv = "over" THEN Off ELSE [c EXCEPT !.open = FALSE, !.up = left, !.down = <<>>]
ClosedByHost(c) == IF c.open THEN [c EXCEPT !.srv = "over", !.up = <<>>] ELSE Off

Sent(c, frame) == IF c.cut THEN c ELSE [c EXCEPT !.up = Append(@, frame)]
Answered(c, frame) == IF c.cut \/ ~c.open THEN c ELSE [c EXCEPT !.down = Append(@, frame)]

Status(s) == [type |-> "status", status |-> s]
Result(a) == [type |-> "result", addr |-> a]
List(n) == [type |-> "list", report |-> n]
Request(cl) == [type |-> "request", member |-> cl.member, key |-> IF cl.member THEN cl.psk ELSE cl.invite]
Ack == [type |-> "ack"]
Report(n) == [type |-> "report", report |-> n]

ClientReads(c) == [c EXCEPT !.down = Tail(@)]
HostReads(c) == [c EXCEPT !.up = Tail(@)]

HeadIs(frames, type) == frames # <<>> /\ Head(frames).type = type

-----------------------------------------------------------------------------
(* Join: the PSK of an earlier session is tried before the invite.         *)
Join(k) ==
    /\ client.at = "out" /\ used.joins < MaxJoins /\ used' = [used EXCEPT !.joins = @ + 1]
    /\ client' = [Away EXCEPT !.at = "dial", !.joining = TRUE, !.member = saved # 0, !.psk = saved, !.invite = k]
    /\ UNCHANGED <<saved, conn, host, pending, owner, others>>

(* pairWithSession: the server copies the room key and sends a challenge;  *)
(* the request answers it.  A dial that fails is tried again.  Before each *)
(* dial the device waits (250 ms in Join, 1 s in syncDevices): a request   *)
(* it has left behind has been read or lost by then.                       *)
LeftBehind(c) == conn[c].srv = "open" /\ ~conn[c].open

Dial(c) ==
    /\ client.at = "dial" /\ conn[c] = Off /\ host.listening
    /\ \A d \in Conns : ~LeftBehind(d)
    /\ conn' = [conn EXCEPT ![c] = [Off EXCEPT !.srv = "open", !.open = TRUE, !.key = host.key,
                                               !.up = <<Request(client)>>]]
    /\ client' = [client EXCEPT !.at = "asked", !.conn = c]
    /\ UNCHANGED <<saved, host, pending, owner, others, used>>

(* The device closes its connection and goes on at "dial", or not at all.  *)
Drops(next) ==
    /\ \E left \in Prefixes(Mine.up) : conn' = [conn EXCEPT ![client.conn] = ClosedByClient(@, left)]
    /\ client' = next

Redials == Drops([client EXCEPT !.at = "dial", !.conn = NoConn])
Leaves == IF client.conn = NoConn THEN client' = Away /\ UNCHANGED conn ELSE Drops(Away)

(* Mutant: a request that comes while the last one is pending is final. *)
TerminalBusy(s) == s \in {"auth", "paused", "full", "disabled", "internal"}

(* terminalPairError.                                                      *)
Terminal(s) == s \in {"auth", "paused", "full", "disabled"}

(* Mutant: a reconnect falls back to the invite, as Join does. *)
FallsBackAlways(s) == client.member /\ s = "auth"

(* The loop of Join tries the invite when the PSK is not accepted.         *)
FallsBack(s) == client.joining /\ client.member /\ s = "auth"

(* The host refuses.                                                       *)
Refused ==
    /\ client.at = "asked" /\ HeadIs(Mine.down, "status")
    /\ LET s == Head(Mine.down).status IN
         CASE FallsBack(s) -> Drops([client EXCEPT !.at = "dial", !.conn = NoConn, !.member = FALSE])
           [] ~FallsBack(s) /\ Terminal(s) -> Leaves
           [] OTHER -> Redials
    /\ UNCHANGED <<saved, host, pending, owner, others, used>>

(* The result is there.  Join configures the adapter, acknowledges, saves  *)
(* the PSK; a reconnect only acknowledges.                                 *)
Accepted ==
    /\ client.at = "asked" /\ HeadIs(Mine.down, "result")
    /\ conn' = [conn EXCEPT ![client.conn] = Sent(ClientReads(@), Ack)]
    /\ LET psk == IF client.member THEN client.psk ELSE client.invite IN
         /\ client' = [client EXCEPT !.at = "idle", !.joining = FALSE, !.member = TRUE, !.psk = psk,
                                     !.addr = IF client.joining THEN Head(Mine.down).addr ELSE @]
         /\ saved' = IF client.joining THEN psk ELSE saved
    /\ UNCHANGED <<host, pending, owner, others, used>>

(* configure fails: Join tries again.                                      *)
ConfigureFails ==
    /\ client.at = "asked" /\ client.joining /\ HeadIs(Mine.down, "result") /\ Redials
    /\ used.losses < MaxLosses /\ used' = [used EXCEPT !.losses = @ + 1]
    /\ UNCHANGED <<saved, host, pending, owner, others>>

(* The acknowledgement cannot be written: final once configured.           *)
AckFails ==
    /\ client.at = "asked" /\ HeadIs(Mine.down, "result") /\ Mine.cut
    /\ IF client.joining THEN Leaves ELSE Redials
    /\ UNCHANGED <<saved, host, pending, owner, others, used>>

(* Reading ends at the end of the stream, or at the deadline.              *)
ReadFails(c, frames, closed) ==
    \/ frames = <<>> /\ (c.cut \/ closed) /\ UNCHANGED used
    \/ used.losses < MaxLosses /\ used' = [used EXCEPT !.losses = @ + 1]

PairingFails ==
    /\ client.at = "asked" /\ ReadFails(Mine, Mine.down, Mine.srv = "over") /\ Redials
    /\ UNCHANGED <<saved, host, pending, owner, others>>

-----------------------------------------------------------------------------
(* Session.Sync: one report, then its answer.                              *)
Sync ==
    /\ client.at = "idle"
    /\ client' = [client EXCEPT !.at = "sync", !.report = 1 - @]
    /\ conn' = [conn EXCEPT ![client.conn] = Sent(@, Report(client'.report))]
    /\ UNCHANGED <<saved, host, pending, owner, others, used>>

SyncReturns ==
    /\ client.at = "sync" /\ HeadIs(Mine.down, "list")
    /\ client' = [client EXCEPT !.at = "idle"]
    /\ conn' = [conn EXCEPT ![client.conn] = ClientReads(@)]
    /\ UNCHANGED <<saved, host, pending, owner, others, used>>

(* A device that is told it is not a member any more leaves.               *)
SyncRefused ==
    /\ client.at = "sync" /\ HeadIs(Mine.down, "status")
    /\ IF Head(Mine.down).status = "disabled" THEN Leaves ELSE Redials
    /\ UNCHANGED <<saved, host, pending, owner, others, used>>

(* Mutant: the session is used again after a report that timed out. *)
SyncRetries ==
    /\ client.at = "sync" /\ ReadFails(Mine, Mine.down, Mine.srv = "over")
    /\ IF Mine.cut \/ Mine.srv = "over" THEN Redials ELSE client' = [client EXCEPT !.at = "idle"] /\ UNCHANGED conn
    /\ UNCHANGED <<saved, host, pending, owner, others>>

(* syncDevices closes a session that failed and pairs again.               *)
SyncFails ==
    /\ client.at = "sync" /\ ReadFails(Mine, Mine.down, Mine.srv = "over") /\ Redials
    /\ UNCHANGED <<saved, host, pending, owner, others>>

(* The user leaves.                                                        *)
Leave == client.at # "out" /\ Leaves /\ UNCHANGED <<saved, host, pending, owner, others, used>>

-----------------------------------------------------------------------------
(* Server.pair: which key a request is made with, and the refusals.        *)
KnownMember == host.running /\ host.addr # 0
ByRoomKey(c, r) == ~r.member /\ r.key = c.key
ByMemberKey(r) == r.member /\ KnownMember /\ host.psk # 0 /\ r.key = host.psk

Refusal(c, r) ==
    CASE ~ByRoomKey(c, r) /\ ~ByMemberKey(r) -> "auth"
      [] ByRoomKey(c, r) /\ ~host.running -> "paused"
      [] pending # NoPending -> "internal"
      [] host.addr = 0 /\ Addrs \subseteq others -> "full"
      [] OTHER -> "none"

Refuse(c) ==
    /\ conn[c].srv = "open" /\ HeadIs(conn[c].up, "request")
    /\ LET s == Refusal(conn[c], Head(conn[c].up)) IN
         s # "none" /\ conn' = [conn EXCEPT ![c] = ClosedByHost(Answered(@, Status(s)))]
    /\ UNCHANGED <<client, saved, host, pending, owner, others, used>>

(* assign: the device keeps its address or gets the lowest free one; its   *)
(* PSK is derived again unless it was used.                                *)
Assign(c) ==
    /\ conn[c].srv = "open" /\ HeadIs(conn[c].up, "request")
    /\ LET r == Head(conn[c].up)
           a == IF host.addr # 0 THEN host.addr ELSE Min(Addrs \ others) IN
         /\ Refusal(conn[c], r) = "none"
         /\ pending' = [conn |-> c, addr |-> host.addr, psk |-> host.psk, state |-> host.state]
         /\ host' = [host EXCEPT !.addr = a, !.psk = IF r.member THEN @ ELSE conn[c].key, !.state = "pairing"]
         /\ conn' = [conn EXCEPT ![c] = Answered([HostReads(@) EXCEPT !.srv = "pending"], Result(a))]
    /\ UNCHANGED <<client, saved, owner, others, used>>

(* pairingAcknowledged does nothing in a room that was stopped.            *)
Acknowledge(c) ==
    /\ conn[c].srv = "pending" /\ HeadIs(conn[c].up, "ack")
    /\ conn' = [conn EXCEPT ![c] = [HostReads(@) EXCEPT !.srv = "control"]]
    /\ IF host.running /\ pending.conn = c
         THEN pending' = NoPending /\ host' = [host EXCEPT !.state = "configured", !.timer = FALSE]
         ELSE UNCHANGED <<pending, host>>
    /\ UNCHANGED <<client, saved, owner, others, used>>

(* pairingFailed: a lease that was there is restored, unless its timer     *)
(* took it and the address has a new owner; a new lease gets a timer.      *)
PairingFailed(c) ==
    IF pending.conn = c
      THEN /\ pending' = NoPending
           /\ host' = IF pending.addr = 0
                        THEN [host EXCEPT !.timer = TRUE]
                        ELSE [host EXCEPT !.addr = IF pending.addr \in others THEN @ ELSE pending.addr,
                                          !.psk = pending.psk, !.state = pending.state]
      ELSE UNCHANGED <<pending, host>>

ServerFails(c) ==
    /\ conn[c].srv \in {"open", "pending", "control"}
    /\ ReadFails(conn[c], conn[c].up, ~conn[c].open)
    /\ conn' = [conn EXCEPT ![c] = ClosedByHost(@)]
    /\ IF conn[c].srv = "pending" THEN PairingFailed(c) ELSE UNCHANGED <<pending, host>>
    /\ owner' = IF owner = c THEN NoConn ELSE owner
    /\ UNCHANGED <<client, saved, others>>

(* Mutant: the control loop does not look the member up. *)
ControlAnswersAll(c) ==
    /\ conn[c].srv = "control" /\ HeadIs(conn[c].up, "report")
    /\ conn' = [conn EXCEPT ![c] = Answered(HostReads(@), List(Head(conn[c].up).report))]
    /\ owner' = c
    /\ UNCHANGED <<client, saved, host, pending, others, used>>

(* control: a report of a member is answered, any other connection ends.   *)
Control(c) ==
    /\ conn[c].srv = "control" /\ HeadIs(conn[c].up, "report")
    /\ IF KnownMember
         THEN /\ conn' = [conn EXCEPT ![c] = Answered(HostReads(@), List(Head(conn[c].up).report))]
              /\ owner' = c
         ELSE /\ conn' = [conn EXCEPT ![c] = ClosedByHost(Answered(@, Status("disabled")))]
              /\ owner' = IF owner = c THEN NoConn ELSE owner
    /\ UNCHANGED <<client, saved, host, pending, others, used>>

-----------------------------------------------------------------------------
(* RemoveMember tells the connection that reported last.                   *)
RemoveMember ==
    /\ KnownMember /\ used.removes < MaxRemoves /\ used' = [used EXCEPT !.removes = @ + 1]
    /\ host' = [host EXCEPT !.addr = 0, !.psk = 0, !.state = "", !.timer = FALSE]
    /\ pending' = NoPending /\ owner' = NoConn
    /\ conn' = [c \in Conns |-> IF c = owner THEN Answered(conn[c], Status("disabled")) ELSE conn[c]]
    /\ UNCHANGED <<client, saved, others>>

(* The callback of the timer.                                              *)
TimerFires ==
    /\ host.timer
    /\ host' = IF host.running /\ host.addr # 0 /\ host.state # "configured"
                 THEN [host EXCEPT !.timer = FALSE, !.addr = 0, !.psk = 0, !.state = ""]
                 ELSE [host EXCEPT !.timer = FALSE]
    /\ UNCHANGED <<client, saved, conn, pending, owner, others, used>>

RotateKey ==
    /\ host.running /\ host.key < MaxKeys /\ host' = [host EXCEPT !.key = @ + 1]
    /\ UNCHANGED <<client, saved, conn, pending, owner, others, used>>

OtherJoins ==
    /\ host.running /\ Addrs \ (others \cup {host.addr}) # {}
    /\ others' = others \cup {Min(Addrs \ (others \cup {host.addr}))}
    /\ UNCHANGED <<client, saved, conn, host, pending, owner, used>>

OtherRemoved(a) ==
    /\ host.running /\ a \in others /\ others' = others \ {a}
    /\ UNCHANGED <<client, saved, conn, host, pending, owner, used>>

(* Service.Stop of a fixed room, Server.Close, and the next Start, which   *)
(* begins after Stop returned.                                             *)
Stop ==
    /\ host.running /\ used.stops < MaxStops /\ used' = [used EXCEPT !.stops = @ + 1]
    /\ host' = [host EXCEPT !.running = FALSE, !.timer = FALSE]
    /\ UNCHANGED <<client, saved, conn, pending, owner, others>>

Cut(c, keep) == [c EXCEPT !.cut = c # Off, !.up = <<>>, !.down = IF keep THEN @ ELSE <<>>]

Close ==
    /\ ~host.running /\ host.listening /\ host' = [host EXCEPT !.listening = FALSE]
    /\ \E keep \in SUBSET Conns : conn' = [c \in Conns |-> Cut(conn[c], c \in keep)]
    /\ UNCHANGED <<client, saved, pending, owner, others, used>>

Start ==
    /\ ~host.listening /\ \A c \in Conns : conn[c].srv \in {"off", "over"}
    /\ host' = [host EXCEPT !.running = TRUE, !.listening = TRUE, !.state = IF host.addr # 0 THEN "offline" ELSE ""]
    /\ pending' = NoPending /\ UNCHANGED <<client, saved, conn, owner, others, used>>

(* The tunnel under a connection breaks with what is under way.            *)
Lose(c) ==
    /\ conn[c] # Off /\ ~conn[c].cut /\ used.losses < MaxLosses /\ used' = [used EXCEPT !.losses = @ + 1]
    /\ \E up \in Prefixes(conn[c].up), down \in Prefixes(conn[c].down) :
         conn' = [conn EXCEPT ![c].cut = TRUE, ![c].up = up, ![c].down = down]
    /\ UNCHANGED <<client, saved, host, pending, owner, others>>

-----------------------------------------------------------------------------
ClientStep ==
    \/ (\E c \in Conns : Dial(c)) \/ Refused \/ Accepted \/ AckFails \/ PairingFails
    \/ Sync \/ SyncReturns \/ SyncRefused \/ SyncFails

ServerStep(c) == Refuse(c) \/ Assign(c) \/ Acknowledge(c) \/ ServerFails(c) \/ Control(c)

Next ==
    \/ ClientStep \/ ConfigureFails \/ Leave \/ (\E k \in 1..host.key : Join(k))
    \/ \E c \in Conns : ServerStep(c) \/ Lose(c)
    \/ RemoveMember \/ TimerFires \/ RotateKey \/ OtherJoins \/ (\E a \in others : OtherRemoved(a))
    \/ Stop \/ Close \/ Start

(* The goroutines of both sides go on; a stop of the room completes, but   *)
(* nobody has to start it again.                                           *)
Fairness ==
    /\ WF_vars(ClientStep) /\ \A c \in Conns : WF_vars(ServerStep(c))
    /\ WF_vars(TimerFires) /\ WF_vars(Close)

Spec == Init /\ [][Next]_vars
FairSpec == Spec /\ Fairness

-----------------------------------------------------------------------------
InSession == client.at \in {"idle", "sync"}
Leased == host.addr # 0 /\ host.state \in {"configured", "offline"}

(* The list a Sync reads is the answer to its own report, whatever was     *)
(* lost, late or sent unasked before.                                      *)
SyncReadsItsAnswer ==
    client.at = "sync" /\ HeadIs(Mine.down, "list") => Head(Mine.down).report = client.report

(* A device that is served by the host uses the address and the PSK of its *)
(* acknowledged lease, although a reconnect ignores what it is given.      *)
AdapterIsLease ==
    InSession /\ Mine.srv = "control" /\ Leased
        => client.addr = host.addr /\ client.psk = host.psk

(* A device leaves by itself only when the host has no acknowledged lease  *)
(* with its PSK for it: what a reconnect can mend does not end a session,  *)
(* as long as the room is not stopped.                                     *)
StaysWhileMember ==
    [][(Refused \/ SyncRefused) /\ ~client.joining /\ client'.at = "out" /\ used.stops = 0
         => ~(Leased /\ host.psk = client.psk)]_vars

(* While the room is running, a session whose lease is gone comes to an    *)
(* end, also if the device was never told of its removal.  Join, which      *)
(* has no time limit, ends, although an attempt it gave up keeps the next  *)
(* ones out for a while.                                                   *)
SessionsEnd ==
    /\ (InSession /\ host.addr = 0) ~> (~InSession \/ host.addr # 0 \/ ~host.running)
    /\ client.joining ~> (~client.joining \/ ~host.running)
=============================================================================
