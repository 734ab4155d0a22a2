------------------------------ MODULE Discovery ------------------------------
(***************************************************************************)
(* The discovery relay (discovery/relay.go, frame.go, tun.go).  The TUN of *)
(* a member turns a broadcast into a numbered frame for the host; the      *)
(* host's puts it into a channel.  One worker of the host reads frames     *)
(* from members, one reads the channel; both take the time first, and what *)
(* passes the checks is injected at the host and sent to every other       *)
(* member, whose TUN filters duplicates again.  Frames may be lost,        *)
(* duplicated and reordered.  Time is counted in ticks.                    *)
(***************************************************************************)
EXTENDS Integers, FiniteSets, Sequences

CONSTANTS
    Members, Host,
    Sizes,       \* sizes of packets
    Second,      \* ticks in a second
    PacketRate, ByteRate,  \* memberPacketsPerSecond (128), memberBytesPerSecond (256 KiB)
    RoomRate,    \* roomPacketsPerSecond (2048)
    WindowSize, TTL,       \* of the replay window: 1024 entries, 5 s
    QueueSize,   \* frames in the host's channel (256)
    MaxClock, MaxFrames, MaxReads,  \* bounds: ticks, frames per sender, frames the workers read
    MayRejoin    \* members may leave and join again

Senders == Members \cup {Host}
RoomBytes == 2^20    \* 1 << 30: never reached

VARIABLES
    clock,
    online,      \* members that the room lists as configured or online
    epoch, sequence,  \* per sender: its session, and the last number of its TUN
    net,         \* frames on their way to the host
    frames,      \* the host's channel
    inbox,       \* per member: frames on their way to it
    remote, local,    \* what the workers are about: [frame, now] or None
    replay,      \* per receiver: entries [sender, seq, seen]
    memberLim, roomLimit,
    reads,       \* frames read so far
    accepts,     \* history: what the host's window accepted, [frame, now]
    passed,      \* history: per sender, what the limits let through, [now, size, total]
    got          \* per member: what its TUN was given, [frame, now]

traffic == <<net, frames, inbox>>
history == <<accepts, passed, got>>
vars == <<clock, online, epoch, sequence, traffic, remote, local, replay, memberLim, roomLimit, reads, history>>

None == [frame |-> "none"]
FullBucket(packetRate, byteRate, now) ==
    [packets |-> packetRate * Second, bytes |-> byteRate * Second, last |-> now]

Init ==
    /\ clock = 0 /\ online = Members
    /\ epoch = [s \in Senders |-> 0] /\ sequence = [s \in Senders |-> 0]
    /\ net = {} /\ frames = << >> /\ inbox = [m \in Members |-> {}]
    /\ remote = None /\ local = None /\ replay = [s \in Senders |-> {}]
    /\ memberLim = [s \in {} |-> FullBucket(PacketRate, ByteRate, 0)]
    /\ roomLimit = FullBucket(RoomRate, RoomBytes, 0)
    /\ reads = 0 /\ accepts = << >> /\ passed = [s \in Senders |-> << >>] /\ got = [m \in Members |-> << >>]

-----------------------------------------------------------------------------
IsDuplicate(window, f) == \E e \in window : e.sender = f.sender /\ e.seq = f.seq

(* ReplayWindow.Accept: what the window may be afterwards.  Of several     *)
(* oldest entries the order of a map decides which one goes.               *)
Live(window, now) == {e \in window : e.seen >= now - TTL}

(* Mutant: the comparison is the wrong way round, the newest goes. *)
EvictionsNewest(window) ==
    IF Cardinality(window) < WindowSize THEN {window}
    ELSE {window \ {e} : e \in {o \in window : \A x \in window : o.seen >= x.seen}}

Evictions(window) ==
    IF Cardinality(window) < WindowSize THEN {window}
    ELSE {window \ {e} : e \in {o \in window : \A x \in window : o.seen <= x.seen}}

Accept(window, f, now) ==
    {w \cup {[sender |-> f.sender, seq |-> f.seq, seen |-> now]} : w \in Evictions(Live(window, now))}

(* trafficBucket.take, with tokens in units of 1 / Second.                 *)
Smaller(a, b) == IF a < b THEN a ELSE b

(* Mutant: a refused packet does not move last, but its refill is kept. *)
RefillAgain(b, packetRate, byteRate, now) ==
    LET elapsed == IF now < b.last THEN 0 ELSE now - b.last IN
    [packets |-> Smaller(packetRate * Second, b.packets + elapsed * packetRate),
     bytes |-> Smaller(byteRate * Second, b.bytes + elapsed * byteRate),
     last |-> b.last]

Refill(b, packetRate, byteRate, now) ==
    LET elapsed == IF now < b.last THEN 0 ELSE now - b.last IN
    [packets |-> Smaller(packetRate * Second, b.packets + elapsed * packetRate),
     bytes |-> Smaller(byteRate * Second, b.bytes + elapsed * byteRate),
     last |-> now]

Enough(b, size) == b.packets >= Second /\ b.bytes >= size * Second
Spend(b, size) == [b EXCEPT !.packets = @ - Second, !.bytes = @ - size * Second]

(* allow: the member's bucket is paid even when the room's refuses.        *)
MemberBucket(sender, now) ==
    Refill(IF sender \in DOMAIN memberLim THEN memberLim[sender] ELSE FullBucket(PacketRate, ByteRate, now),
           PacketRate, ByteRate, now)
SetMember(sender, bucket) ==
    memberLim' = [s \in DOMAIN memberLim \cup {sender} |-> IF s = sender THEN bucket ELSE memberLim[s]]

Allowed(f, now) ==
    /\ Enough(MemberBucket(f.sender, now), f.size)
    /\ Enough(Refill(roomLimit, RoomRate, RoomBytes, now), f.size)

(* What is kept of a packet: total is the bytes of its sender so far.      *)
Total(s) == IF passed[s] = << >> THEN 0 ELSE passed[s][Len(passed[s])].total
Passing(f, now) == [now |-> now, size |-> f.size, total |-> Total(f.sender) + f.size]

Allow(f, now) ==
    LET member == MemberBucket(f.sender, now)
        room == Refill(roomLimit, RoomRate, RoomBytes, now) IN
    /\ SetMember(f.sender, IF Enough(member, f.size) THEN Spend(member, f.size) ELSE member)
    /\ roomLimit' = IF ~Enough(member, f.size) THEN roomLimit
                    ELSE IF Enough(room, f.size) THEN Spend(room, f.size) ELSE room
    /\ passed' = IF Allowed(f, now) THEN [passed EXCEPT ![f.sender] = Append(@, Passing(f, now))] ELSE passed

(* fanout: to those that are listed, not to the sender.                    *)
fanout(f) == inbox' = [m \in Members |-> IF m \in online /\ m # f.sender THEN inbox[m] \cup {f} ELSE inbox[m]]

-----------------------------------------------------------------------------
Frame(s, size) == [sender |-> s, seq |-> sequence[s] + 1, epoch |-> epoch[s], size |-> size]

(* DiscoveryTun.Read: a member's broadcast, and the host's, which is lost  *)
(* when the channel is full.                                               *)
Capture(s, size) ==
    /\ s \in online \cup {Host} /\ sequence[s] < MaxFrames
    /\ sequence' = [sequence EXCEPT ![s] = @ + 1]
    /\ IF s = Host
       THEN frames' = (IF Len(frames) < QueueSize THEN Append(frames, Frame(s, size)) ELSE frames) /\ UNCHANGED net
       ELSE net' = net \cup {Frame(s, size)} /\ UNCHANGED frames
    /\ UNCHANGED <<clock, online, epoch, inbox, remote, local, replay, memberLim, roomLimit, reads, history>>

(* The workers read a frame and the time.                                  *)
ReadRemote(f) ==
    /\ remote = None /\ f \in net /\ reads < MaxReads /\ reads' = reads + 1
    /\ remote' = [frame |-> f, now |-> clock]
    /\ UNCHANGED <<clock, online, epoch, sequence, traffic, local, replay, memberLim, roomLimit, history>>

ReadLocal ==
    /\ local = None /\ frames # << >> /\ reads < MaxReads /\ reads' = reads + 1
    /\ local' = [frame |-> Head(frames), now |-> clock] /\ frames' = Tail(frames)
    /\ UNCHANGED <<clock, online, epoch, sequence, net, inbox, remote, replay, memberLim, roomLimit, history>>

(* relayCore.member: the first check that fails ends it.  Members() may    *)
(* wait for the room's lock, so time has passed; inject may fail.          *)
HandleMember ==
    /\ remote # None /\ remote' = None
    /\ LET f == remote.frame
           now == remote.now IN
          IF f.sender \notin online \/ IsDuplicate(Live(replay[Host], now), f)
          THEN UNCHANGED <<inbox, replay, memberLim, roomLimit, accepts, passed>>
          ELSE /\ \E w \in Accept(replay[Host], f, now) : replay' = [replay EXCEPT ![Host] = w]
               /\ accepts' = Append(accepts, [frame |-> f, now |-> now])
               /\ Allow(f, now)
               /\ IF Allowed(f, now) THEN fanout(f) \/ UNCHANGED inbox ELSE UNCHANGED inbox
    /\ UNCHANGED <<clock, online, epoch, sequence, net, frames, local, reads, got>>

(* relayCore.host.                                                         *)
HandleHost ==
    /\ local # None /\ local' = None
    /\ Allow(local.frame, local.now)
    /\ IF Allowed(local.frame, local.now) THEN fanout(local.frame) ELSE UNCHANGED inbox
    /\ UNCHANGED <<clock, online, epoch, sequence, net, frames, remote, replay, reads, accepts, got>>

(* DiscoveryTun.Write of a member.                                         *)
Deliver(m, f) ==
    /\ m \in online /\ f \in inbox[m] /\ Len(got[m]) < MaxReads
    /\ ~IsDuplicate(Live(replay[m], clock), f)
    /\ \E w \in Accept(replay[m], f, clock) : replay' = [replay EXCEPT ![m] = w]
    /\ got' = [got EXCEPT ![m] = Append(@, [frame |-> f, now |-> clock])]
    /\ UNCHANGED <<clock, online, epoch, sequence, traffic, remote, local, memberLim, roomLimit, reads, accepts, passed>>

(* A member leaves; when it joins again it has the same address and a new  *)
(* TUN, with its own count and window.                                     *)
Leave(m) ==
    /\ MayRejoin /\ m \in online /\ epoch[m] = 0 /\ online' = online \ {m}
    /\ UNCHANGED <<clock, epoch, sequence, traffic, remote, local, replay, memberLim, roomLimit, reads, history>>

Rejoin(m) ==
    /\ m \notin online /\ online' = online \cup {m}
    /\ epoch' = [epoch EXCEPT ![m] = @ + 1] /\ sequence' = [sequence EXCEPT ![m] = 0]
    /\ replay' = [replay EXCEPT ![m] = {}] /\ inbox' = [inbox EXCEPT ![m] = {}]
    /\ got' = [got EXCEPT ![m] = << >>]
    /\ UNCHANGED <<clock, net, frames, remote, local, memberLim, roomLimit, reads, accepts, passed>>

Tick ==
    /\ clock < MaxClock /\ clock' = clock + 1
    /\ UNCHANGED <<online, epoch, sequence, traffic, remote, local, replay, memberLim, roomLimit, reads, history>>

Next ==
    \/ \E s \in Senders, size \in Sizes : Capture(s, size)
    \/ \E f \in net : ReadRemote(f)
    \/ ReadLocal \/ HandleMember \/ HandleHost \/ Tick
    \/ \E m \in Members : (\E f \in inbox[m] : Deliver(m, f)) \/ Leave(m) \/ Rejoin(m)

Spec == Init /\ [][Next]_vars

-----------------------------------------------------------------------------
(* A receiver takes a frame twice only when more than TTL has passed, or   *)
(* when as many frames as its window holds came with it or after it: the   *)
(* host, and the TUN of every member, which also never gets its own.       *)
Once(taken) ==
    \A i, j \in DOMAIN taken :
        (i < j /\ taken[i].frame = taken[j].frame) =>
            \/ taken[j].now - taken[i].now > TTL
            \/ Cardinality({k \in 1..(j - 1) : k # i /\ taken[k].now >= taken[i].now}) >= WindowSize

NoReplay ==
    /\ Once(accepts)
    /\ \A m \in Members : Once(got[m]) /\ \A i \in DOMAIN got[m] : got[m][i].frame.sender # m

(* From any packet of a sender that the limits let through to any later    *)
(* one, they are at most a full bucket and what the time between them      *)
(* refills, in packets and in bytes, however they are spread over time.    *)
MemberRate ==
    \A s \in Senders : \A i, j \in DOMAIN passed[s] :
        LET first == passed[s][i]
            last == passed[s][j] IN
        i <= j =>
            /\ (j - i + 1) * Second <= PacketRate * (Second + last.now - first.now)
            /\ (last.total - first.total + first.size) * Second <= ByteRate * (Second + last.now - first.now)
=============================================================================
