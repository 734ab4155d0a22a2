# Formal model of opl-core

opl-core lets players build a small virtual LAN. One player *hosts a room*: the
process opens a WireGuard interface (10.0.23.1/24), listens for *pairing*
connections that reach it through OpenP2P tunnels, gives every device that
pairs an address lease and a WireGuard peer, and relays LAN discovery packets.
Other players *join* with an invite code. This directory holds TLA+ models of
the program's own logic, the TLC runs that check them and TLAPS proofs.

Line numbers below refer to the Go sources under `src/internal/`.

## 1. Inventory

| Component | State | Operations | Interaction |
|---|---|---|---|
| `lease` allocator | leases by device key, table of used octets, revision counter | New, Assign, Remove, RemoveIfRevision, Restore, Snapshot | called by the room service under its lock |
| `room` service | room identity and key, allocator, member states, PSKs, blacklist, pending attempts, reclaim timers | Create, Start, Stop, StartOrCreate, SetJoinEnabled, RemoveMember, BlockMember, UnblockUID, RenameMember, RotateKey, UpdateMemberStats; callbacks of the pairing server; timer callback | one mutex; calls WireGuard through the runtime and writes two files while it holds it |
| `pairing` server | connections, slots, device list and its owners, copy of the room key, write lock | accept, pair, control loop, SetRoomKey, RemoveMember, Close | one goroutine per connection; calls back into the room service |
| `pairing` client | session, member PSK | Pair, Reconnect, Sync, Close | used by the runtime of a joining process |
| `state`, `secret` | `room.json` (+ `.bak`), `room.secret` | Load, Save | atomic rename of each file, no transaction over both |
| `wg` manager | WireGuard device, peers | Start, SetPeer, RemovePeer, PeerStats, Close | wireguard-go UAPI |
| `core` runtime | mode (idle, host, client, ordinary), host manager and relay, client session, life-cycle state | Join, Leave, syncDevices, StartOpenP2P, StopOpenP2P, ReplaceConfig, ReplaceTunnels, startNetwork, stopNetwork, Close | own mutex; starts and stops the engine after releasing it |
| `openp2pengine/embedded.go` | module state, the one network | Start, Stop, AddApp, state reports | two mutexes, one goroutine per run |
| `openp2pengine` | gateway connection, apps, tunnels, overlay connections, listeners, message queues, whitelist | run, init, readLoop, pushes, addDirectTunnel, handshakes, daemons, heartbeats, overlay messages | many goroutines around shared maps and channels |
| `openp2p` store | user and internal tunnels in `config.json` | Load, Replace, SetInternal, ClearInternal | own mutex; the running engine writes the same file |
| `discovery` relay | replay windows, token buckets, frame channel | read, accept, forward | two workers; the TUN of every member |
| `api`, `webapi` | requests under way, watcher | dispatch, respond, shut down | stdin/stdout, or a goroutine per WebSocket message |
| `cmd`, `management` | settings file, listener of the page, access list | select an address, change the list, serve, stop | commands and the serve loop share the settings |

What is hard here: a pairing takes several messages and several critical
sections, and every command of the host, a second connection of the same
device, a reclaim timer or a statistics refresh may come in between; commands
run concurrently and look at state before they take the lock that guards it;
Stop has to wait for goroutines that use locks it needs or that nobody ends;
two programs write one file; the engine closes, restarts and reconnects from
many goroutines at once; every answer may be lost, late, or somebody else's.

What makes each part correct:

* allocator: an address has one owner, none leaks, a device keeps its address,
  a snapshot can be loaded;
* room service: a failed or interrupted attempt leaves nothing behind, a
  finished one stays; memory, WireGuard and files agree; a device that was
  blocked or holds an old invite stays out;
* pairing: every connection comes to an end and returns its slot; a device
  reads the answers to its own reports and uses the address it was given;
* runtime: one mode at a time, the engine runs exactly when a mode needs it, a
  late Leave does not hit a newer session;
* engine: one network, one read loop; it reconnects, its apps and tunnels come
  back, a connection has one owner and ends at both ends;
* files: what was saved can be loaded, no writer undoes another's change;
* relay: nothing is delivered twice, nobody gets more than the rates allow.

The list of hazards with their lines is in `PROJECT.json`.

## 2. Modules

| Module | Contents |
|---|---|
| `Leases` | the allocator as pure operators on an allocator value |
| `AddressPool` | abstract specification: what the allocator promises |
| `LeaseAllocator` | the allocator as a state machine, refinement of `AddressPool` |
| `LeasesProofs` | lemmas about the operators of `Leases` and `RoomOps` |
| `RoomOps` | state of the room service, WireGuard and the files; what each critical section does to them |
| `Room` | the hosted room: connections, timers, host commands, life cycle, crashes |
| `RoomProofs` | theorems about `Room` |
| `RoomFiles` | `room.json` and its backup step by step |
| `PairServer` | slots, deadlines, locks and Close of the pairing server |
| `PairClient` | a joining device against the host, frame by frame |
| `Runtime` | the modes of the runtime and the commands that change them |
| `Engine` | Start and Stop of the embedded engine |
| `ConfigFile` | `config.json` and its two writers |
| `Gateway` | the engine's connection to the gateway |
| `AppTable` | configured and running apps |
| `LinkModes` | who listens, who dials and which handshake, for each link mode |
| `HolePunch`, `SymmetricPunch` | the udp and the tcp handshakes |
| `AppTunnels` | the direct and the relay tunnel of an app |
| `V4Listener` | the public listener |
| `Overlay` | the connections of users over a tunnel |
| `IPTree` | the whitelist |
| `Discovery` | the discovery relay |
| `Api` | the request protocol |
| `Management` | the management page's address and access list |
| `MCData`, `MCRoom`, `MCRuntime`, `MCTunnels`, `MCEngine`, `MCServe`, `MCNode` | instances for TLC, see section 3 |
| `DataProofs` | theorems about `LeaseAllocator`, `IPTree` and `RoomFiles` |
| `PairClientProofs` | theorems about `PairClient` |
| `RuntimeProofs`, `EngineProofs`, `TunnelsProofs`, `NodeProofs` | theorems about `MCRuntime`, `MCEngine`, `MCTunnels` and `MCNode`, and so about every component these put side by side |

A definition introduced by the comment "Mutant" is a deliberately faulty variant
of the definition after it. No specification uses it; it serves to confirm that
a property notices that fault. `PROJECT.json` maps every other definition to the
lines it models; the comment at the head of a module says what it covers.

### Leases, LeaseAllocator

`byKey`, `used` and `revision` are the fields of `lease.Allocator`. An address
is its last octet; the pool is `FirstOctet .. LastOctet` (2..254 in the code).
Each operation holds `Allocator.mu` from start to end, so each is one action.
`held` is a lease a caller looked up earlier and may hand to Restore or
RemoveIfRevision later (the room service keeps such leases in
`pendingPair.previous` and in timer closures); `saved` is a snapshot that was
written to a file or kept for an undo and may be given to New.

### Room

| Variable | Code |
|---|---|
| `svc` | the fields of `room.Service` that the mutex protects |
| `wg` | the WireGuard device of the host: up or down, address and PSK of each peer |
| `disk` | contents of `room.json` and `room.secret` |
| `conns` | one record per pairing connection: where its goroutine is, and its local variables |
| `devices` | `Server.devices` with `Server.deviceOwners` |
| `clock` | the `time.AfterFunc` timers, running or expired and waiting for the lock |
| `used` | what has been used up of the bounds |
| `hist` | history, only read by properties |

A connection goes through `open` (room key copied, challenge sent), `vetted`
(request authenticated, UID not on the blacklist), `leased` (assign succeeded,
waiting for the PairAck), `control`, and, for a statistics report, `reporting`
(KnownMember answered) and `listed` (device list updated). Each transition is
one critical section of the service or the server; everything else may happen
in between. Sections that are separate in the code but merged in one action
are those where the order against other steps makes no difference: the
JoinEnabled/KnownMember check of the server refuses nothing that assign would
not refuse at the same moment, and MemberAuthKey is looked up again in assign.

A WireGuard call or a save may fail (`applyOK`, `removeOK`, `saveOK`, counted
by `MaxFaults`). A failing `persistLocked` leaves both files as they were, as it
writes the old secret back; that this write-back also fails is not modelled.
`CrashWhileSaving` is a crash after the secret was written and before
`room.json` was; both files are replaced atomically by themselves. Peers move
an allowed address as wireguard-go does: giving it to one peer takes it from
any other.

Data left out: traffic counters, ports, room and host identities, proofs. A PSK
is represented by the room key it was derived from, a room key by a number. A
device's UID is `UidOf[k]`; a request without UID (which skips the blacklist) is
not modelled. All leases are enabled, as no operation disables one.

### RoomFiles

`Save` is one action per system call: back up the file that is there, write the
temporary file, sync, rename. `name` is what the running system sees under a
name, `disk` what a power loss leaves; a rename reaches the disk some time after
it was made. Damage hits only `room.json`, and only while there is a good backup.
There are two kinds of it, because the code has two checks: `loadOne` decodes
strictly, `Save` looks at the old file with a plain `json.Unmarshal` and
`validate`. Contents that no check accepts are `Damaged`, contents with a key that
`loadOne` does not know are `Foreign`. A `Foreign` file replaces the good backup at
the next save, and a crash before `room.json` is renamed then leaves nothing that
loads. `RoomSurvives` names this backup as the only way to lose the room;
`BackupIsRead`, which is what the manual says, is false for that reason and is
not part of a run.

### PairServer, PairClient

`PairServer` follows the goroutine of each connection through the slot it
takes, the locks its callbacks need and the deadline it works under ("odd" and
"even" deadlines tell a deadline that was set anew from one that still runs).
The room is a lock and a set of members. `PairClient` has one device, the
connections it has opened, with both ends and the frames under way, and what
the room knows of this device. A connection is lost together with any suffix
of what was under way; a client that closes may leave its handler working on
frames that arrived before. `LeftBehind` is the one assumption about time: a
request the device abandoned is read or lost before it dials again, which it
does after 250 ms or 1 s. Without it a delayed request can renew the lease of a
device that was removed meanwhile, with another address and the same PSK, and the
device then reconnects without noticing.

### Runtime, Engine, ConfigFile

In `Runtime` a step is one critical section of `r.mu` or one call that changes
state; `pc` says where each command is, so that whatever the code does between
two sections can be interleaved with other commands. The engine's Start and Stop
are one step there and have their own steps in `Engine`. A restart of the engine
in ReplaceConfig, ReplaceTunnels and Leave may stop it and fail to start it:
`failed` remembers that until an engine starts. `taken` remembers the Joins whose
joinCancel was cleared by an earlier Join that took the session for its own.

`Engine` keeps `moduleID`, the goroutine of each run, the two mutexes, and of the
network what they guard and what they do not: its first init() runs under
`networkMu`, the later ones of its run() under no lock. shutdown() is two steps,
what it marks and closes, and its return, between which an init() may succeed;
`leftover` remembers the networks to which that can happen. What else becomes of
a connection is in `Gateway`; in `Engine` a network that is online stays so until
it is shut down.

`ConfigFile` has the file, the engine's copy of it and, for each
command, the tunnels it works with. handleEditApp saves twice, which is one
action; `late` marks a save that outlives its engine, and `EngineRunsFile` is
stated without those.

### The OpenP2P engine

`Gateway` models run(), init(), the read loop, the autorun loop and the report
goroutine of each websocket, restartCh with its one token, and shutdown, in one
part with every goroutine that closes the websocket (`Closers`): the read loop,
any writer, the report goroutine. A writer never runs out of failures to report,
faults are counted. Two histories name what the code gets wrong: `twice`, a failure
was reported again after run() took the report, so that a token is left when the
new connection is up; `uncounted`, run() went on before a spawned read loop had
added itself to wgReconnect.
`AppTable` keeps gConf.Apps as what it is, a slice of pointers whose backing
array is shared by whoever holds an older slice. `LinkModes` computes, over
every pair of environments two nodes can be in, what each side does for each
link mode. `HolePunch` has port-restricted NATs and a set of packets under way,
`SymmetricPunch` the dials of the tcp variant; `BothGetThrough` is stated for
punches without a loss, timeouts come only when no packet is on its way, and the
"busy" error of a second punch on `buildTunnelMtx` (holepunch.go:65,162) is left
out. `AppTunnels` has the slots of one
app, the loops of each tunnel and the bounded notification channel. In `Overlay`
a user is a source address, `OnePort` the users that send from one port number,
and the messages of each tunnel are a queue, so that over two tunnels they arrive
in any order; `overtaken` remembers the connections whose disconnect arrived
before their connect. Tunnels that are lost and the reuse of ids by old goroutines
are left out.
`IPTree` keeps the search tree as the set of its nodes and leaves open which of
them is the root of what remains to be searched, so that every shape is covered;
Del and Clear, which nothing calls, are left out, and an entry that cannot
be parsed counts as address 0.

### Discovery, Api, Management

`Discovery` counts time in ticks, `Second` of them to a second, and tokens in
units small enough that refilling is exact; both workers take the time before
they touch a bucket. `Api` has a loop (stdin) or a goroutine per request
(WebSocket), the watcher's ticker, and a client that may stop reading. In
`Management` the page moves 300 ms after a command returned; commands of several
callers overlap, a command may fail after its save, interfaces may vanish and the
process may end between any two steps. `alone` and `doubt` remember whether the
last command ran by itself and what those that did not, or that failed half way,
may have left wrong.

## 3. Runs

All bounds are CONSTANTS set in the cfg files, or given by an `INSTANCE ... WITH`
of the MC module. `room_*` use one model, `client` and `runtime_overlap` a
component's module itself. The other MC modules put several components side by
side. Components of one such module share no state: the variable `part`, chosen
in the initial state, says which of them moves, the others stay where they begin,
and fairness is stated for the part that moves. A component that is looked at
from two sides (with one caller and with two; with tcp and with udp) appears as
two parts with constants of their own. So each run explores the union of its
parts' behaviours, not their product.

| Run | Parts and bounds | Properties |
|---|---|---|
| `data` | allocator: 3 devices, 2 addresses, 3 revisions; tree: 8 addresses, blocks of 1, 2, 4 and 8; files: 4 versions, 3 faults | `AllocatorConsistent`, `ImplementsPool`; `LookupRight`; `RoomSurvives` |
| `room_races` | 2 devices, 2 connections, 1 address, 3 attempts, temporary room | `TypeOK`, `LeasesConsistent`, `PeersMatch`, `ListedIsConnected`, `MembershipKept` |
| `room_faults` | 1 device, 1 connection, 2 names, 2 room keys, 2 failing calls, 1 stop or crash, fixed room | `DiskInSync` |
| `room_liveness` | 1 device, 2 connections, 2 attempts, 1 stop or crash, fixed room | `AttemptsEnd`, `RemovedIsUnlisted`, `StopCompletes` |
| `client` | a device with 2 connections, 2 addresses, 1 join, 1 loss, 1 removal, other members, a room that stops and starts once | `SyncReadsItsAnswer`, `AdapterIsLease`, `StaysWhileMember`, `SessionsEnd` |
| `runtime` | serial: 9 commands, 5 in a row, with every failure; joins: 2 callers that join and leave, 4 commands, 2 joins, a host that refuses; overlap: 2 callers that start, stop, join and leave, 4 commands, 1 join | `OneMode`, `EngineServesMode`; `LeftJoinReturns` |
| `tunnels` | table: 2 ports, a push and an addition; tunnels: 3 direct and 3 relay ones, notification channel of 1; modes: every pair of environments; udp punch: 3 sockets, 2 guessed, 2 losses; tcp punch: 3 dials, 1 break; tcp: 2 users, 2 tunnels, 1 payload; udp: 3 users, 2 of them with one port, 3 datagrams | `OneAppPerPort`, `EnabledAppsRun`; `TunnelsHeal`; `SidesFit`; `PeersAgree`, `BothGetThrough`; `AnswersReachSender`, `BothEnd` |
| `engine` | gateway: 2 websockets, 2 faults, every closing goroutine, a stop; engine: 1 and 2 callers, 2 starts, any number of dials; listen: 2 tunnels, 2 connections; config.json: 2 callers, or 1 with the engine's own saves and pushes, 4 commands, 1 crash | `OneReader`, `EngineSettles`; `OneNetwork`; `OneOwner`; `ConfigKept` |
| `serve` | pairing server: 2 connections, 1 slot; interface: 2 requests of any kind on stdin or on a WebSocket that may break | `ServerProgresses`; `ClientServed` |
| `node` | relay: 2 members and the host, 1 frame each, 2 reads, a member that rejoins; window: a window of 2 entries, 3 frames, 4 reads, TTL of 1 tick; buckets: 2 frames of sizes 1 and 2, 3 reads, rates 1 and 2 per second; page: 3 addresses, 2 callers, 4 commands, 1 restart; responses on stdout: 2 requests of any kind, a pipe that may break; pairing server: 2 connections, 1 slot | `NoReplay`; `MemberRate`; `NoLockout`; `CommandsInOrder`; `SlotsAndLocks` |

What they show:

* *Leases.* No address has two owners and none leaks, at the limit of the pool
  and with late restores, and the allocator does nothing the abstract pool does
  not do. In a room the same holds through rollback, reclaim, removal, failing
  calls and restarts, `room.json` always holds leases Start accepts, and a device
  is never "already pairing" because of an attempt that is over. The WireGuard
  peers are the leases (`PeersMatch`), and the files what memory says
  (`DiskInSync`). A device gets a lease only where joining is allowed, keeps its
  address as long as it has the lease, and loses it only to the host or to an
  expired timer of this very lease (`MembershipKept`). `PeersMatch` is stated for
  states in which no WireGuard call failed and no timer hit a pending attempt, and
  `MembershipKept` for steps after none did; what the timer does then is among the
  observations below. `DiskInSync` excludes saves whose error the code ignores
  (`pairingFailed` and the timer).
* *Connections.* The device list names live connections only and forgets removed
  devices; attempts end; stopping a room completes; no client that stops half way
  holds up the server, the room's lock, a slot or Close. A slot is held by exactly
  the connections that are pairing, a device entry by one in its control loop, the
  lock for writes by one that writes, and Close leaves none of them behind
  (`SlotsAndLocks`).
* *Joining.* A device takes the answer to a report for the answer to that report,
  its adapter has the address and the PSK of its lease across reconnects, only a
  lease that is gone (or a host that stops the room, which `used.stops` rules out
  in `StaysWhileMember`) makes it leave, and a session or a Join whose device the
  host does not know ends.
* *Runtime.* One command at a time, one mode is active, the engine runs only when
  a mode needs it and with the account of the room, and a mode is without it only
  after a restart that failed; with concurrent commands a Join that was left
  returns, unless an earlier one took its session (`taken`).
* *Engine.* One network is in use, and another is logged in only where it was shut
  down during an init() (`leftover`). One read loop reads a websocket, whoever
  closes it, unless one had not counted itself (`uncounted`). The network comes back
  online once faults end, unless one of them was reported twice (`twice`), and
  run() ends after a stop. Apps that are switched on run, one per port; tunnels come
  back; both ends of every link attempt fit, agree on sockets and connections; a
  stream has one owner. Answers go to the user who asked; only udp users with one
  source port get each other's. A tcp connection ends at both nodes, unless its
  disconnect overtook its connect (`overtaken`) or the peer could not make it.
* *config.json.* Commands do not undo each other's tunnels while the engine saves
  nothing itself; with its saves and one command at a time the engine runs what the
  file says, except for its own late saves.
* *room.json.* What was saved can be loaded after crashes, power losses and damage,
  unless a file that only Save's check accepts has become the backup.
* *Interface, relay, page.* Requests read by the stdin loop are answered in order,
  all are answered and changes reported while the client is there; frames are not
  replayed beyond what the window forgets; a sender stays within its buckets; at
  rest a browser on the device is let in at the address the page is served at,
  unless a command that overlapped another or failed half way came after the last
  one that ran alone and completed (`doubt`).

Bounds. Each is chosen so that the case the properties are about happens: fewer
addresses than devices; three attempts, for a failed one, its retry and a
competitor; two connections of one device, for the session in use and the handler
of the one before; two websockets, so that goroutines of an earlier one may be
left; a push while runAll walks its snapshot; a notification channel of one place,
so that notifications are dropped; two starts, so that the goroutine of an earlier
run is about; two joins, so that one can take the session of the other; fewer slots
than connections; a window of two entries and three frames, so that it overflows
and has an oldest entry, and a TTL that ends within the run; two tunnels, so that
the messages of a connection can be reordered, and as many datagrams as udp users,
so that two of one port are answered; 8 addresses, so that a range can meet several others; four
saves and three faults, so that one hits the file and another its backup.

Fairness. Goroutines are scheduled (weak fairness of the steps of each loop). A
pairing connection always leaves its current state, because it has a deadline
(`idleTimeout`, `configureTimeout`) and `Server.Close` closes it; a control
connection without reports runs into its deadline (a client that keeps reporting
need never stop); a timer expires and gets the mutex. A Go mutex goes to everyone
who keeps asking (strong fairness in `serve`; Go hands a mutex to a waiter after
1 ms). A dial of the gateway connection that no fault prevents succeeds, which
takes a `v4l.stop()` that returns (see the observations); faults are counted, so a
behaviour is free of them in the end. In `Engine` an init() ends, and that of a
network that is not shut down succeeds at some time (strong fairness); shutdown()
returns unless an init() succeeded meanwhile. A Join that runs in a goroutine of
the interface returns. Nothing is assumed of users,
clients, hosts or commands: nobody has to call Start, Stop, Join or Leave, to send
or to read. `CHECK_DEADLOCK FALSE` is set where a system that has done what its
bounds allow may stand still.

Two runs expect a violation, each a disagreement with a document that the finding
in `PROJECT.json` quotes:

| Run | Property | What TLC finds |
|---|---|---|
| `room_unacked` | `UnackedReclaimed` | A statistics refresh gives an unacknowledged lease the state "configured"; the reclaim timer then keeps it, and no timer is left. |
| `runtime_overlap` | `OneMode` | Join looks at the room service before it takes the lock: a room started in between and the join are both active. |

### Observed while modelling

Reading the code for the models turned up other places where it does not do what
a document, a comment or a test says. The models have these behaviours wherever
they cover the lines; no run states them, and the properties above are stated so
that they hold beside them.

* `room/room.go:760`: a retry of the same device races the timer of its failed attempt, which removes the lease under it; the PairAck is then accepted and the device has no lease ("已有设备重连复用原 IP", `Core功能文档.md:446`).
* `room/room.go:760`: the timer spares only the state "configured"; one that has expired and waits for the lock takes the lease of a member that has acknowledged meanwhile and that the statistics made "online".
* `room/room.go:825`: after that retry, rollbackPairLocked applies the old lease to WireGuard although the address has another owner (`Core功能文档.md:453`).
* `room/room.go:598`: a failed rename rebuilds the allocator with `lease.New`, which forgets the revisions of removed leases ("单调递增的 revision", `Core功能文档.md:446`).
* `pairing/network.go:219`: the blacklist is checked before assign in a section of its own; a device blocked in between gets a lease (`web/app.js:251`).
* `pairing/network.go:190`: a connection copies the room key when it opens; a device that was connected before `room.rotateKey` joins with the old invite ("立即", `Core功能文档.md:401`).
* `state/state.go:65`: Save checks the old file with a plain decoder, Load with a strict one: a room.json with an unknown key is refused by Load and copied over the good backup by Save ("保存前会把上一个有效版本写入 `.bak`，主文件损坏时读取备份", `Core功能文档.md:123`); a crash before the rename then leaves no file that loads.
* `openp2pengine/p2pnetwork.go:1090`: close() is called by the read loop, by writers and by the report goroutine for one failure; the second token restarts the connection that was just made, whose closing may be reported twice again.
* `openp2pengine/p2pnetwork.go:966`: readLoop adds itself to wgReconnect after it began to run: a restart that comes before it finds nothing to wait for, and two goroutines then read the new websocket.
* `openp2pengine/p2pnetwork.go:830`: init() sets running and online without a look at shutdownCh: a network whose init() succeeds while shutdown() runs (`:1125`) is logged in after Stop, and the next Start logs in a second one under the same name; its autorunApp loop, which nobody ends, may keep shutdown() waiting under `networkMu`.
* `openp2pengine/p2pnetwork.go:319`: an app switched off between AddApp's check and its Store is stored and started.
* `openp2pengine/p2pnetwork.go:444`: AddApp checks and stores without a lock around the two: the embedding program and runAll can both add an app.
* `openp2pengine/handlepush.go:246`: MsgPushAPPKey stays in the queue of a peer until a dial to that peer reads it; a full queue blocks the gateway's read loop.
* `openp2pengine/p2pnetwork.go:583`: the intranet and IPv4 attempts use TCP whatever PunchPriority says (`config.go:18`).
* `openp2pengine/p2papp.go:848`: AvailableTunnel returns the first slot that is not nil, a dead direct tunnel before a live relay one.
* `openp2pengine/p2pnetwork.go:711`: a tunnel whose loops end before newTunnel stores it is stored dead.
* `openp2pengine/embedded.go:199`: a Start between Stop's two locks adopts the network that Stop then shuts down.
* `openp2pengine/embedded.go:161`: runEmbedded creates a network without looking at the module state, also after a Stop ("只在底层引擎确实停止后返回成功", `Core功能文档.md:530`).
* `openp2pengine/embedded.go:239`: a state checked before Stop is reported after it.
* `core/runtime.go:367`: the Leave deferred by a cancelled Join takes whatever session there is, the next Join's included.
* `core/runtime.go:491`: a Join whose session was left with its answer at hand takes the session of the next Join for its own and clears that one's joinCancel; that Join goes on retrying after a Leave.
* `core/runtime.go:324`: tunnel.replace that overlaps openp2p.stop starts the engine again.
* `core/runtime.go:327`: a restart whose stop succeeded and whose start failed leaves the mode with its flag and no engine (also `:260`, `:549`); `openp2p.start` is then refused as already active.
* `core/runtime.go:549`: a Leave stops the engine after it gave up the session; a room started in between loses it.
* `core/runtime.go:248`: config.replace decides on flags read before and saves another account although a join has begun (`Core功能文档.md:108`).
* `api/api.go:133`: a room.join that begins after the Leave of Close is cancelled by nobody; the loop waits for it.
* `core/runtime.go:785`: onProcessState loads and stores the lifecycle in two operations; a stop in between is overwritten.
* `cmd/opl-core/main.go:133`: an access list saved in the 300 ms before the page moves lacks the new address (`web/index.html:73`).
* `cmd/opl-core/main.go:128`: two selections are saved in one order and bound in the other.
* `cmd/opl-core/main.go:121`: an error after the save (here, or of managementInfo in `:126`) leaves the saved address or the published list without the move of the page: the list may lack the address that is served.
* `openp2pengine/v4listener.go:53`: stop() between the check of running and the opening of the listener waits for a goroutine that stays in Accept; init(), which calls it, does not return then.
* `openp2pengine/p2papp.go:652`: the id of a udp user is made of bytes that are 0 for every IPv4 address; users of two hosts with one port share a connection and get each other's answers.
* `openp2pengine/overlay.go:86`: over two tunnels the disconnect can overtake the connect; the peer's end then stays.
* `openp2pengine/p2ptunnel.go:800`: a dial that fails at the peer is not answered; the end here stays until its user goes.
* `openp2pengine/overlay.go:81`: the end of one udp user closes the socket of all.
* `api/api.go:148`: room.join runs beside the requests read after it ("请求按读取顺序同步调度", `Core功能文档.md:192`).
* `webapi/server.go:177`: core.shutdown whose response cannot be written stops the services and leaves the process.
* `discovery/relay.go:204`: a full bucket and its refill let up to twice the limit through in one second (`Core功能文档.md:472`).
* `discovery/relay.go:206`: a worker with an earlier time sets the room bucket back, and the same time is refilled twice.
* `discovery/tun.go:44`: the first frames of a member that rejoins within 5 s are refused as duplicates.
* `pairing/network.go:182`: a slot is returned before the control loop: the limit is on pairings ("最大 16 个并发连接", `Core功能文档.md:409`).
* `core/runtime.go:317`: a login of the engine between the save of tunnel.replace and the stop writes the old tunnels back.
* `core/runtime.go:398`: a Leave that overtakes the Join it cancels clears the internal tunnels before the Join writes them.
* `openp2pengine/handlepush.go:317`: an edit pushed by the server can put two tunnels on a port into config.json, which the store then refuses.
* `pairing/network.go:287`: a report read after Stop reset running is answered "member disabled": the device leaves a fixed room instead of reconnecting.

## 4. Proofs

Every safety property of the passing runs, invariants, `ImplementsPool` and the
action properties `StaysWhileMember` and `MembershipKept`, is also proved, for every value of the
constants: devices, connections, callers, tunnels, frames, reads, faults and window
sizes may be of any number, and the bounds that the runs put on counters are constants
of the theorems as of the runs. What an MC module fixes in an `INSTANCE ... WITH`
is fixed in the theorems about it too, and no more than that is claimed: one caller in "engine",
"config" and "serial"; no saves and pushes of the engine in "store", two and one in
"config"; 5 commands and 3 joins in "serial", 4 and 2 in "joins"; one member in
"window" and "rate", a queue of one frame in the relay, and rates out of the way
where a window is looked at; one tunnel for udp users.
The MC modules that put components side by side are what the theorems of
`EngineProofs`, `TunnelsProofs`, `RuntimeProofs` and `NodeProofs` are about: the
inductive invariant has one conjunct per part, guarded by `part` where two parts
use the same variables. TLC finds each inductive invariant of the last five
modules to hold on the bounds of its run too (in `NodeInv` the clauses
`\E S : T \in Seq(S)`, which say that something is a sequence, are out of its
reach).

The assumptions on constants only keep markers apart from data ("no lease",
"none", the states of a loop), name sets that are not empty, say that bounds,
rates and octets are numbers, or that the connections whose slots are counted are
finitely many. No theorem has a hypothesis beyond these. Where the code has an
exception, it is part of the property, as a history variable that says when it
applies: `raced`, `wgFailed` (Room), `used.stops` (PairClient), `failed`
(Runtime), `leftover` (Engine), `uncounted` (Gateway), `late` (ConfigFile), `OnePort` (Overlay),
`doubt` (Management), the backup `Foreign` (RoomFiles).

### DataProofs, LeasesProofs

For the allocator, `DataProofs` proves, for every set of devices and names, every pool
and every number of steps: `TypeCorrect`, `AllocatorIsConsistent`,
`SavedAlwaysLoads`, `AddressIsStable` and `ImplementsAddressPool`. Assumptions:
the pool is a non-empty interval of positive octets (`OctetAssumption`) and "no
lease" is neither a lease nor a key (`NoLeaseAssumption`). Keys and names need
not be finite.

`Consistent(alloc)` alone is not inductive: a reload must be known to load a
well-formed snapshot, and a Restore a well-formed lease. `IInv` adds that
every looked-up lease carries its own key, a member address and a positive
revision, and that saved leases are accepted by New and have positive
revisions. `LeasesProofs` has one lemma per operator saying that it preserves
`Consistent` and what it does to other keys; `UsedCharacterised` turns the set
equation for `used` into a pointwise one that the solvers can use; the least
free octet and the highest revision exist by well-founded induction. The refinement proof
shows for each action which step of the pool it is, or that it leaves the pool alone.

For the whitelist it proves, for every number of addresses and every shape of the
tree, `RangesDisjoint`, `TreeCoversListed` and `LookupIsRight`. Assumption: there
is at least one address. The ranges of the tree stay disjoint only because of
what a search has passed by: `TreeInv` adds that every node the descent has left
behind is apart from the range that is being added (or does not hold the address
that is looked up), and that the tree together with the range that is being added
covers exactly the entries so far. `UnionCovers` is the step that matters:
ranges that are not apart have a union that is a range.

For `room.json` it proves, for any number of saves, crashes, power losses and
damages, `RoomAlwaysLoads` and `NewestLoads`. `FilesInv` says what the steps of Save
rely on: the temporary file holds the version that is being saved (`Held`), both
names refer to a valid file, a damaged one or none (`Named`), and on the disk a
`room.json` that does not load has a backup that does, or one that only Save's
check accepts (`Backed`).

### RoomProofs

`RoomProofs` proves every safety invariant that the room
runs check, for every number of devices, names, connections, addresses, room
keys, faults and restarts: `RoomTyped`, `RoomLeasesConsistent`,
`RoomListedIsConnected`, `RoomDiskInSync` and `RoomPeersMatch`; the action
property `RoomMembershipKept`; and `RoomMembersCanReturn`, that every member of a
running room has the pre-shared key it needs to come back without an invite.
Assumptions beside the allocator's: a device key has one UID (`UidAssumption`), the bound on room keys
is a natural number (`RoomKeyAssumption`), a room is fixed or not
(`ModesAssumption`). `LeasesProofs` has the lemmas about the operators of
`RoomOps`: what each critical section keeps, changes and leaves alone.

- `TInv` is `TypeOK` with what the operators need: the allocator is consistent,
  a connection past its request is that of a device, and `room.json` holds
  leases that load, with positive and bounded revisions (what Start needs to
  build a consistent allocator from them). `PendingOwned`,
  `ListedIsConnected` and `DiskInSync` are each inductive beside `TInv`. The
  lemma that matters for `DiskInSync` is `RollbackUndoes`: assign followed by
  its rollback leaves what would be written to the files unchanged, for a new
  and for a known device.
- `PeersMatch` needs more. `AInv` says that every lease, in memory, kept for
  rollback or saved, is enabled and has a pre-shared key, and that a room key
  that is used or saved is a real one: without it a rollback may remove the
  peer of a lease that it restores. `PInv` adds that the network of a running
  room is up and that a pending attempt still has its lease at the address that
  a rollback would restore (`PendingKept`): without it Restore may be refused
  after the peer was set. This is what a timer that reclaims the lease under a
  pending attempt breaks, so `PInv` asks for it only while `hist.raced` is
  false. `SetPeerMatches` uses that addresses are distinct: setting a peer
  never takes the address of another one.
- `RoomMembershipKept` needs both. A rollback keeps the membership of a device
  only if Restore is not refused, which is `PendingKept`, and if the attempt that
  is rolled back is one of a device that had a lease: the connection decides that
  from what assign told it, the rollback from what the attempt remembers.
  `AttemptsKnown` says that the two agree as long as the tokens do, which rests on
  tokens being new: the counter of attempts outlives the room. `RollbackRestores`
  is `RollbackUndoes` seen from the allocator, since consistent allocators with
  one snapshot have the same leases (`SnapshotDetermines`).

### PairClientProofs

`SyncGetsItsAnswer`, `AdapterHasTheLease` and `MembersStay`, for every number of
connections, addresses, losses, joins, removals and stops. Assumptions: "no
connection" is none (`ConnAssumption`), an address is a positive number
(`AddrAssumption`).

None of the three is inductive. `ClientInv` adds, beside the types:

- `Ends`: the device holds at most one end open, nothing can be read from a
  closed one, and while it holds one no request of an earlier attempt waits on
  another connection. Without it a handler that comes late could serve a request
  the device has forgotten and change the lease under the session in use.
- `Reports`: a report and its answer are under way only during the Sync that sent
  the report, at most one of the two, with its number.
- `Requests`: what a handler is going to read is the request of the device, and
  a member's request carries the PSK it has.
- `Agreed`: the lease, the address a rollback would restore, the one on its way
  to the device and the one the device has are the same or none; this is what
  makes it right that a reconnect ignores the address it is given. It needs
  that a pending pairing belongs to the connection of the device.
- `Owned`: the connection that a report made the owner of the lease is served.
- `Known`, `Sound`, `Told`: keys are keys; in a room that was not stopped the
  reclaim timer runs only for a lease nobody acknowledged; a status frame that
  makes a member leave is true of the lease when it is read, not only when it
  was sent. The last one is the reason why `MembersStay` holds although the
  frame may be late.

### RuntimeProofs

`ModeIsOne` and `ModeHasItsEngine`. A command of the runtime takes and gives back
the lock several times, so between its steps neither property is true of all
flags at once. `SerialInv` says for every label of a command which flags are up,
whether the engine runs or a restart of it failed, what mode is reported and where
the command returns to (`Resting`, `Begun`, `Stopping`, `Ordinary`, `Replacing`, `Joining`); the labels
are the places of the code between two critical sections. For commands that
overlap, the exclusion of a join and ordinary tunnels is inductive as it stands,
as both are decided under one lock. Assumption: a caller is not a goroutine of
syncDevices (`CallersAssumption`).

### EngineProofs

- `NetworkIsOne`: what is live is the network the global variable names, since
  creation and stop both hold `networkMu`; what is logged in and not live was
  shut down while it dialled, since a dial begins only in a live network
  (`NetworkInv`).
- `ReaderIsOne`: from the end of run()'s wait until init() succeeds there is no read
  loop, because the wait ended with none counted and nobody else spawns one; whoever
  closes the websocket meanwhile, and how often, changes tokens and links only
  (`ReaderInv`). A read loop that was spawned and not counted breaks this, which is
  what `uncounted` says.
- `OwnerIsOne`: a connection in a tunnel's channel or with the tunnel was stored
  for that tunnel, and is not in both places (`OwnerInv`).
- `ConfigIsKept`: with several callers (`StoreInv`) the user's tunnels in the
  file are those asked for last, because what the holder of the mutex has loaded
  is still what the file holds. With one caller and an engine that saves on its
  own (`ConfigInv`), the invariant says which plans of steps a command can have
  left, for which session and engine (`Fits`), that an engine no earlier save can
  overwrite saves what it runs (`InStep`), and that both internal tunnels of a
  client are in every configuration that can still become the file's (`Joined`).
  Assumption: the internal tunnels are not tunnels of the user.

### TunnelsProofs

- `PunchesAgree`, over TCP: the flag of the cone side is set before any connection is
  `Involved` (a message on its way, read or answered, or the connection in a
  channel), and at most one ever is (`PunchInv`).
- `PunchesAgree`, over UDP: the cone side is bound to the first socket it hears, only that
  one is acknowledged, so only that one gets through (`HoleInv`).
- `PortHasOneApp`: a port that AddApp found free stays free until the app is
  stored (`TableInv`), as long as the runtime adds no app itself.
- `SidesAlwaysFit`: each list of attempts consists of attempts that fit
  (`FitAttempts`), for all environments; a case analysis over the modes.
- `AnswersAreTheSenders`: what is on its way carries the id of the user it is
  from, and a connection that can be written to was made for a user with its id;
  two users with one id are the same or send from one port (`Kin`, `OverlayInv`).

### NodeProofs

- `NothingIsReplayed`: a frame that was taken has its entry in the window or was
  forgotten for a reason (its TTL passed, or as many others came as the window
  holds), and entries are only those of frames that were taken (`Kept`); the
  workers' times do not go back at one receiver. The count of what came with a
  frame or after it is an argument about cardinalities: entries that outlive the
  pushed-out one are as many different frames.
- `RateIsKept`: from any packet of a sender on, what was let through together
  with what is left in the bucket is at most a full bucket and the refill since
  (`Covers`). The property is stated with running totals, so that it needs no sum
  over a sequence.
- `OwnDeviceIsLetIn`: as long as nothing is in doubt, a command that runs is the
  only thing under way, and where the page is, moves to, or is told to move to lets
  the device in; once it is, nothing is claimed until a command has run alone
  (`PageInv`).
- `AnswersComeInOrder`: the requests read are the first ones sent (`Queued`);
  the command the loop dispatches is the last of them, and every command before
  it is answered unless the loop has ended (`InTurn`), so a response is appended
  only after those of all earlier commands.
- `NothingIsLeftBehind`: `ServerInv` adds to `SlotsAndLocks` how far a connection is
  that is registered with the server, and the order in which Stop goes on: from
  the moment it begins, the room's lock is not held by RemoveMember and the room
  does not run, and once the listener is closed nobody is accepted, so that the
  connections Close waits for become fewer only. That a slot comes back on every path is an
  argument about the cardinality of the connections that hold one, for the one
  connection that moves (`SlotsCount`, `SlotReturned`).

### Only model-checked

- Liveness: `AttemptsEnd`, `RemovedIsUnlisted`, `StopCompletes`, `SessionsEnd`,
  `LeftJoinReturns`, `EnabledAppsRun`, `TunnelsHeal`, `BothGetThrough`,
  `BothEnd`, `EngineSettles`, `ServerProgresses`, `ClientServed`. Fairness needs ENABLED, which the prover does not have.
- `AppTunnels` and the WebSocket of `Api` have liveness properties only and so no
  theorems.
- The two violations, `UnackedReclaimed` and `OneMode` with overlapping commands.

Two properties of a room that one might expect are not stated because the code
does not have them: that a blocked device gets no lease, and that revisions only
grow (both among the observations).

## 5. Not modelled

* Cryptography and framing (`pairing.go`), encoding of invites (`invite`), key
  files (`device`): no state. A valid proof is a fact of a request.
* The TUN device, interface configuration and the WireGuard protocol: external.
* Of the OpenP2P engine: the queues of requests to the gateway and of pushed
  messages (`msgMap`), NAT and UPnP detection, traffic reports, relay
  accounting, logging, the shells of the platforms; the SD-WAN and the self update
  of the upstream project are not used by the embedded engine.
* Of the web server: sessions, static files, headers; the user interface.
* Process start-up: flags, data directory, log files.
* `management/settings.go` renames without syncing: after a power loss the
  settings may be empty. No document promises otherwise, so there is no
  property; `Management` has crashes of the process only.
