-------------------------------- MODULE Room --------------------------------
(***************************************************************************)
(* A hosted room: the room service, the pairing server's connections, the  *)
(* timers that reclaim unacknowledged leases, the WireGuard device and the *)
(* files of a fixed room, with process crashes.                            *)
(*                                                                         *)
(* Every critical section of Service.mu is one atomic action.  A pairing   *)
(* connection is a goroutine (Server.handle) that goes through             *)
(*   open      accepted: it has read the server's room key and sent the    *)
(*             challenge,                                                  *)
(*   vetted    the request is authenticated and its UID was not blocked,   *)
(*   leased    assign has given it a lease; it waits for the PairAck,      *)
(*   control   the pairing is acknowledged; it serves statistics reports,  *)
(*   reporting KnownMember has answered for the report being served,       *)
(*   listed    the device list holds the report.                           *)
(* The service state can change between any two of these steps.            *)
(***************************************************************************)
EXTENDS RoomOps, Sequences

CONSTANTS Conns,        \* concurrent pairing connections
          RoomModes,    \* subset of BOOLEAN: kinds of room created (TRUE = fixed)
          MaxAttempts,  \* bound: pairing attempts per process
          MaxFaults,    \* bound: failing WireGuard calls and file writes
          MaxRestarts   \* bound: stops and crashes

ASSUME ModesAssumption == RoomModes \subseteq BOOLEAN

VARIABLES svc,      \* the room service in memory
          wg,       \* the WireGuard device
          disk,     \* [state, secret]: room.json and room.secret
          conns,    \* the pairing connections
          devices,  \* Server.devices and deviceOwners: who is listed, through which connection
          clock,    \* running or expired timers of pairingFailed
          used,     \* [keys, faults, restarts]: what the bounds count
          hist      \* history: see Histories

vars == <<svc, wg, disk, conns, devices, clock, used, hist>>

ClosedConn == [pc |-> "closed", key |-> NoLease, roomKey |-> 0, existingAuth |-> FALSE,
               token |-> 0, created |-> FALSE, revision |-> 0, octet |-> 0]

ConnRecords == [pc : {"closed", "open", "vetted", "leased", "control", "reporting", "listed"},
                key : Keys \cup {NoLease}, roomKey : PSKs, existingAuth : BOOLEAN,
                token : Nat, created : BOOLEAN, revision : Nat, octet : Octets]

NotListed == [conn |-> NoLease, octet |-> 0]

Timers == [key : Keys, revision : Nat, token : Nat, expired : BOOLEAN]

(* acked      : keys whose pairing was acknowledged and that the host has  *)
(*              not removed since,                                         *)
(* raced      : a timer reclaimed a lease under a pending attempt,         *)
(* unsaved    : a save failed and the failure was ignored,                 *)
(* wgFailed   : a WireGuard call failed.                                   *)
Histories == [acked : SUBSET Keys, raced : BOOLEAN, unsaved : BOOLEAN, wgFailed : BOOLEAN]

TypeOK ==
  /\ svc \in Service /\ wg \in WireGuard
  /\ disk \in [state : StateFile, secret : SecretFile]
  /\ conns \in [Conns -> ConnRecords]
  /\ devices \in [Keys -> [conn : Conns \cup {NoLease}, octet : Octets]]
  /\ clock \in SUBSET Timers
  /\ used \in [keys : Nat, faults : Nat, restarts : Nat]
  /\ hist \in Histories

NoHistory == [acked |-> {}, raced |-> FALSE, unsaved |-> FALSE, wgFailed |-> FALSE]

Init ==
  /\ svc = FreshService /\ wg = NetworkDown
  /\ disk = [state |-> NoFile, secret |-> NoSecret]
  /\ conns = [c \in Conns |-> ClosedConn]
  /\ devices = [k \in Keys |-> NotListed]
  /\ clock = {}
  /\ used = [keys |-> 0, faults |-> 0, restarts |-> 0]
  /\ hist = NoHistory

-----------------------------------------------------------------------------
(* persistLocked for memory m.  A failing write leaves both files as they  *)
(* were: the secret is written first and put back if room.json fails.      *)
Saved(m) == IF m.fixedRoom THEN [state |-> StateOf(m), secret |-> SecretOf(m)] ELSE disk

(* Faults: ok tells which of the calls of a step succeed.  *)
Faults(calls) ==
  LET n == Cardinality({i \in DOMAIN calls : ~calls[i]})
  IN /\ used.faults + n <= MaxFaults
     /\ used' = [used EXCEPT !.faults = @ + n]

(* A save whose error the code ignores; ok lists the step's failing calls, *)
(* the save last.                                                          *)
SaveIgnored(m, ok) ==
  /\ ~m.fixedRoom => ok[Len(ok)]
  /\ Faults(ok)
  /\ disk' = IF ok[Len(ok)] THEN Saved(m) ELSE disk

Close(c) == conns' = [conns EXCEPT ![c] = ClosedConn]

StopTimer(timers, token) == {t \in timers : t.token # token \/ t.expired}

-----------------------------------------------------------------------------
(* Pairing connections (Server.pair).  One that is accepted while the room *)
(* stops fails its first check; it is left out.                            *)

Connect(c) ==
  /\ conns[c].pc = "closed" /\ svc.running
  /\ conns' = [conns EXCEPT ![c] = [ClosedConn EXCEPT !.pc = "open", !.roomKey = svc.roomKey]]
  /\ UNCHANGED <<svc, wg, disk, devices, clock, used, hist>>

(* The request carries the proof of the connection's room key (an invite)  *)
(* or, with existingAuth, of the member's PSK, and a UID that is not       *)
(* blocked.                                                                *)
Request(c, k, existingAuth) ==
  /\ conns[c].pc = "open"
  /\ existingAuth => HasAuthKey(svc, k)
  /\ ~BlockedUID(svc, UidOf[k])
  /\ conns' = [conns EXCEPT ![c].pc = "vetted", ![c].key = k, ![c].existingAuth = existingAuth]
  /\ UNCHANGED <<svc, wg, disk, devices, clock, used, hist>>

(* A wrong proof, a blocked UID, a bad frame, a timeout or a lost          *)
(* connection before assign.                                               *)
RequestFails(c) ==
  /\ conns[c].pc = "open"
  /\ Close(c)
  /\ UNCHANGED <<svc, wg, disk, devices, clock, used, hist>>

(* Mutant: assign waits for the room instead of refusing. *)
AssignRefusedWhileRunning(c) ==
  /\ conns[c].pc = "vetted" /\ svc.running
  /\ ~MayAssign(svc, conns[c].key, conns[c].existingAuth)
  /\ Close(c)
  /\ UNCHANGED <<svc, wg, disk, devices, clock, used, hist>>

(* assign refuses; the JoinEnabled and KnownMember checks of the server    *)
(* just before it refuse nothing that assign would not refuse as well.     *)
AssignRefused(c) ==
  /\ conns[c].pc = "vetted"
  /\ ~MayAssign(svc, conns[c].key, conns[c].existingAuth)
  /\ Close(c)
  /\ UNCHANGED <<svc, wg, disk, devices, clock, used, hist>>

(* assign; applyPeer is skipped for a member that authenticated with its   *)
(* PSK.  A failing applyPeer or save rolls the attempt back.               *)
AssignLease(c, name, applyOK, saveOK) ==
  LET k == conns[c].key
      existing == conns[c].existingAuth
      m == Assigned(svc, k, name, conns[c].roomKey, existing)
      item == m.alloc.byKey[k]
      applied == IF existing THEN wg ELSE SetPeer(wg, k, item, m.psks[k])
      created == ~HasLease(svc.alloc, k)
  IN /\ conns[c].pc = "vetted" /\ svc.pairAttempt < MaxAttempts
     /\ MayAssign(svc, k, existing)
     /\ existing => applyOK
     /\ (~svc.fixedRoom \/ ~applyOK) => saveOK
     /\ Faults(<<applyOK, saveOK>>)
     /\ IF applyOK /\ saveOK
          THEN /\ svc' = m /\ wg' = applied /\ disk' = Saved(m)
               /\ conns' = [conns EXCEPT ![c].pc = "leased", ![c].token = m.pairAttempt, ![c].created = created,
                                         ![c].revision = item.revision, ![c].octet = item.octet]
               /\ hist' = [hist EXCEPT !.unsaved = @ /\ ~svc.fixedRoom]
          ELSE /\ svc' = RolledBack(m, k, m.pending[k])
               /\ wg' = RolledBackPeers(IF applyOK THEN applied ELSE wg, k, m.pending[k])
               /\ Close(c)
               /\ hist' = [hist EXCEPT !.wgFailed = @ \/ ~applyOK]
               /\ UNCHANGED disk
     /\ UNCHANGED <<devices, clock>>

(* The result cannot be sent or no valid PairAck arrives: pairingFailed.   *)
(* Nothing happens for an attempt that is no longer the pending one.       *)
PairSuperseded(c) ==
  /\ conns[c].pc = "leased"
  /\ svc.pending[conns[c].key].token # conns[c].token
  /\ Close(c)
  /\ UNCHANGED <<svc, wg, disk, devices, clock, used, hist>>

(* The attempt of a device that had a lease is rolled back; an error of    *)
(* the save is ignored.                                                    *)
PairRolledBack(c, saveOK) ==
  LET k == conns[c].key
      p == svc.pending[k]
      m == RolledBack(svc, k, p)
  IN /\ conns[c].pc = "leased" /\ p.token = conns[c].token /\ ~conns[c].created
     /\ svc' = m /\ wg' = RolledBackPeers(wg, k, p)
     /\ SaveIgnored(m, <<saveOK>>)
     /\ hist' = [hist EXCEPT !.unsaved = svc.fixedRoom /\ ~saveOK]
     /\ Close(c)
     /\ UNCHANGED <<devices, clock>>

(* A new lease is kept for a while: a timer is to reclaim it.              *)
PairLeftToTimer(c) ==
  LET k == conns[c].key
      token == svc.pending[k].token
  IN /\ conns[c].pc = "leased" /\ token = conns[c].token /\ conns[c].created
     /\ svc' = [svc EXCEPT !.pending[k] = NoPending, !.timers[k] = token]
     /\ clock' = StopTimer(clock, svc.timers[k])
                   \cup {[key |-> k, revision |-> conns[c].revision, token |-> token, expired |-> FALSE]}
     /\ Close(c)
     /\ UNCHANGED <<wg, disk, devices, used, hist>>

(* A valid PairAck: pairingAcknowledged, which ignores a stopped room and  *)
(* a superseded attempt; either way the connection becomes a control one.  *)
PairAck(c) ==
  LET k == conns[c].key
  IN /\ conns[c].pc = "leased"
     /\ conns' = [conns EXCEPT ![c].pc = "control"]
     /\ IF svc.running /\ svc.pending[k].token = conns[c].token
          THEN /\ svc' = Acknowledged(svc, k)
               /\ clock' = StopTimer(clock, svc.timers[k])
               /\ hist' = [hist EXCEPT !.acked = @ \cup {k}]
          ELSE UNCHANGED <<svc, clock, hist>>
     /\ UNCHANGED <<wg, disk, devices, used>>

(* Mutant: the device list is not cleaned up. *)
UnlistNothing(c) == UNCHANGED devices

(* The control loop: a statistics report is answered with MemberDisabled   *)
(* and the end of the connection, or listed; a removed device's report     *)
(* that passed the check is still listed.                                  *)
Unlist(c) == devices' = [k \in Keys |-> IF devices[k].conn = c THEN NotListed ELSE devices[k]]

ReportKnown(c) ==
  /\ conns[c].pc = "control" /\ KnownMember(svc, conns[c].key)
  /\ conns' = [conns EXCEPT ![c].pc = "reporting"]
  /\ UNCHANGED <<svc, wg, disk, devices, clock, used, hist>>

ReportListed(c) ==
  /\ conns[c].pc = "reporting"
  /\ conns' = [conns EXCEPT ![c].pc = "listed"]
  /\ devices' = [devices EXCEPT ![conns[c].key] = [conn |-> c, octet |-> conns[c].octet]]
  /\ UNCHANGED <<svc, wg, disk, clock, used, hist>>

(* reportStats: the UID becomes known if the lease still has that address. *)
ReportStats(c) ==
  LET k == conns[c].key
  IN /\ conns[c].pc = "listed"
     /\ conns' = [conns EXCEPT ![c].pc = "control"]
     /\ svc' = IF HasLease(svc.alloc, k) /\ svc.alloc.byKey[k].octet = conns[c].octet
                 THEN [svc EXCEPT !.uidKnown = @ \cup {k}] ELSE svc
     /\ UNCHANGED <<wg, disk, devices, clock, used, hist>>

(* The client goes away, the idle deadline passes, or the member is no     *)
(* longer known.                                                           *)
ControlEnds(c) ==
  /\ conns[c].pc = "control"
  /\ Close(c) /\ Unlist(c)
  /\ UNCHANGED <<svc, wg, disk, clock, used, hist>>

-----------------------------------------------------------------------------
(* Timers of pairingFailed.  An expired one still has to get Service.mu;   *)
(* until then Stop comes too late for it.                                  *)

TimerExpires(t) ==
  /\ ~t.expired
  /\ clock' = (clock \ {t}) \cup {[t EXCEPT !.expired = TRUE]}
  /\ UNCHANGED <<svc, wg, disk, conns, devices, used, hist>>

TimerRuns(t, removeOK, saveOK) ==
  LET k == t.key
      m == Reclaimed(svc, k)
  IN /\ t.expired
     /\ clock' = clock \ {t}
     /\ IF Reclaims(svc, t)
          THEN /\ svc' = m
               /\ wg' = IF removeOK THEN RemovePeer(wg, k) ELSE wg
               /\ SaveIgnored(m, <<removeOK, saveOK>>)
               /\ hist' = [hist EXCEPT !.raced = @ \/ svc.pending[k] # NoPending,
                                       !.wgFailed = @ \/ ~removeOK,
                                       !.unsaved = IF svc.fixedRoom THEN ~saveOK ELSE @]
          ELSE /\ removeOK /\ saveOK
               /\ svc' = [svc EXCEPT !.timers[k] = 0]
               /\ UNCHANGED <<wg, disk, used, hist>>
     /\ UNCHANGED <<conns, devices>>

-----------------------------------------------------------------------------
(* Commands of the host. *)

(* Mutant: the change is kept although the save failed. *)
SaveChangeKept(m, undone, saveOK) ==
  /\ svc.running
  /\ ~svc.fixedRoom => saveOK
  /\ Faults(<<saveOK>>)
  /\ svc' = m
  /\ disk' = IF saveOK THEN Saved(m) ELSE disk
  /\ hist' = IF saveOK THEN [hist EXCEPT !.unsaved = @ /\ ~svc.fixedRoom] ELSE hist
  /\ UNCHANGED <<wg, conns, devices, clock>>

(* A state change that only needs saving: it is undone if the save fails.  *)
SaveChange(m, undone, saveOK) ==
  /\ svc.running
  /\ ~svc.fixedRoom => saveOK
  /\ Faults(<<saveOK>>)
  /\ svc' = IF saveOK THEN m ELSE undone
  /\ disk' = IF saveOK THEN Saved(m) ELSE disk
  /\ hist' = IF saveOK THEN [hist EXCEPT !.unsaved = @ /\ ~svc.fixedRoom] ELSE hist
  /\ UNCHANGED <<wg, conns, devices, clock>>

SetJoinEnabled(enabled, saveOK) ==
  SaveChange([svc EXCEPT !.joinEnabled = enabled], svc, saveOK)

UnblockUID(u, saveOK) ==
  /\ u \in svc.blocked
  /\ SaveChange([svc EXCEPT !.blocked = @ \ {u}], svc, saveOK)

RenameMember(k, name, saveOK) ==
  /\ HasLease(svc.alloc, k)
  /\ SaveChange([svc EXCEPT !.alloc = Assign(@, k, name)], RenameUndone(svc), saveOK)

(* RotateKey saves the secret only and hands the key to the server. *)
RotateKey(saveOK) ==
  LET m == [svc EXCEPT !.roomKey = used.keys + 1]
  IN /\ svc.running /\ used.keys < MaxRoomKeys
     /\ ~svc.fixedRoom => saveOK
     /\ used.faults + (IF saveOK THEN 0 ELSE 1) <= MaxFaults
     /\ used' = [used EXCEPT !.keys = @ + 1, !.faults = IF saveOK THEN @ ELSE @ + 1]
     /\ svc' = IF saveOK THEN m ELSE svc
     /\ disk' = IF saveOK /\ svc.fixedRoom THEN [disk EXCEPT !.secret = SecretOf(m)] ELSE disk
     /\ UNCHANGED <<wg, conns, devices, clock, hist>>

(* RemoveMember and BlockMember; blocking needs the member's UID, known    *)
(* from its reports.  A failing removePeer or save puts the member back.   *)
RemoveMember(k, block, removeOK, saveOK) ==
  LET m == Removed(svc, k, block)
      item == svc.alloc.byKey[k]
  IN /\ svc.running /\ HasLease(svc.alloc, k)
     /\ block => k \in svc.uidKnown
     /\ (~svc.fixedRoom \/ ~removeOK) => saveOK
     /\ Faults(<<removeOK, saveOK>>)
     /\ clock' = StopTimer(clock, svc.timers[k])
     /\ IF removeOK /\ saveOK
          THEN /\ svc' = m /\ wg' = RemovePeer(wg, k) /\ disk' = Saved(m)
               /\ devices' = [devices EXCEPT ![k] = NotListed]
               /\ hist' = [hist EXCEPT !.acked = @ \ {k}, !.unsaved = @ /\ ~svc.fixedRoom]
          ELSE /\ svc' = RemoveUndone(svc, k)
               /\ wg' = IF removeOK /\ svc.psks[k] # 0 THEN SetPeer(RemovePeer(wg, k), k, item, svc.psks[k]) ELSE wg
               /\ hist' = [hist EXCEPT !.wgFailed = @ \/ ~removeOK]
               /\ UNCHANGED <<disk, devices>>
     /\ UNCHANGED conns

(* refreshHostStats reads the peers' statistics and hands them to          *)
(* UpdateMemberStats without a lock held in between, so they may miss a    *)
(* device or mention one that was removed and came back.                   *)
UpdateMemberStats(online, idle) ==
  /\ wg.up
  /\ svc' = StatsApplied(svc, online, idle)
  /\ UNCHANGED <<wg, disk, conns, devices, clock, used, hist>>

-----------------------------------------------------------------------------
(* Room life cycle. *)

(* StartOrCreate without a room.json, or Create of a temporary room. *)
CreateRoom(fixed) ==
  LET m == CreatedRoom(svc, fixed, used.keys + 1)
  IN /\ ~svc.running /\ ~wg.up /\ used.keys < MaxRoomKeys
     /\ fixed => ~disk.state.exists
     /\ svc' = m /\ wg' = NetworkUp /\ disk' = Saved(m)
     /\ used' = [used EXCEPT !.keys = @ + 1]
     /\ hist' = NoHistory
     /\ UNCHANGED <<conns, devices, clock>>

StartRoom ==
  LET m == RestoredRoom(svc, disk.state, disk.secret)
  IN /\ ~svc.running /\ ~wg.up
     /\ disk.state.exists /\ disk.secret.exists
     /\ AcceptsInitial(disk.state.members)
     /\ svc' = m /\ wg' = [NetworkUp EXCEPT !.peers = PeersOf(m)]
     /\ disk' = [disk EXCEPT !.secret = SecretOf(m)]
     /\ hist' = [hist EXCEPT !.unsaved = FALSE, !.raced = FALSE, !.wgFailed = FALSE]
     /\ UNCHANGED <<conns, devices, clock, used>>

(* Start fails after the network came up (a peer, the secret or the        *)
(* listener): the service is cleared and the network stopped, but the      *)
(* secret may have been written.                                           *)
StartFails(secretSaved) ==
  /\ ~svc.running /\ ~wg.up
  /\ disk.state.exists /\ disk.secret.exists
  /\ AcceptsInitial(disk.state.members)
  /\ Faults(<<FALSE>>)
  /\ svc' = ClearedService(svc)
  /\ disk' = IF secretSaved THEN [disk EXCEPT !.secret = SecretOf(RestoredRoom(svc, disk.state, disk.secret))]
                            ELSE disk
  /\ UNCHANGED <<wg, conns, devices, clock, hist>>

(* Create, or Start while the network of the stopped room is still up,     *)
(* fails without leaving anything but a cleared service.                   *)
StartRefused ==
  /\ ~svc.running
  /\ svc # ClearedService(svc)
  /\ svc' = ClearedService(svc)
  /\ UNCHANGED <<wg, disk, conns, devices, clock, used, hist>>

(* Stop: the room no longer runs; Server.Close then waits for every        *)
(* connection to end before the network is taken down.                     *)
StopRoom ==
  /\ svc.running /\ used.restarts < MaxRestarts
  /\ svc' = StoppedRoom(svc)
  /\ clock' = {t \in clock : t.expired \/ \A k \in Keys : svc.timers[k] # t.token}
  /\ used' = [used EXCEPT !.restarts = @ + 1]
  /\ UNCHANGED <<wg, disk, conns, devices, hist>>

StopNetwork ==
  /\ ~svc.running /\ wg.up
  /\ \A c \in Conns : conns[c].pc = "closed"
  /\ wg' = NetworkDown
  /\ UNCHANGED <<svc, disk, conns, devices, clock, used, hist>>

(* The process dies: everything but the files is lost. *)
ProcessLost ==
  /\ used.restarts < MaxRestarts
  /\ svc' = FreshService /\ wg' = NetworkDown
  /\ conns' = [c \in Conns |-> ClosedConn]
  /\ devices' = [k \in Keys |-> NotListed]
  /\ clock' = {}
  /\ used' = [used EXCEPT !.restarts = @ + 1]
  /\ UNCHANGED hist

Crash == ProcessLost /\ UNCHANGED disk

(* The process dies between the two writes of persistLocked, in a step     *)
(* that changes the secret.                                                *)
SecretOnly(m) ==
  /\ svc.fixedRoom
  /\ disk' = [disk EXCEPT !.secret = SecretOf(m)]
  /\ ProcessLost

CrashWhileSaving ==
  \/ \E c \in Conns, name \in Names :
       /\ conns[c].pc = "vetted" /\ MayAssign(svc, conns[c].key, conns[c].existingAuth)
       /\ SecretOnly(Assigned(svc, conns[c].key, name, conns[c].roomKey, conns[c].existingAuth))
  \/ \E c \in Conns :
       /\ conns[c].pc = "leased" /\ ~conns[c].created
       /\ svc.pending[conns[c].key].token = conns[c].token
       /\ SecretOnly(RolledBack(svc, conns[c].key, svc.pending[conns[c].key]))
  \/ \E t \in clock : t.expired /\ Reclaims(svc, t) /\ SecretOnly(Reclaimed(svc, t.key))
  \/ \E k \in Keys : svc.running /\ HasLease(svc.alloc, k) /\ SecretOnly(Removed(svc, k, FALSE))

-----------------------------------------------------------------------------
ConnStep(c) ==
  \/ Connect(c)
  \/ \E k \in Keys, existingAuth \in BOOLEAN : Request(c, k, existingAuth)
  \/ RequestFails(c)
  \/ AssignRefused(c)
  \/ \E name \in Names, applyOK, saveOK \in BOOLEAN : AssignLease(c, name, applyOK, saveOK)
  \/ PairSuperseded(c)
  \/ \E saveOK \in BOOLEAN : PairRolledBack(c, saveOK)
  \/ PairLeftToTimer(c)
  \/ PairAck(c)
  \/ ReportKnown(c)
  \/ ReportListed(c)
  \/ ReportStats(c)
  \/ ControlEnds(c)

TimerStep ==
  \E t \in clock : TimerExpires(t) \/ \E removeOK, saveOK \in BOOLEAN : TimerRuns(t, removeOK, saveOK)

HostStep ==
  \/ \E enabled, saveOK \in BOOLEAN : SetJoinEnabled(enabled, saveOK)
  \/ \E u \in UIDs, saveOK \in BOOLEAN : UnblockUID(u, saveOK)
  \/ \E k \in Keys, name \in Names, saveOK \in BOOLEAN : RenameMember(k, name, saveOK)
  \/ \E saveOK \in BOOLEAN : RotateKey(saveOK)
  \/ \E k \in Keys, block, removeOK, saveOK \in BOOLEAN : RemoveMember(k, block, removeOK, saveOK)
  \/ \E online, idle \in SUBSET Keys : UpdateMemberStats(online, idle)

LifeStep ==
  \/ \E fixed \in RoomModes : CreateRoom(fixed)
  \/ StartRoom \/ (\E secretSaved \in BOOLEAN : StartFails(secretSaved)) \/ StartRefused \/ StopRoom \/ StopNetwork
  \/ Crash \/ CrashWhileSaving

Next == (\E c \in Conns : ConnStep(c)) \/ TimerStep \/ HostStep \/ LifeStep

Spec == Init /\ [][Next]_vars

(* What the code's deadlines and the Go runtime guarantee: a pairing       *)
(* connection gets an answer or runs into its deadline (idleTimeout,       *)
(* configureTimeout), a served report completes, a control connection      *)
(* without a report runs into its deadline, a started timer expires and    *)
(* its function gets the lock, and Stop, once called, goes on.             *)
Fairness ==
  /\ \A c \in Conns :
       /\ WF_vars(RequestFails(c))
       /\ WF_vars(AssignRefused(c) \/ \E name \in Names : AssignLease(c, name, TRUE, TRUE))
       /\ WF_vars(PairSuperseded(c) \/ PairRolledBack(c, TRUE) \/ PairLeftToTimer(c) \/ PairAck(c))
       /\ WF_vars(ReportListed(c)) /\ WF_vars(ReportStats(c)) /\ WF_vars(ControlEnds(c))
  /\ WF_vars(TimerStep)
  /\ WF_vars(StopNetwork)

FairSpec == Spec /\ Fairness

-----------------------------------------------------------------------------
(* Properties. *)

(* "member is already pairing": a pending attempt of a running room is     *)
(* that of one connection, which still waits for the PairAck.              *)
PendingOwned ==
  \A k \in Keys :
    svc.running /\ svc.pending[k] # NoPending =>
      \E c \in Conns : /\ conns[c].pc = "leased" /\ conns[c].key = k
                       /\ conns[c].token = svc.pending[k].token

(* The allocator survives pairing, rollback, reclaim, removal and their    *)
(* failures, crashes and restarts: no address is leased twice, none leaks, *)
(* room.json always holds leases that Start accepts, and assign never      *)
(* refuses a device because of an attempt that is over.                    *)
LeasesConsistent ==
  Consistent(svc.alloc) /\ AcceptsInitial(disk.state.members) /\ PendingOwned

(* The files of a running fixed room are what its memory says, unless a    *)
(* save failed whose error is ignored: a change undone after a failed save *)
(* leaves no trace, and one that succeeded survives a crash.               *)
DiskInSync ==
  svc.running /\ svc.fixedRoom /\ ~hist.unsaved =>
    disk = [state |-> StateOf(svc), secret |-> SecretOf(svc)]

(* While no WireGuard call failed and no timer hit a pending attempt, the  *)
(* WireGuard peers of a running room are its leases: same devices, same    *)
(* addresses, same pre-shared keys.                                        *)
PeersMatch ==
  svc.running /\ ~hist.wgFailed /\ ~hist.raced => wg.peers = PeersOf(svc)

(* Membership: while a room runs and no timer hit a pending attempt, a     *)
(* device gets a lease only where joining is allowed, keeps its address as *)
(* long as it has the lease - whatever attempt is rolled back or command   *)
(* undone - and loses it only when the host removes it or when a timer     *)
(* that was due for this very lease finds it not configured.               *)
LeaseChange(k) ==
  LET before == svc.alloc.byKey[k]
      after == svc'.alloc.byKey[k]
  IN /\ before = NoLease /\ after # NoLease => svc.joinEnabled
     /\ before # NoLease /\ after # NoLease => after.octet = before.octet
     /\ before # NoLease /\ after = NoLease =>
          \/ k \notin hist'.acked
          \/ \E t \in clock \ clock' : /\ t.key = k /\ t.expired /\ t.revision = before.revision
                                      /\ svc.states[k] # "configured"

MembershipKept ==
  [][svc.running /\ svc'.running /\ ~hist'.raced => \A k \in Keys : LeaseChange(k)]_vars

(* A listed device is listed by a live control connection of that device,  *)
(* so the list cannot keep a device whose connection is gone.              *)
ListedIsConnected ==
  \A k \in Keys :
    devices[k].conn # NoLease =>
      /\ conns[devices[k].conn].key = k
      /\ conns[devices[k].conn].pc \in {"control", "reporting", "listed"}

(* Every pairing attempt of a running room comes to an end.                *)
AttemptsEnd ==
  \A k \in Keys : svc.running /\ svc.pending[k] # NoPending
                    ~> svc.pending[k] = NoPending \/ ~svc.running

(* A device that lost its lease disappears from the device list, even if   *)
(* it was listed by a report that was already past the membership check.   *)
RemovedIsUnlisted ==
  \A k \in Keys : devices[k].conn # NoLease /\ ~HasLease(svc.alloc, k)
                    ~> devices[k].conn = NoLease \/ HasLease(svc.alloc, k)

(* Stop completes: the network of a stopped room goes down.                *)
StopCompletes == ~svc.running /\ wg.up ~> ~wg.up

-----------------------------------------------------------------------------
(* What the documentation says and the code does not always do. *)

(* "A new lease without PairAck is rolled back, so that failed connections *)
(* cannot exhaust the pool": every lease of a running room is acknowledged, *)
(* being paired, or has a timer that reclaims it.                          *)
UnackedReclaimed ==
  \A k \in Keys :
    svc.running /\ HasLease(svc.alloc, k) =>
      \/ k \in hist.acked
      \/ svc.pending[k] # NoPending
      \/ \E t \in clock : t.key = k
=============================================================================
