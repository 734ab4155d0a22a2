----------------------------- MODULE RoomProofs -----------------------------
(***************************************************************************)
(* The room of module Room: its inductive invariant, and the theorems that *)
(* its state is well typed, its leases are consistent, its device list     *)
(* names connected devices only, its files follow its memory, its          *)
(* WireGuard peers are its leases and its members keep their leases, for   *)
(* every number of devices, connections, addresses, room keys, faults and  *)
(* restarts.                                                               *)
(***************************************************************************)
EXTENDS Room, LeasesProofs, FiniteSetTheorems

(* The parts of the inductive invariant. *)
DiskInv == disk \in [state : StateFile, secret : SecretFile] /\ Loads(disk.state.members)

(* A connection past its request is that of a device. *)
ConnInv ==
  /\ conns \in [Conns -> ConnRecords]
  /\ \A c \in Conns : conns[c].pc \notin {"closed", "open"} => conns[c].key \in Keys

(* The device list has its type. *)
DevicesInv == devices \in [Keys -> [conn : Conns \cup {NoLease}, octet : Octets]]

(* The counters of the bounds have their types. *)
UsedInv == used \in [keys : Nat, faults : Nat, restarts : Nat]

(* The inductive invariant of the first three theorems: types, a           *)
(* consistent allocator in memory and a loadable room.json.                *)
TInv == /\ GoodService(svc) /\ wg \in WireGuard /\ DiskInv /\ ConnInv /\ DevicesInv
        /\ clock \in SUBSET Timers /\ UsedInv /\ hist \in Histories

(* What persistLocked writes is well formed and can be loaded again. *)
LEMMA FilesGood ==
  ASSUME NEW m, GoodService(m)
  PROVE  StateOf(m) \in StateFile /\ SecretOf(m) \in SecretFile /\ Loads(StateOf(m).members)
<1>1. m \in Service /\ m.alloc \in Allocator /\ Consistent(m.alloc) /\ m.alloc.revision \in Nat
  BY ServiceFields, AllocatorFields DEF GoodService
<1>2. Loads(Snapshot(m.alloc)) /\ Snapshot(m.alloc) \in SUBSET Lease
  BY <1>1, SnapshotLoads, SnapshotMembers DEF Loads
<1> QED
  BY <1>1, <1>2, ServiceFields DEF StateOf, SecretOf, StateFile, SecretFile

(* A save, or a save that failed, leaves a loadable room.json. *)
LEMMA SavedGood ==
  ASSUME DiskInv, NEW m, GoodService(m), disk' = Saved(m) \/ disk' = disk
  PROVE  DiskInv'
<1>1. CASE disk' = disk
  BY <1>1 DEF DiskInv
<1>2. CASE disk' = Saved(m) /\ m.fixedRoom
  BY <1>2, FilesGood DEF DiskInv, Saved
<1>3. CASE disk' = Saved(m) /\ ~m.fixedRoom
  BY <1>3 DEF DiskInv, Saved
<1> QED
  BY <1>1, <1>2, <1>3

(* Writing room.secret alone, as RotateKey, Start and a crash between the  *)
(* two writes do, leaves room.json loadable.                               *)
LEMMA SecretGood ==
  ASSUME DiskInv, NEW m, GoodService(m), disk' = [disk EXCEPT !.secret = SecretOf(m)]
  PROVE  DiskInv'
<1>1. disk'.state = disk.state /\ disk' \in [state : StateFile, secret : SecretFile]
  BY FilesGood DEF DiskInv
<1> QED
  BY <1>1 DEF DiskInv

(* Counting the failed calls of a step keeps the type of the counters. *)
LEMMA FaultsTyped ==
  ASSUME UsedInv, NEW calls, Faults(calls), IsFiniteSet(DOMAIN calls)
  PROVE  UsedInv'
<1> DEFINE failed == {i \in DOMAIN calls : ~calls[i]}
<1>1. Cardinality(failed) \in Nat
  <2>1. failed \subseteq DOMAIN calls
    OBVIOUS
  <2>2. IsFiniteSet(failed)
    BY <2>1, FS_Subset
  <2> QED
    BY <2>2, FS_CardinalityType
<1>2. used' = [used EXCEPT !.faults = @ + Cardinality(failed)]
  BY DEF Faults
<1> HIDE DEF failed
<1> QED
  BY <1>1, <1>2 DEF UsedInv

(* The steps make one or two calls that can fail. *)
LEMMA FewCalls ==
  ASSUME NEW a, NEW b
  PROVE  IsFiniteSet(DOMAIN <<a>>) /\ IsFiniteSet(DOMAIN <<a, b>>)
<1>1. DOMAIN <<a>> = 1..1 /\ DOMAIN <<a, b>> = 1..2
  OBVIOUS
<1>2. \A i, j \in Int : IsFiniteSet(i..j)
  BY FS_Interval
<1>3. 1 \in Int /\ 2 \in Int
  OBVIOUS
<1>4. IsFiniteSet(1..1) /\ IsFiniteSet(1..2)
  BY <1>2, <1>3, Zenon
<1> QED
  BY <1>1, <1>4

(* A save whose error is ignored keeps the files well formed. *)
LEMMA SaveIgnoredGood ==
  ASSUME DiskInv, UsedInv, NEW m, GoodService(m), NEW ok, SaveIgnored(m, ok), IsFiniteSet(DOMAIN ok)
  PROVE  DiskInv' /\ UsedInv'
<1>1. Faults(ok) /\ (disk' = Saved(m) \/ disk' = disk)
  BY DEF SaveIgnored
<1> QED
  BY <1>1, SavedGood, FaultsTyped

(* A closed connection is a connection record. *)
LEMMA ClosedConnTyped == ClosedConn \in ConnRecords /\ ClosedConn.pc = "closed"
BY OctetAssumption, RoomKeyAssumption DEF ClosedConn, ConnRecords, PSKs, Octets

(* Closing a connection keeps the connections well formed. *)
LEMMA CloseGood ==
  ASSUME ConnInv, NEW c \in Conns, Close(c)
  PROVE  ConnInv'
BY ClosedConnTyped DEF ConnInv, Close

(* The fields of a connection have their types. *)
LEMMA ConnFields ==
  ASSUME ConnInv, NEW c \in Conns
  PROVE  /\ conns[c] \in ConnRecords
         /\ conns[c].key \in Keys \cup {NoLease} /\ conns[c].roomKey \in PSKs
         /\ conns[c].existingAuth \in BOOLEAN /\ conns[c].token \in Nat /\ conns[c].created \in BOOLEAN
         /\ conns[c].revision \in Nat /\ conns[c].octet \in Octets
         /\ conns[c].pc \notin {"closed", "open"} => conns[c].key \in Keys
BY DEF ConnInv, ConnRecords

-----------------------------------------------------------------------------
(* A pairing attempt, also one that is rolled back at once, keeps the      *)
(* invariant.                                                              *)
LEMMA AssignLeaseTyped ==
  ASSUME TInv, NEW c \in Conns, NEW name \in Names, NEW applyOK \in BOOLEAN, NEW saveOK \in BOOLEAN,
         AssignLease(c, name, applyOK, saveOK)
  PROVE  TInv'
<1> DEFINE k == conns[c].key
           existing == conns[c].existingAuth
           m == Assigned(svc, k, name, conns[c].roomKey, existing)
           item == m.alloc.byKey[k]
           applied == IF existing THEN wg ELSE SetPeer(wg, k, item, m.psks[k])
           created == ~HasLease(svc.alloc, k)
<1>0. /\ conns[c].pc = "vetted" /\ MayAssign(svc, k, existing) /\ Faults(<<applyOK, saveOK>>)
      /\ IF applyOK /\ saveOK
          THEN /\ svc' = m /\ wg' = applied /\ disk' = Saved(m)
               /\ conns' = [conns EXCEPT ![c].pc = "leased", ![c].token = m.pairAttempt, ![c].created = created,
                                         ![c].revision = item.revision, ![c].octet = item.octet]
               /\ hist' = [hist EXCEPT !.unsaved = @ /\ ~svc.fixedRoom]
          ELSE /\ svc' = RolledBack(m, k, m.pending[k])
               /\ wg' = RolledBackPeers(IF applyOK THEN applied ELSE wg, k, m.pending[k])
               /\ Close(c)
               /\ hist' = [hist EXCEPT !.wgFailed = @ \/ ~applyOK]
               /\ UNCHANGED disk
      /\ UNCHANGED <<devices, clock>>
  BY DEF AssignLease
<1>1. k \in Keys /\ conns[c].roomKey \in PSKs /\ existing \in BOOLEAN
  BY <1>0, ConnFields DEF TInv
<1>2. GoodService(svc) /\ svc \in Service /\ CanAssign(svc.alloc, k)
  BY <1>0 DEF TInv, GoodService, MayAssign
<1>3. GoodService(m) /\ m.pending[k] \in Pending /\ m.alloc = Assign(svc.alloc, k, name)
  BY <1>1, <1>2, AssignedGood
<1>4. item \in Lease /\ m.psks[k] \in PSKs /\ m.pairAttempt \in Nat
  <2>1. svc.alloc \in Allocator /\ Consistent(svc.alloc) /\ m \in Service
    BY <1>2, <1>3, ServiceFields DEF GoodService
  <2> QED
    BY <1>1, <1>2, <1>3, <2>1, AssignGood, ServiceFields
<1>5. created \in BOOLEAN /\ item.revision \in Nat /\ item.octet \in Octets
  BY <1>4 DEF Lease
<1> HIDE DEF m, created
<1>6. applied \in WireGuard
  BY <1>1, <1>4, PeersTyped DEF TInv
<1>7. UsedInv'
  BY <1>0, FewCalls, FaultsTyped DEF TInv
<1>8. CASE applyOK /\ saveOK
  <2>1. DiskInv'
    BY <1>0, <1>3, <1>8, SavedGood DEF TInv
  <2>2. ConnInv'
    <3>1. conns' = [conns EXCEPT ![c] = [conns[c] EXCEPT !.pc = "leased", !.token = m.pairAttempt,
                       !.created = created, !.revision = item.revision, !.octet = item.octet]]
      BY <1>0, <1>8
    <3>2. [conns[c] EXCEPT !.pc = "leased", !.token = m.pairAttempt, !.created = created,
                            !.revision = item.revision, !.octet = item.octet] \in ConnRecords
      BY <1>4, <1>5, ConnFields DEF ConnRecords, TInv
    <3> QED
      BY <3>1, <3>2, <1>1, ConnFields DEF ConnInv, TInv
  <2>3. hist' \in Histories
    BY <1>0, <1>8 DEF TInv, Histories
  <2> QED
    BY <1>0, <1>3, <1>6, <1>7, <1>8, <2>1, <2>2, <2>3 DEF TInv, DevicesInv
<1>9. CASE ~(applyOK /\ saveOK)
  <2>1. GoodService(svc')
    <3>1. svc' = RolledBack(m, k, m.pending[k])
      BY <1>0, <1>9
    <3> QED
      BY <1>1, <1>3, <3>1, RolledBackGood
  <2>2. wg' \in WireGuard
    BY <1>0, <1>1, <1>3, <1>6, <1>9, RolledBackPeersTyped DEF TInv
  <2>3. ConnInv' /\ DiskInv'
    BY <1>0, <1>9, CloseGood DEF TInv, DiskInv
  <2>4. hist' \in Histories
    BY <1>0, <1>9 DEF TInv, Histories
  <2> QED
    BY <1>0, <1>7, <1>9, <2>1, <2>2, <2>3, <2>4 DEF TInv, DevicesInv
<1> QED
  BY <1>8, <1>9

(* The rollback of an unacknowledged attempt keeps the invariant. *)
LEMMA PairRolledBackTyped ==
  ASSUME TInv, NEW c \in Conns, NEW saveOK \in BOOLEAN, PairRolledBack(c, saveOK)
  PROVE  TInv'
<1> DEFINE k == conns[c].key
           p == svc.pending[k]
           m == RolledBack(svc, k, p)
<1>0. /\ conns[c].pc = "leased" /\ svc' = m /\ wg' = RolledBackPeers(wg, k, p)
      /\ SaveIgnored(m, <<saveOK>>) /\ Close(c) /\ UNCHANGED <<devices, clock>>
      /\ hist' = [hist EXCEPT !.unsaved = svc.fixedRoom /\ ~saveOK]
  BY DEF PairRolledBack
<1>1. k \in Keys /\ GoodService(svc) /\ svc \in Service
  BY <1>0, ConnFields DEF TInv, GoodService
<1>2. p \in Pending
  BY <1>1, ServiceFields
<1>3. GoodService(m) /\ RolledBackPeers(wg, k, p) \in WireGuard
  BY <1>1, <1>2, RolledBackGood, RolledBackPeersTyped DEF TInv
<1> HIDE DEF m
<1>4. DiskInv' /\ UsedInv'
  BY <1>0, <1>3, FewCalls, SaveIgnoredGood DEF TInv
<1>5. ConnInv' /\ hist' \in Histories
  BY <1>0, CloseGood DEF TInv, Histories
<1> QED
  BY <1>0, <1>3, <1>4, <1>5 DEF TInv, DevicesInv

(* Leaving a new lease to its timer keeps the invariant. *)
LEMMA PairLeftToTimerTyped ==
  ASSUME TInv, NEW c \in Conns, PairLeftToTimer(c)
  PROVE  TInv'
<1> DEFINE k == conns[c].key
           token == svc.pending[k].token
           pending == [svc.pending EXCEPT ![k] = NoPending]
           timers == [svc.timers EXCEPT ![k] = token]
           t == [key |-> k, revision |-> conns[c].revision, token |-> token, expired |-> FALSE]
<1>0. /\ conns[c].pc = "leased" /\ Close(c)
      /\ svc' = [svc EXCEPT !.pending[k] = NoPending, !.timers[k] = token]
      /\ clock' = StopTimer(clock, svc.timers[k]) \cup {t}
      /\ UNCHANGED <<wg, disk, devices, used, hist>>
  BY DEF PairLeftToTimer
<1>1. k \in Keys /\ svc \in Service /\ Consistent(svc.alloc) /\ conns[c].revision \in Nat
  BY <1>0, ConnFields DEF TInv, GoodService
<1>2. token \in Nat
  BY <1>1, ServiceFields DEF Pending
<1>3. pending \in [Keys -> Pending] /\ timers \in [Keys -> Nat] /\ t \in Timers
  BY <1>1, <1>2, NoPendingTyped, ServiceFields DEF Timers
<1>4. svc' = [svc EXCEPT !.pending = pending, !.timers = timers]
  BY <1>0, <1>1 DEF Service
<1> HIDE DEF pending, timers, t
<1>5. svc' \in Service /\ svc'.alloc = svc.alloc
  BY <1>1, <1>3, <1>4 DEF Service
<1>6. clock' \in SUBSET Timers
  BY <1>0, <1>3 DEF StopTimer, TInv
<1>7. ConnInv'
  BY <1>0, CloseGood DEF TInv
<1> QED
  BY <1>0, <1>1, <1>5, <1>6, <1>7 DEF TInv, GoodService, DiskInv, DevicesInv, UsedInv

(* A PairAck keeps the invariant. *)
LEMMA PairAckTyped ==
  ASSUME TInv, NEW c \in Conns, PairAck(c)
  PROVE  TInv'
<1> DEFINE k == conns[c].key
<1>0. /\ conns[c].pc = "leased" /\ conns' = [conns EXCEPT ![c].pc = "control"]
      /\ UNCHANGED <<wg, disk, devices, used>>
  BY DEF PairAck
<1>1. k \in Keys /\ GoodService(svc)
  BY <1>0, ConnFields DEF TInv
<1>2. ConnInv'
  BY <1>0, <1>1 DEF TInv, ConnInv, ConnRecords
<1>3. CASE svc' = Acknowledged(svc, k) /\ clock' = StopTimer(clock, svc.timers[k])
           /\ hist' = [hist EXCEPT !.acked = @ \cup {k}]
  <2>1. GoodService(svc')
    BY <1>1, <1>3, AcknowledgedGood
  <2>2. clock' \in SUBSET Timers
    BY <1>3 DEF StopTimer, TInv
  <2>3. hist' \in Histories
    BY <1>1, <1>3 DEF TInv, Histories
  <2> QED
    BY <1>0, <1>2, <2>1, <2>2, <2>3 DEF TInv, DiskInv, DevicesInv, UsedInv
<1>4. CASE UNCHANGED <<svc, clock, hist>>
  BY <1>0, <1>2, <1>4 DEF TInv, DiskInv, DevicesInv, UsedInv
<1> QED
  BY <1>3, <1>4 DEF PairAck

(* The steps of a connection that leave the service alone. *)
LEMMA PlainConnTyped ==
  ASSUME TInv, NEW c \in Conns,
         \/ Connect(c) \/ RequestFails(c) \/ AssignRefused(c) \/ PairSuperseded(c)
         \/ ReportKnown(c) \/ \E k \in Keys, existingAuth \in BOOLEAN : Request(c, k, existingAuth)
  PROVE  TInv'
<1>1. UNCHANGED <<svc, wg, disk, devices, clock, used, hist>>
  BY DEF Connect, RequestFails, AssignRefused, PairSuperseded, ReportKnown, Request
<1>2. ConnInv'
  <2>1. CASE Connect(c)
    <3>1. [ClosedConn EXCEPT !.pc = "open", !.roomKey = svc.roomKey] \in ConnRecords
      BY ClosedConnTyped, ServiceFields DEF ConnRecords, TInv, GoodService
    <3>2. [ClosedConn EXCEPT !.pc = "open", !.roomKey = svc.roomKey].pc = "open"
      BY DEF ClosedConn
    <3> QED
      BY <2>1, <3>1, <3>2 DEF Connect, ConnInv, TInv
  <2>2. CASE RequestFails(c) \/ AssignRefused(c) \/ PairSuperseded(c)
    BY <2>2, CloseGood DEF RequestFails, AssignRefused, PairSuperseded, TInv
  <2>3. CASE ReportKnown(c)
    BY <2>3 DEF ReportKnown, ConnInv, ConnRecords, TInv
  <2>4. ASSUME NEW k \in Keys, NEW existingAuth \in BOOLEAN, Request(c, k, existingAuth) PROVE ConnInv'
    <3> DEFINE r == [conns[c] EXCEPT !.pc = "vetted", !.key = k, !.existingAuth = existingAuth]
    <3>1. conns' = [conns EXCEPT ![c] = r]
      BY <2>4 DEF Request
    <3>2. r \in ConnRecords /\ r.key = k
      BY ConnFields DEF ConnRecords, TInv
    <3> HIDE DEF r
    <3> QED
      BY <3>1, <3>2 DEF ConnInv, TInv
  <2> QED
    BY <2>1, <2>2, <2>3, <2>4
<1> QED
  BY <1>1, <1>2 DEF TInv, DiskInv, DevicesInv, UsedInv

(* Serving a statistics report, and the end of the control loop, keep the  *)
(* invariant.                                                              *)
LEMMA ReportTyped ==
  ASSUME TInv, NEW c \in Conns, ReportListed(c) \/ ReportStats(c) \/ ControlEnds(c)
  PROVE  TInv'
<1>1. CASE ReportListed(c)
  <2>1. conns[c].key \in Keys /\ conns[c].octet \in Octets
    BY <1>1, ConnFields DEF ReportListed, TInv
  <2>2. ConnInv'
    BY <1>1 DEF ReportListed, ConnInv, ConnRecords, TInv
  <2>3. DevicesInv'
    BY <1>1, <2>1 DEF ReportListed, DevicesInv, TInv
  <2> QED
    BY <1>1, <2>2, <2>3 DEF ReportListed, TInv, DiskInv, UsedInv
<1>2. CASE ReportStats(c)
  <2>1. conns[c].key \in Keys
    BY <1>2, ConnFields DEF ReportStats, TInv
  <2>2. ConnInv'
    BY <1>2 DEF ReportStats, ConnInv, ConnRecords, TInv
  <2>3. GoodService(svc')
    BY <1>2, <2>1 DEF ReportStats, TInv, GoodService, Service
  <2> QED
    BY <1>2, <2>2, <2>3 DEF ReportStats, TInv, DiskInv, UsedInv, DevicesInv
<1>3. CASE ControlEnds(c)
  <2>1. ConnInv'
    BY <1>3, CloseGood DEF ControlEnds, TInv
  <2>2. DevicesInv'
    <3>1. NotListed \in [conn : Conns \cup {NoLease}, octet : Octets]
      BY OctetAssumption DEF NotListed, Octets
    <3> QED
      BY <1>3, <3>1 DEF ControlEnds, Unlist, DevicesInv, TInv
  <2> QED
    BY <1>3, <2>1, <2>2 DEF ControlEnds, TInv, DiskInv, UsedInv
<1> QED
  BY <1>1, <1>2, <1>3

(* A timer that expires or runs keeps the invariant. *)
LEMMA TimerTyped ==
  ASSUME TInv, NEW t \in clock, NEW removeOK \in BOOLEAN, NEW saveOK \in BOOLEAN,
         TimerExpires(t) \/ TimerRuns(t, removeOK, saveOK)
  PROVE  TInv'
<1>0. t \in Timers /\ GoodService(svc)
  BY DEF TInv
<1>1. CASE TimerExpires(t)
  <2>1. [t EXCEPT !.expired = TRUE] \in Timers
    BY <1>0 DEF Timers
  <2>2. clock' \in SUBSET Timers
    BY <1>1, <2>1 DEF TimerExpires, TInv
  <2> QED
    BY <1>1, <2>2 DEF TimerExpires, TInv, DiskInv, UsedInv, DevicesInv, ConnInv
<1>2. CASE TimerRuns(t, removeOK, saveOK)
  <2> DEFINE k == t.key
             m == Reclaimed(svc, k)
  <2>1. k \in Keys /\ GoodService(m)
    BY <1>0, ReclaimedGood DEF Timers
  <2>2. clock' \in SUBSET Timers /\ UNCHANGED <<conns, devices>>
    BY <1>2 DEF TimerRuns, TInv
  <2>3. CASE Reclaims(svc, t)
    <3>1. /\ svc' = m /\ wg' = IF removeOK THEN RemovePeer(wg, k) ELSE wg
          /\ SaveIgnored(m, <<removeOK, saveOK>>)
          /\ hist' = [hist EXCEPT !.raced = @ \/ svc.pending[k] # NoPending,
                                  !.wgFailed = @ \/ ~removeOK,
                                  !.unsaved = IF svc.fixedRoom THEN ~saveOK ELSE @]
      BY <1>2, <2>3 DEF TimerRuns
    <3> HIDE DEF m
    <3>2. DiskInv' /\ UsedInv'
      BY <2>1, <3>1, FewCalls, SaveIgnoredGood DEF TInv
    <3>3. wg' \in WireGuard
      BY <2>1, <3>1, RemovePeerTyped DEF TInv
    <3>4. hist' \in Histories
      BY <3>1 DEF TInv, Histories
    <3> QED
      BY <2>1, <2>2, <3>1, <3>2, <3>3, <3>4 DEF TInv, DevicesInv, ConnInv
  <2>4. CASE ~Reclaims(svc, t)
    <3>1. svc' = [svc EXCEPT !.timers[k] = 0] /\ UNCHANGED <<wg, disk, used, hist>>
      BY <1>2, <2>4 DEF TimerRuns
    <3>2. GoodService(svc')
      BY <1>0, <2>1, <3>1 DEF GoodService, Service
    <3> QED
      BY <2>2, <3>1, <3>2 DEF TInv, DevicesInv, ConnInv, DiskInv, UsedInv
  <2> QED
    BY <2>3, <2>4
<1> QED
  BY <1>1, <1>2

(* A saved or undone change of the host keeps the invariant. *)
LEMMA SaveChangeTyped ==
  ASSUME TInv, NEW m, GoodService(m), NEW undone, GoodService(undone), NEW saveOK \in BOOLEAN,
         SaveChange(m, undone, saveOK)
  PROVE  TInv'
<1>1. UsedInv'
  BY FewCalls, FaultsTyped DEF SaveChange, TInv
<1>2. DiskInv' /\ GoodService(svc')
  BY SavedGood DEF SaveChange, TInv
<1>3. hist' \in Histories
  BY DEF SaveChange, TInv, Histories
<1> QED
  BY <1>1, <1>2, <1>3 DEF SaveChange, TInv, ConnInv, DevicesInv

(* The commands of the host keep the invariant. *)
LEMMA HostTyped ==
  ASSUME TInv, HostStep
  PROVE  TInv'
<1>0. GoodService(svc) /\ svc \in Service
  BY DEF TInv, GoodService
<1>1. ASSUME NEW enabled \in BOOLEAN, NEW saveOK \in BOOLEAN, SetJoinEnabled(enabled, saveOK) PROVE TInv'
  <2>1. GoodService([svc EXCEPT !.joinEnabled = enabled])
    BY <1>0 DEF GoodService, Service
  <2> QED
    BY <1>0, <1>1, <2>1, SaveChangeTyped DEF SetJoinEnabled
<1>2. ASSUME NEW u \in UIDs, NEW saveOK \in BOOLEAN, UnblockUID(u, saveOK) PROVE TInv'
  <2>1. GoodService([svc EXCEPT !.blocked = @ \ {u}])
    BY <1>0 DEF GoodService, Service
  <2> QED
    BY <1>0, <1>2, <2>1, SaveChangeTyped DEF UnblockUID
<1>3. ASSUME NEW k \in Keys, NEW name \in Names, NEW saveOK \in BOOLEAN, RenameMember(k, name, saveOK) PROVE TInv'
  <2>1. Assign(svc.alloc, k, name) \in Allocator /\ Consistent(Assign(svc.alloc, k, name))
    BY <1>0, <1>3, ServiceFields, AssignGood DEF RenameMember, CanAssign, GoodService
  <2>2. GoodService([svc EXCEPT !.alloc = Assign(@, k, name)])
    BY <1>0, <2>1 DEF GoodService, Service
  <2> QED
    BY <1>0, <1>3, <2>2, RenameUndoneGood, SaveChangeTyped DEF RenameMember
<1>4. ASSUME NEW saveOK \in BOOLEAN, RotateKey(saveOK) PROVE TInv'
  <2> DEFINE m == [svc EXCEPT !.roomKey = used.keys + 1]
  <2>1. used.keys + 1 \in PSKs /\ used.keys \in Nat /\ used.faults \in Nat
    BY <1>4, RoomKeyAssumption DEF RotateKey, TInv, UsedInv, PSKs
  <2>2. GoodService(m)
    BY <1>0, <2>1 DEF GoodService, Service
  <2>3. /\ used' = [used EXCEPT !.keys = @ + 1, !.faults = IF saveOK THEN @ ELSE @ + 1]
        /\ svc' = IF saveOK THEN m ELSE svc
        /\ disk' = IF saveOK /\ svc.fixedRoom THEN [disk EXCEPT !.secret = SecretOf(m)] ELSE disk
        /\ UNCHANGED <<wg, conns, devices, clock, hist>>
    BY <1>4 DEF RotateKey
  <2> HIDE DEF m
  <2>4. UsedInv'
    <3> DEFINE faults == IF saveOK THEN used.faults ELSE used.faults + 1
    <3>1. used.faults + 1 \in Nat /\ used.keys + 1 \in Nat
      BY <2>1
    <3>2. faults \in Nat
      BY <2>1, <3>1, Zenon
    <3>3. used' = [used EXCEPT !.keys = used.keys + 1, !.faults = faults]
      BY <2>3 DEF TInv, UsedInv
    <3> HIDE DEF faults
    <3> QED
      BY <3>1, <3>2, <3>3 DEF TInv, UsedInv
  <2>5. DiskInv'
    <3>1. CASE disk' = [disk EXCEPT !.secret = SecretOf(m)]
      BY <2>2, <3>1, SecretGood DEF TInv
    <3>2. CASE disk' = disk
      BY <3>2 DEF TInv, DiskInv
    <3> QED
      BY <2>3, <3>1, <3>2
  <2> QED
    BY <1>0, <2>2, <2>3, <2>4, <2>5 DEF TInv, ConnInv, DevicesInv
<1>5. ASSUME NEW k \in Keys, NEW block \in BOOLEAN, NEW removeOK \in BOOLEAN, NEW saveOK \in BOOLEAN,
             RemoveMember(k, block, removeOK, saveOK)
      PROVE  TInv'
  <2> DEFINE m == Removed(svc, k, block)
             item == svc.alloc.byKey[k]
  <2>1. GoodService(m) /\ GoodService(RemoveUndone(svc, k)) /\ item \in Lease /\ svc.psks[k] \in PSKs
    <3>1. GoodService(m)
      BY <1>0, RemovedGood
    <3>2. GoodService(RemoveUndone(svc, k))
      BY <1>0, AcknowledgedGood
    <3>3. HasLease(svc.alloc, k)
      BY <1>5 DEF RemoveMember
    <3> QED
      BY <1>0, <3>1, <3>2, <3>3, ServiceFields, AllocatorFields
  <2>2. /\ Faults(<<removeOK, saveOK>>)
        /\ clock' = StopTimer(clock, svc.timers[k]) /\ UNCHANGED conns
        /\ IF removeOK /\ saveOK
             THEN /\ svc' = m /\ wg' = RemovePeer(wg, k) /\ disk' = Saved(m)
                  /\ devices' = [devices EXCEPT ![k] = NotListed]
                  /\ hist' = [hist EXCEPT !.acked = @ \ {k}, !.unsaved = @ /\ ~svc.fixedRoom]
             ELSE /\ svc' = RemoveUndone(svc, k)
                  /\ wg' = IF removeOK /\ svc.psks[k] # 0 THEN SetPeer(RemovePeer(wg, k), k, item, svc.psks[k]) ELSE wg
                  /\ hist' = [hist EXCEPT !.wgFailed = @ \/ ~removeOK]
                  /\ UNCHANGED <<disk, devices>>
    BY <1>5 DEF RemoveMember
  <2> HIDE DEF m, item
  <2>3. UsedInv' /\ clock' \in SUBSET Timers /\ ConnInv'
    BY <2>2, FewCalls, FaultsTyped DEF TInv, StopTimer, ConnInv
  <2>4. wg' \in WireGuard
    <3>1. RemovePeer(wg, k) \in WireGuard
      BY RemovePeerTyped DEF TInv
    <3>2. SetPeer(RemovePeer(wg, k), k, item, svc.psks[k]) \in WireGuard
      BY <2>1, <3>1, PeersTyped
    <3> QED
      BY <2>2, <3>1, <3>2 DEF TInv
  <2>5. DevicesInv'
    <3>1. NotListed \in [conn : Conns \cup {NoLease}, octet : Octets]
      BY OctetAssumption DEF NotListed, Octets
    <3> QED
      BY <2>2, <3>1 DEF TInv, DevicesInv
  <2>6. hist' \in Histories
    BY <2>2 DEF TInv, Histories
  <2>7. DiskInv' /\ GoodService(svc')
    BY <2>1, <2>2, SavedGood DEF TInv
  <2> QED
    BY <2>3, <2>4, <2>5, <2>6, <2>7 DEF TInv
<1>6. ASSUME NEW online \in SUBSET Keys, NEW idle \in SUBSET Keys, UpdateMemberStats(online, idle) PROVE TInv'
  <2>1. GoodService(svc')
    BY <1>0, <1>6, StatsGood DEF UpdateMemberStats
  <2> QED
    BY <1>6, <2>1 DEF UpdateMemberStats, TInv, ConnInv, DevicesInv, DiskInv, UsedInv
<1> QED
  BY <1>1, <1>2, <1>3, <1>4, <1>5, <1>6 DEF HostStep

(* The death of the process keeps the invariant if the files are well      *)
(* formed.                                                                 *)
LEMMA LostTyped ==
  ASSUME TInv, ProcessLost, DiskInv'
  PROVE  TInv'
<1>1. GoodService(FreshService)
  BY ClearedGood DEF FreshService
<1>2. [c \in Conns |-> ClosedConn] \in [Conns -> ConnRecords] /\ \A c \in Conns : [d \in Conns |-> ClosedConn][c].pc = "closed"
  BY ClosedConnTyped
<1>3. ConnInv'
  BY <1>2 DEF ProcessLost, ConnInv
<1>4. DevicesInv'
  <2>1. NotListed \in [conn : Conns \cup {NoLease}, octet : Octets]
    BY OctetAssumption DEF NotListed, Octets
  <2> QED
    BY <2>1 DEF ProcessLost, DevicesInv
<1>5. UsedInv'
  BY DEF ProcessLost, UsedInv, TInv
<1> QED
  BY <1>1, <1>3, <1>4, <1>5, NetworksTyped DEF ProcessLost, TInv

(* Create, Start, Stop and crashes keep the invariant. *)
LEMMA LifeTyped ==
  ASSUME TInv, LifeStep
  PROVE  TInv'
<1>0. GoodService(svc) /\ svc \in Service /\ GoodService(ClearedService(svc))
  BY ClearedGood, ServiceFields DEF TInv, GoodService, ClearedService
<1>1. ASSUME NEW fixed \in RoomModes, CreateRoom(fixed) PROVE TInv'
  <2> DEFINE m == CreatedRoom(svc, fixed, used.keys + 1)
  <2>1. used.keys + 1 \in PSKs /\ fixed \in BOOLEAN
    BY <1>1, RoomKeyAssumption, ModesAssumption DEF CreateRoom, TInv, UsedInv, PSKs
  <2>2. GoodService(m)
    BY <1>0, <2>1, CreatedGood
  <2>3. /\ svc' = m /\ wg' = NetworkUp /\ disk' = Saved(m)
        /\ used' = [used EXCEPT !.keys = @ + 1] /\ hist' = NoHistory
        /\ UNCHANGED <<conns, devices, clock>>
    BY <1>1 DEF CreateRoom
  <2> HIDE DEF m
  <2>4. DiskInv' /\ UsedInv' /\ hist' \in Histories
    BY <2>2, <2>3, SavedGood DEF TInv, UsedInv, NoHistory, Histories
  <2> QED
    BY <2>2, <2>3, <2>4, NetworksTyped DEF TInv, ConnInv, DevicesInv
<1> DEFINE r == RestoredRoom(svc, disk.state, disk.secret)
<1>2. GoodService(r)
  BY <1>0, RestoredGood DEF TInv, DiskInv
<1>3. CASE StartRoom
  <2>1. /\ svc' = r /\ wg' = [NetworkUp EXCEPT !.peers = PeersOf(r)]
        /\ disk' = [disk EXCEPT !.secret = SecretOf(r)]
        /\ hist' = [hist EXCEPT !.unsaved = FALSE, !.raced = FALSE, !.wgFailed = FALSE]
        /\ UNCHANGED <<conns, devices, clock, used>>
    BY <1>3 DEF StartRoom
  <2> HIDE DEF r
  <2>2. DiskInv' /\ hist' \in Histories
    BY <1>2, <2>1, SecretGood DEF TInv, Histories
  <2>3. wg' \in WireGuard
    BY <1>2, <2>1, NetworksTyped DEF GoodService
  <2> QED
    BY <1>2, <2>1, <2>2, <2>3 DEF TInv, ConnInv, DevicesInv, UsedInv
<1>4. ASSUME NEW secretSaved \in BOOLEAN, StartFails(secretSaved) PROVE TInv'
  <2>1. /\ Faults(<<FALSE>>) /\ svc' = ClearedService(svc)
        /\ disk' = [disk EXCEPT !.secret = SecretOf(r)] \/ disk' = disk
        /\ UNCHANGED <<wg, conns, devices, clock, hist>>
    BY <1>4 DEF StartFails
  <2> HIDE DEF r
  <2>2. DiskInv'
    <3>1. CASE disk' = [disk EXCEPT !.secret = SecretOf(r)]
      BY <1>2, <3>1, SecretGood DEF TInv
    <3>2. CASE disk' = disk
      BY <3>2 DEF TInv, DiskInv
    <3> QED
      BY <2>1, <3>1, <3>2
  <2>3. UsedInv'
    BY <2>1, FewCalls, FaultsTyped DEF TInv
  <2> QED
    BY <1>0, <2>1, <2>2, <2>3 DEF TInv, ConnInv, DevicesInv
<1>5. CASE StartRefused
  BY <1>0, <1>5 DEF StartRefused, TInv, ConnInv, DevicesInv, DiskInv, UsedInv
<1>6. CASE StopRoom
  <2>1. GoodService(svc')
    BY <1>0, <1>6, StoppedGood DEF StopRoom
  <2>2. UsedInv' /\ clock' \in SUBSET Timers
    BY <1>6 DEF StopRoom, TInv, UsedInv
  <2> QED
    BY <1>6, <2>1, <2>2 DEF StopRoom, TInv, ConnInv, DevicesInv, DiskInv
<1>7. CASE StopNetwork
  BY <1>7, NetworksTyped DEF StopNetwork, TInv, ConnInv, DevicesInv, DiskInv, UsedInv
<1>8. CASE Crash
  <2>1. DiskInv'
    BY <1>8 DEF Crash, TInv, DiskInv
  <2> QED
    BY <1>8, <2>1, LostTyped DEF Crash
<1>9. CASE CrashWhileSaving
  <2>1. ASSUME NEW m, GoodService(m), SecretOnly(m) PROVE TInv'
    <3>1. DiskInv' /\ ProcessLost
      BY <2>1, SecretGood DEF SecretOnly, TInv
    <3> QED
      BY <3>1, LostTyped
  <2>2. ASSUME NEW c \in Conns, NEW name \in Names, conns[c].pc = "vetted",
               MayAssign(svc, conns[c].key, conns[c].existingAuth)
        PROVE  GoodService(Assigned(svc, conns[c].key, name, conns[c].roomKey, conns[c].existingAuth))
    <3>1. conns[c].key \in Keys /\ conns[c].roomKey \in PSKs /\ conns[c].existingAuth \in BOOLEAN
      BY <2>2, ConnFields DEF TInv
    <3>2. CanAssign(svc.alloc, conns[c].key)
      BY <2>2 DEF MayAssign
    <3> QED
      BY <1>0, <3>1, <3>2, AssignedGood
  <2>3. ASSUME NEW c \in Conns, conns[c].pc = "leased"
        PROVE  GoodService(RolledBack(svc, conns[c].key, svc.pending[conns[c].key]))
    <3>1. conns[c].key \in Keys
      BY <2>3, ConnFields DEF TInv
    <3>2. svc.pending[conns[c].key] \in Pending
      BY <1>0, <3>1, ServiceFields
    <3> QED
      BY <1>0, <3>1, <3>2, RolledBackGood
  <2>4. ASSUME NEW t \in clock PROVE GoodService(Reclaimed(svc, t.key))
    <3>1. t.key \in Keys
      BY DEF TInv, Timers
    <3> QED
      BY <1>0, <3>1, ReclaimedGood
  <2>5. ASSUME NEW k \in Keys PROVE GoodService(Removed(svc, k, FALSE))
    BY <1>0, RemovedGood
  <2> QED
    BY <1>9, <2>1, <2>2, <2>3, <2>4, <2>5 DEF CrashWhileSaving
<1> QED
  BY <1>1, <1>3, <1>4, <1>5, <1>6, <1>7, <1>8, <1>9 DEF LifeStep

(* The invariant holds at first. *)
LEMMA InitTyped == Init => TInv
<1> SUFFICES ASSUME Init PROVE TInv
  OBVIOUS
<1>1. GoodService(svc)
  BY ClearedGood DEF Init, FreshService
<1>2. DiskInv
  <2>1. NoFile \in StateFile /\ NoSecret \in SecretFile /\ NoFile.members = {}
    BY RoomKeyAssumption DEF NoFile, NoSecret, StateFile, SecretFile, PSKs
  <2>2. Loads({})
    BY DEF Loads, AcceptsInitial
  <2> QED
    BY <2>1, <2>2 DEF Init, DiskInv
<1>3. ConnInv
  BY ClosedConnTyped DEF Init, ConnInv
<1>4. DevicesInv
  <2>1. NotListed \in [conn : Conns \cup {NoLease}, octet : Octets]
    BY OctetAssumption DEF NotListed, Octets
  <2> QED
    BY <2>1 DEF Init, DevicesInv
<1>5. UsedInv /\ hist \in Histories
  BY DEF Init, UsedInv, NoHistory, Histories
<1> QED
  BY <1>1, <1>2, <1>3, <1>4, <1>5, NetworksTyped DEF Init, TInv

(* Every step keeps the invariant. *)
LEMMA NextTyped == TInv /\ [Next]_vars => TInv'
<1> SUFFICES ASSUME TInv, [Next]_vars PROVE TInv'
  OBVIOUS
<1>1. ASSUME NEW c \in Conns, ConnStep(c) PROVE TInv'
  BY <1>1, PlainConnTyped, AssignLeaseTyped, PairRolledBackTyped, PairLeftToTimerTyped, PairAckTyped, ReportTyped
     DEF ConnStep
<1>2. CASE TimerStep
  BY <1>2, TimerTyped DEF TimerStep
<1>3. CASE UNCHANGED vars
  BY <1>3 DEF vars, TInv, ConnInv, DevicesInv, DiskInv, UsedInv
<1> QED
  BY <1>1, <1>2, <1>3, HostTyped, LifeTyped DEF Next

(* Type correctness: no sequence of pairings, reports, timers, host        *)
(* commands, failing calls, stops and crashes takes a variable of the room *)
(* out of its type.                                                        *)
THEOREM RoomTyped == Spec => []TypeOK
<1>1. TInv => TypeOK
  BY DEF TInv, TypeOK, GoodService, DiskInv, ConnInv, DevicesInv, UsedInv
<1> QED
  BY <1>1, InitTyped, NextTyped, PTL DEF Spec

-----------------------------------------------------------------------------
(* PendingOwned is kept by a step that ends attempts but begins none and   *)
(* in which a waiting connection either stays or was not the owner.        *)
LEMMA OwnedKept ==
  ASSUME PendingOwned, svc'.running => svc.running,
         \A k \in Keys : svc'.pending[k] \in {NoPending, svc.pending[k]},
         \A c \in Conns : conns[c].pc = "leased" /\ conns[c].key \in Keys =>
            \/ conns'[c] = conns[c]
            \/ svc'.pending[conns[c].key] = NoPending
            \/ svc.pending[conns[c].key].token # conns[c].token
  PROVE  PendingOwned'
BY DEF PendingOwned

(* A pairing connection keeps PendingOwned: assign makes the attempt its   *)
(* own, and whoever ends the wait ends the attempt.                        *)
LEMMA ConnOwned ==
  ASSUME TInv, PendingOwned, NEW c \in Conns, ConnStep(c)
  PROVE  PendingOwned'
<1>0. svc \in Service /\ GoodService(svc) /\ conns \in [Conns -> ConnRecords]
  BY DEF TInv, GoodService, ConnInv
<1>1. CASE \/ Connect(c) \/ RequestFails(c) \/ AssignRefused(c) \/ PairSuperseded(c) \/ ReportKnown(c)
           \/ ReportListed(c) \/ ControlEnds(c)
           \/ \E k \in Keys, existingAuth \in BOOLEAN : Request(c, k, existingAuth)
  <2>1. svc' = svc
    BY <1>1 DEF Connect, RequestFails, AssignRefused, PairSuperseded, ReportKnown, ReportListed, ControlEnds, Request
  <2>2. \A d \in Conns \ {c} : conns'[d] = conns[d]
    BY <1>0, <1>1 DEF Connect, RequestFails, AssignRefused, PairSuperseded, ReportKnown, ReportListed,
       ControlEnds, Request, Close
  <2>3. conns[c].pc = "leased" => svc.pending[conns[c].key].token # conns[c].token
    BY <1>1 DEF Connect, RequestFails, AssignRefused, PairSuperseded, ReportKnown, ReportListed, ControlEnds, Request
  <2> QED
    BY <2>1, <2>2, <2>3, OwnedKept
<1>2. CASE ReportStats(c)
  <2>1. svc'.running = svc.running /\ svc'.pending = svc.pending
    BY <1>0, <1>2 DEF ReportStats, Service
  <2>2. conns[c].pc # "leased" /\ \A d \in Conns \ {c} : conns'[d] = conns[d]
    BY <1>0, <1>2 DEF ReportStats
  <2> QED
    BY <2>1, <2>2, OwnedKept
<1>3. ASSUME NEW name \in Names, NEW applyOK \in BOOLEAN, NEW saveOK \in BOOLEAN,
             AssignLease(c, name, applyOK, saveOK)
      PROVE  PendingOwned'
  <2> DEFINE k == conns[c].key
             m == Assigned(svc, k, name, conns[c].roomKey, conns[c].existingAuth)
  <2>1. conns[c].pc = "vetted" /\ MayAssign(svc, k, conns[c].existingAuth)
    BY <1>3 DEF AssignLease
  <2>2. k \in Keys /\ conns[c].roomKey \in PSKs /\ conns[c].existingAuth \in BOOLEAN
    BY <2>1, ConnFields DEF TInv
  <2>3. CanAssign(svc.alloc, k) /\ svc.running
    BY <2>1 DEF MayAssign
  <2>4. GoodService(m) /\ m.pending[k] \in Pending
    BY <1>0, <2>2, <2>3, AssignedGood
  <2>5. m.running = svc.running /\ m.pending[k].token = m.pairAttempt
    <3>1. m.running = svc.running
      BY <1>0 DEF Assigned, Service
    <3>2. m.pending[k].token = m.pairAttempt
      BY <1>0, <2>2, <2>3, AssignedGood
    <3> QED
      BY <3>1, <3>2
  <2>6. \A l \in Keys \ {k} : m.pending[l] = svc.pending[l]
    BY <1>0, <2>2, <2>3, AssignedGood
  <2>7. CASE applyOK /\ saveOK
    <3>1. svc' = m
      BY <1>3, <2>7 DEF AssignLease
    <3>2. conns'[c].pc = "leased" /\ conns'[c].key = k /\ conns'[c].token = m.pairAttempt
      <4>1. conns' = [conns EXCEPT ![c] = [conns[c] EXCEPT !.pc = "leased", !.token = m.pairAttempt,
                        !.created = ~HasLease(svc.alloc, k),
                        !.revision = m.alloc.byKey[k].revision, !.octet = m.alloc.byKey[k].octet]]
        BY <1>3, <2>7 DEF AssignLease
      <4> HIDE DEF m
      <4> QED
        BY <1>0, <4>1 DEF ConnRecords
    <3>3. \A d \in Conns \ {c} : conns'[d] = conns[d]
      BY <1>0, <1>3, <2>7 DEF AssignLease
    <3> HIDE DEF m, k
    <3> QED
      BY <2>1, <2>3, <2>5, <2>6, <3>1, <3>2, <3>3, SMTT(30) DEF PendingOwned
  <2>8. CASE ~(applyOK /\ saveOK)
    <3>1. svc' = RolledBack(m, k, m.pending[k])
      BY <1>3, <2>8 DEF AssignLease
    <3>2. Close(c)
      BY <1>3, <2>8 DEF AssignLease
    <3> HIDE DEF m
    <3>3. svc'.pending = [m.pending EXCEPT ![k] = NoPending] /\ svc'.running = m.running
      BY <2>2, <2>4, <3>1, RolledBackGood, ZenonT(40)
    <3>4. m.pending \in [Keys -> Pending]
      BY <2>4, ServiceFields DEF GoodService
    <3>5. \A l \in Keys : svc'.pending[l] \in {NoPending, svc.pending[l]}
      BY <2>2, <2>6, <3>3, <3>4
    <3>6. \A d \in Conns \ {c} : conns'[d] = conns[d]
      BY <1>0, <3>2 DEF Close
    <3> QED
      BY <2>1, <2>5, <3>3, <3>5, <3>6, OwnedKept
  <2> QED
    BY <2>7, <2>8
<1>4. ASSUME NEW saveOK \in BOOLEAN, PairRolledBack(c, saveOK) PROVE PendingOwned'
  <2> DEFINE k == conns[c].key
  <2>1. conns[c].pc = "leased" /\ svc' = RolledBack(svc, k, svc.pending[k]) /\ Close(c)
    BY <1>4 DEF PairRolledBack
  <2>2. k \in Keys
    BY <2>1, ConnFields DEF TInv
  <2>3. svc.pending[k] \in Pending
    BY <1>0, <2>2, ServiceFields
  <2>4. svc'.pending = [svc.pending EXCEPT ![k] = NoPending] /\ svc'.running = svc.running
    BY <1>0, <2>1, <2>2, <2>3, RolledBackGood
  <2>5. svc'.pending[k] = NoPending
    BY <1>0, <2>2, <2>4, ServiceFields
  <2>6. \A d \in Conns \ {c} : conns'[d] = conns[d]
    BY <1>0, <2>1 DEF Close
  <2> QED
    BY <1>0, <2>2, <2>4, <2>5, <2>6, OwnedKept, PendingAfter
<1>5. CASE PairLeftToTimer(c)
  <2> DEFINE k == conns[c].key
  <2>1. /\ conns[c].pc = "leased" /\ Close(c)
        /\ svc' = [svc EXCEPT !.pending[k] = NoPending, !.timers[k] = svc.pending[k].token]
    BY <1>5 DEF PairLeftToTimer
  <2>2. k \in Keys
    BY <2>1, ConnFields DEF TInv
  <2>3. svc'.pending = [svc.pending EXCEPT ![k] = NoPending] /\ svc'.running = svc.running
    BY <1>0, <2>1, <2>2 DEF Service
  <2>4. svc'.pending[k] = NoPending
    BY <1>0, <2>2, <2>3, ServiceFields
  <2>5. \A d \in Conns \ {c} : conns'[d] = conns[d]
    BY <1>0, <2>1 DEF Close
  <2> QED
    BY <1>0, <2>2, <2>3, <2>4, <2>5, OwnedKept, PendingAfter
<1>6. CASE PairAck(c)
  <2> DEFINE k == conns[c].key
  <2>1. conns[c].pc = "leased" /\ \A d \in Conns \ {c} : conns'[d] = conns[d]
    BY <1>0, <1>6 DEF PairAck
  <2>2. k \in Keys
    BY <2>1, ConnFields DEF TInv
  <2>3. CASE svc.running /\ svc.pending[k].token = conns[c].token
    <3>1. svc' = Acknowledged(svc, k)
      BY <1>6, <2>3 DEF PairAck
    <3>2. svc'.pending = [svc.pending EXCEPT ![k] = NoPending] /\ svc'.running = svc.running
      BY <1>0, <2>2, <3>1, AcknowledgedGood
    <3>3. svc'.pending[k] = NoPending
      BY <1>0, <2>2, <3>2, ServiceFields
    <3> QED
      BY <1>0, <2>1, <2>2, <3>2, <3>3, OwnedKept, PendingAfter
  <2>4. CASE ~svc.running
    BY <1>6, <2>4 DEF PairAck, PendingOwned
  <2>5. CASE svc.pending[k].token # conns[c].token
    <3>1. svc' = svc
      BY <1>6, <2>5 DEF PairAck
    <3> QED
      BY <2>1, <2>2, <2>5, <3>1, OwnedKept
  <2> QED
    BY <2>3, <2>4, <2>5
<1> QED
  BY <1>1, <1>2, <1>3, <1>4, <1>5, <1>6 DEF ConnStep

(* Every step keeps PendingOwned. *)
LEMMA NextOwned == TInv /\ PendingOwned /\ [Next]_vars => PendingOwned'
<1> SUFFICES ASSUME TInv, PendingOwned, [Next]_vars PROVE PendingOwned'
  OBVIOUS
<1>0. svc \in Service /\ GoodService(svc)
  BY DEF TInv, GoodService
<1>1. CASE TimerStep
  <2>1. PICK t \in clock : TimerExpires(t) \/ \E removeOK, saveOK \in BOOLEAN : TimerRuns(t, removeOK, saveOK)
    BY <1>1 DEF TimerStep
  <2>2. t.key \in Keys
    BY DEF TInv, Timers
  <2>3. UNCHANGED conns
    BY <2>1 DEF TimerExpires, TimerRuns
  <2>4. svc' = svc \/ svc' = Reclaimed(svc, t.key) \/ svc' = [svc EXCEPT !.timers[t.key] = 0]
    BY <2>1 DEF TimerExpires, TimerRuns
  <2>5. Reclaimed(svc, t.key).running = svc.running /\ Reclaimed(svc, t.key).pending = svc.pending
    BY <1>0, <2>2, ReclaimedGood
  <2>6. [svc EXCEPT !.timers[t.key] = 0].running = svc.running /\ [svc EXCEPT !.timers[t.key] = 0].pending = svc.pending
    BY <1>0 DEF Service
  <2> QED
    BY <2>3, <2>4, <2>5, <2>6, OwnedKept
<1>2. CASE HostStep
  <2>1. UNCHANGED conns
    BY <1>2 DEF HostStep, SetJoinEnabled, UnblockUID, RenameMember, SaveChange, RotateKey, RemoveMember, UpdateMemberStats
  <2>2. svc'.running = svc.running /\ \A k \in Keys : svc'.pending[k] \in {NoPending, svc.pending[k]}
    <3>1. ASSUME NEW m, NEW undone, NEW saveOK \in BOOLEAN, SaveChange(m, undone, saveOK),
                 m.running = svc.running, m.pending = svc.pending,
                 undone.running = svc.running, undone.pending = svc.pending
          PROVE  svc'.running = svc.running /\ svc'.pending = svc.pending
      BY <3>1 DEF SaveChange
    <3>2. ASSUME NEW enabled \in BOOLEAN, NEW saveOK \in BOOLEAN, SetJoinEnabled(enabled, saveOK)
          PROVE  svc'.running = svc.running /\ svc'.pending = svc.pending
      <4>1. LET m == [svc EXCEPT !.joinEnabled = enabled]
            IN  m.running = svc.running /\ m.pending = svc.pending
        BY <1>0 DEF Service
      <4> QED
        BY <3>1, <3>2, <4>1 DEF SetJoinEnabled
    <3>3. ASSUME NEW u \in UIDs, NEW saveOK \in BOOLEAN, UnblockUID(u, saveOK)
          PROVE  svc'.running = svc.running /\ svc'.pending = svc.pending
      <4>1. LET m == [svc EXCEPT !.blocked = @ \ {u}]
            IN  m.running = svc.running /\ m.pending = svc.pending
        BY <1>0 DEF Service
      <4> QED
        BY <3>1, <3>3, <4>1 DEF UnblockUID
    <3>4. ASSUME NEW k \in Keys, NEW name \in Names, NEW saveOK \in BOOLEAN, RenameMember(k, name, saveOK)
          PROVE  svc'.running = svc.running /\ svc'.pending = svc.pending
      <4>1. LET m == [svc EXCEPT !.alloc = Assign(@, k, name)]
            IN  m.running = svc.running /\ m.pending = svc.pending
        BY <1>0 DEF Service
      <4>2. RenameUndone(svc).running = svc.running /\ RenameUndone(svc).pending = svc.pending
        BY <1>0 DEF RenameUndone, Service
      <4> QED
        BY <3>1, <3>4, <4>1, <4>2 DEF RenameMember
    <3>5. ASSUME NEW saveOK \in BOOLEAN, RotateKey(saveOK)
          PROVE  svc'.running = svc.running /\ svc'.pending = svc.pending
      BY <1>0, <3>5 DEF RotateKey, Service
    <3>6. ASSUME NEW k \in Keys, NEW block \in BOOLEAN, NEW removeOK \in BOOLEAN, NEW saveOK \in BOOLEAN,
                 RemoveMember(k, block, removeOK, saveOK)
          PROVE  svc'.running = svc.running /\ svc'.pending = [svc.pending EXCEPT ![k] = NoPending]
      <4>1. svc' = Removed(svc, k, block) \/ svc' = RemoveUndone(svc, k)
        BY <3>6 DEF RemoveMember
      <4>2. Removed(svc, k, block).running = svc.running /\ Removed(svc, k, block).pending = [svc.pending EXCEPT ![k] = NoPending]
        BY <1>0, RemovedGood
      <4>3. RemoveUndone(svc, k).running = svc.running /\ RemoveUndone(svc, k).pending = [svc.pending EXCEPT ![k] = NoPending]
        BY <1>0, AcknowledgedGood
      <4> QED
        BY <4>1, <4>2, <4>3
    <3>7. ASSUME NEW k \in Keys, svc'.pending = [svc.pending EXCEPT ![k] = NoPending]
          PROVE  \A l \in Keys : svc'.pending[l] \in {NoPending, svc.pending[l]}
      BY <1>0, <3>7, PendingAfter
    <3>8. ASSUME NEW online \in SUBSET Keys, NEW idle \in SUBSET Keys, UpdateMemberStats(online, idle)
          PROVE  svc'.running = svc.running /\ svc'.pending = svc.pending
      BY <1>0, <3>8 DEF UpdateMemberStats, StatsApplied, Service
    <3>9. \/ svc'.running = svc.running /\ svc'.pending = svc.pending
          \/ \E k \in Keys : svc'.running = svc.running /\ svc'.pending = [svc.pending EXCEPT ![k] = NoPending]
      BY <1>2, <3>2, <3>3, <3>4, <3>5, <3>6, <3>8 DEF HostStep
    <3> QED
      BY <3>7, <3>9
  <2> QED
    BY <2>1, <2>2, OwnedKept
<1>3. CASE LifeStep
  <2>1. ASSUME ~svc'.running \/ \A k \in Keys : svc'.pending[k] = NoPending PROVE PendingOwned'
    BY <2>1 DEF PendingOwned
  <2>2. \A n, timers : /\ Cleared(n, timers).running = FALSE
                       /\ \A k \in Keys : Cleared(n, timers).pending[k] = NoPending
    BY DEF Cleared
  <2>3. ASSUME NEW fixed \in RoomModes, CreateRoom(fixed) PROVE PendingOwned'
    <3>1. CreatedRoom(svc, fixed, used.keys + 1).pending = Cleared(svc.pairAttempt, svc.timers).pending
      BY DEF CreatedRoom, ClearedService, Cleared
    <3> QED
      BY <2>1, <2>2, <2>3, <3>1 DEF CreateRoom
  <2>4. CASE StartRoom
    <3>1. RestoredRoom(svc, disk.state, disk.secret).pending = Cleared(svc.pairAttempt, svc.timers).pending
      BY DEF RestoredRoom, ClearedService, Cleared
    <3> QED
      BY <2>1, <2>2, <2>4, <3>1 DEF StartRoom
  <2>5. CASE StartRefused \/ \E secretSaved \in BOOLEAN : StartFails(secretSaved)
    BY <2>1, <2>2, <2>5 DEF StartRefused, StartFails, ClearedService
  <2>6. CASE StopRoom
    BY <1>0, <2>1, <2>6, StoppedGood DEF StopRoom
  <2>7. CASE StopNetwork
    BY <2>7 DEF StopNetwork, PendingOwned
  <2>8. CASE ProcessLost
    BY <2>1, <2>2, <2>8 DEF ProcessLost, FreshService
  <2>9. Crash \/ CrashWhileSaving => ProcessLost
    BY DEF Crash, CrashWhileSaving, SecretOnly
  <2> QED
    BY <1>3, <2>3, <2>4, <2>5, <2>6, <2>7, <2>8, <2>9 DEF LifeStep
<1>4. CASE UNCHANGED vars
  BY <1>4 DEF vars, PendingOwned
<1> QED
  BY <1>1, <1>2, <1>3, <1>4, ConnOwned DEF Next

(* The allocator of the room never leases an address twice nor leaks one,  *)
(* room.json always holds leases that Start accepts, and a pending         *)
(* attempt, which makes assign refuse the device, is always that of a      *)
(* connection that still waits for the PairAck.                            *)
THEOREM RoomLeasesConsistent == Spec => []LeasesConsistent
<1>1. Init => PendingOwned
  <2>1. FreshService.running = FALSE
    BY DEF FreshService, Cleared
  <2> QED
    BY <2>1 DEF Init, PendingOwned
<1>2. TInv /\ PendingOwned => LeasesConsistent
  BY DEF TInv, LeasesConsistent, GoodService, DiskInv, Loads
<1> QED
  BY <1>1, <1>2, InitTyped, NextTyped, NextOwned, PTL DEF Spec

-----------------------------------------------------------------------------
(* The states of a connection in the control loop. *)
Serving == {"control", "reporting", "listed"}

(* ListedIsConnected is kept by a step that lists nobody and in which the  *)
(* serving connections go on serving the same device.                      *)
LEMMA ListedKept ==
  ASSUME DevicesInv, ListedIsConnected,
         \A k \in Keys : devices'[k] = devices[k] \/ devices'[k] = NotListed,
         \A c \in Conns : conns[c].pc \in Serving => conns'[c].key = conns[c].key /\ conns'[c].pc \in Serving
  PROVE  ListedIsConnected'
<1>1. NotListed.conn = NoLease
  BY DEF NotListed
<1>2. \A k \in Keys : devices[k].conn \in Conns \cup {NoLease}
  BY DEF DevicesInv
<1> QED
  BY <1>1, <1>2 DEF ListedIsConnected, Serving

(* A connection keeps ListedIsConnected: it is only closed after it was    *)
(* unlisted.                                                               *)
LEMMA ConnListed ==
  ASSUME TInv, ListedIsConnected, NEW c \in Conns, ConnStep(c)
  PROVE  ListedIsConnected'
<1>0. /\ conns \in [Conns -> ConnRecords] /\ DevicesInv
      /\ devices \in [Keys -> [conn : Conns \cup {NoLease}, octet : Octets]]
  BY DEF TInv, ConnInv, DevicesInv
<1>1. CASE ReportListed(c)
  <2>1. conns[c].key \in Keys
    BY <1>1, ConnFields DEF ReportListed, TInv
  <2>2. conns'[c].key = conns[c].key /\ conns'[c].pc = "listed" /\ \A d \in Conns \ {c} : conns'[d] = conns[d]
    BY <1>0, <1>1 DEF ReportListed, ConnRecords
  <2>3. devices'[conns[c].key].conn = c /\ \A k \in Keys \ {conns[c].key} : devices'[k] = devices[k]
    BY <1>0, <1>1, <2>1 DEF ReportListed
  <2>4. \A k \in Keys : devices[k].conn \in Conns \cup {NoLease}
    BY <1>0
  <2>5. conns[c].pc = "reporting"
    BY <1>1 DEF ReportListed
  <2> SUFFICES ASSUME NEW k \in Keys, devices'[k].conn # NoLease
               PROVE  /\ conns'[devices'[k].conn].key = k
                      /\ conns'[devices'[k].conn].pc \in {"control", "reporting", "listed"}
    BY DEF ListedIsConnected
  <2>6. CASE k = conns[c].key
    BY <2>2, <2>3, <2>6
  <2>7. CASE k # conns[c].key
    BY <2>2, <2>3, <2>4, <2>7 DEF ListedIsConnected
  <2> QED
    BY <2>6, <2>7
<1>2. CASE ControlEnds(c)
  <2>1. \A d \in Conns \ {c} : conns'[d] = conns[d]
    BY <1>0, <1>2 DEF ControlEnds, Close
  <2>2. \A k \in Keys : devices'[k].conn # NoLease => devices'[k] = devices[k] /\ devices[k].conn # c
    BY <1>2 DEF ControlEnds, Unlist, NotListed
  <2>3. \A k \in Keys : devices[k].conn \in Conns \cup {NoLease}
    BY <1>0
  <2> QED
    BY <2>1, <2>2, <2>3 DEF ListedIsConnected
<1>3. CASE ReportKnown(c) \/ ReportStats(c) \/ PairAck(c)
  <2>1. devices' = devices /\ \A d \in Conns \ {c} : conns'[d] = conns[d]
    BY <1>0, <1>3 DEF ReportKnown, ReportStats, PairAck
  <2>2. conns'[c].key = conns[c].key /\ conns'[c].pc \in Serving
    BY <1>0, <1>3 DEF ReportKnown, ReportStats, PairAck, ConnRecords, Serving
  <2> QED
    BY <1>0, <2>1, <2>2, ListedKept
<1>4. CASE \/ Connect(c) \/ RequestFails(c) \/ AssignRefused(c) \/ PairSuperseded(c) \/ PairLeftToTimer(c)
           \/ \E k \in Keys, existingAuth \in BOOLEAN : Request(c, k, existingAuth)
           \/ \E saveOK \in BOOLEAN : PairRolledBack(c, saveOK)
           \/ \E name \in Names, applyOK, saveOK \in BOOLEAN : AssignLease(c, name, applyOK, saveOK)
  <2>1. conns[c].pc \in {"closed", "open", "vetted", "leased"} /\ devices' = devices
    <3>1. CASE Connect(c) \/ RequestFails(c) \/ AssignRefused(c) \/ PairSuperseded(c) \/ PairLeftToTimer(c)
      BY <3>1 DEF Connect, RequestFails, AssignRefused, PairSuperseded, PairLeftToTimer
    <3>2. CASE \E k \in Keys, existingAuth \in BOOLEAN : Request(c, k, existingAuth)
      BY <3>2 DEF Request
    <3>3. CASE \E saveOK \in BOOLEAN : PairRolledBack(c, saveOK)
      BY <3>3 DEF PairRolledBack
    <3>4. CASE \E name \in Names, applyOK, saveOK \in BOOLEAN : AssignLease(c, name, applyOK, saveOK)
      BY <3>4, ZenonT(40) DEF AssignLease
    <3> QED
      BY <1>4, <3>1, <3>2, <3>3, <3>4
  <2>2. \A d \in Conns \ {c} : conns'[d] = conns[d]
    <3> USE DEF Close
    <3>1. CASE Connect(c) \/ RequestFails(c) \/ AssignRefused(c) \/ PairSuperseded(c) \/ PairLeftToTimer(c)
      BY <1>0, <3>1 DEF Connect, RequestFails, AssignRefused, PairSuperseded, PairLeftToTimer
    <3>2. CASE \E k \in Keys, existingAuth \in BOOLEAN : Request(c, k, existingAuth)
      BY <1>0, <3>2 DEF Request
    <3>3. CASE \E saveOK \in BOOLEAN : PairRolledBack(c, saveOK)
      BY <1>0, <3>3 DEF PairRolledBack
    <3>4. CASE \E name \in Names, applyOK, saveOK \in BOOLEAN : AssignLease(c, name, applyOK, saveOK)
      BY <1>0, <3>4, ZenonT(40) DEF AssignLease
    <3> QED
      BY <1>4, <3>1, <3>2, <3>3, <3>4
  <2>3. \A d \in Conns : conns[d].pc \in Serving => conns'[d] = conns[d]
    BY <2>1, <2>2 DEF Serving
  <2> QED
    BY <1>0, <2>1, <2>3, ListedKept
<1> QED
  BY <1>1, <1>2, <1>3, <1>4 DEF ConnStep

(* Every step keeps ListedIsConnected. *)
LEMMA NextListed == TInv /\ ListedIsConnected /\ [Next]_vars => ListedIsConnected'
<1> SUFFICES ASSUME TInv, ListedIsConnected, [Next]_vars PROVE ListedIsConnected'
  OBVIOUS
<1>0. DevicesInv /\ devices \in [Keys -> [conn : Conns \cup {NoLease}, octet : Octets]]
  BY DEF TInv, DevicesInv
<1>1. CASE TimerStep \/ UNCHANGED vars
  <2>1. UNCHANGED <<conns, devices>>
    BY <1>1 DEF TimerStep, TimerExpires, TimerRuns, vars
  <2> QED
    BY <2>1 DEF ListedIsConnected
<1>2. CASE HostStep
  <2>1. UNCHANGED conns
    BY <1>2 DEF HostStep, SetJoinEnabled, UnblockUID, RenameMember, SaveChange, RotateKey, RemoveMember, UpdateMemberStats
  <2>2. devices' = devices \/ \E k \in Keys : devices' = [devices EXCEPT ![k] = NotListed]
    BY <1>2 DEF HostStep, SetJoinEnabled, UnblockUID, RenameMember, SaveChange, RotateKey, RemoveMember, UpdateMemberStats
  <2>3. \A k \in Keys : devices'[k] = devices[k] \/ devices'[k] = NotListed
    BY <1>0, <2>2
  <2> QED
    BY <1>0, <2>1, <2>3, ListedKept
<1>3. CASE ProcessLost
  BY <1>3 DEF ProcessLost, ListedIsConnected, NotListed
<1>4. CASE LifeStep /\ ~ProcessLost
  <2>1. UNCHANGED <<conns, devices>>
    BY <1>4 DEF LifeStep, CreateRoom, StartRoom, StartFails, StartRefused, StopRoom, StopNetwork, Crash,
       CrashWhileSaving, SecretOnly
  <2> QED
    BY <2>1 DEF ListedIsConnected
<1> QED
  BY <1>1, <1>2, <1>3, <1>4, ConnListed DEF Next

(* Server.devices never lists a device through a connection that is gone   *)
(* or belongs to another device.                                           *)
THEOREM RoomListedIsConnected == Spec => []ListedIsConnected
<1>1. Init => ListedIsConnected
  BY DEF Init, ListedIsConnected, NotListed
<1> QED
  BY <1>1, InitTyped, NextTyped, NextListed, PTL DEF Spec

-----------------------------------------------------------------------------
(* What the files of memory m would be. *)
Files(m) == [state |-> StateOf(m), secret |-> SecretOf(m)]

(* What the files hold depends on these fields only. *)
LEMMA SameFiles ==
  ASSUME NEW m, NEW n, Snapshot(n.alloc) = Snapshot(m.alloc), n.joinEnabled = m.joinEnabled,
         n.blocked = m.blocked, n.roomKey = m.roomKey, n.psks = m.psks
  PROVE  Files(n) = Files(m)
BY DEF Files, StateOf, SecretOf

(* DiskInSync after a step that changes neither the files nor what they    *)
(* should be, and after one that writes them.                              *)
LEMMA SyncKept ==
  ASSUME DiskInSync, disk' = disk, Files(svc') = Files(svc),
         svc'.running => svc.running, svc'.fixedRoom => svc.fixedRoom, hist.unsaved => hist'.unsaved
  PROVE  DiskInSync'
BY DEF DiskInSync, Files

(* DiskInSync after a step that writes the files. *)
LEMMA SyncWritten ==
  ASSUME NEW m, svc' = m, disk' = Saved(m)
  PROVE  DiskInSync'
BY DEF DiskInSync, Saved

(* A rolled-back attempt leaves no trace in the files. *)
LEMMA RollbackUndoes ==
  ASSUME NEW m, GoodService(m), NEW k \in Keys, NEW name \in Names, NEW roomKey \in PSKs,
         NEW existing \in BOOLEAN, CanAssign(m.alloc, k)
  PROVE  LET n == Assigned(m, k, name, roomKey, existing)
             r == RolledBack(n, k, n.pending[k])
         IN Files(r) = Files(m) /\ r.running = m.running /\ r.fixedRoom = m.fixedRoom
<1> DEFINE n == Assigned(m, k, name, roomKey, existing)
           p == n.pending[k]
           r == RolledBack(n, k, p)
           a == m.alloc
           item == a.byKey[k]
<1>1. m \in Service /\ a \in Allocator /\ Consistent(a) /\ m.psks \in [Keys -> PSKs]
  BY ServiceFields DEF GoodService
<1>2. GoodService(n) /\ p \in Pending /\ n.alloc = Assign(a, k, name)
  BY AssignedGood
<1>3. p.previous = item /\ p.previousPSK = m.psks[k] /\ \A l \in Keys \ {k} : n.psks[l] = m.psks[l]
  BY AssignedGood
<1>4. /\ n.joinEnabled = m.joinEnabled /\ n.blocked = m.blocked /\ n.roomKey = m.roomKey
      /\ n.running = m.running /\ n.fixedRoom = m.fixedRoom
  BY AssignedGood
<1>5. n.psks \in [Keys -> PSKs] /\ n.alloc \in Allocator /\ Consistent(n.alloc)
  BY <1>2, ServiceFields DEF GoodService
<1> HIDE DEF n, p
<1>6. GoodService(r) /\ r.psks = [n.psks EXCEPT ![k] = p.previousPSK]
  <2>1. GoodService(n) /\ p \in Pending
    BY <1>2
  <2>2. GoodService(r)
    BY <2>1, RolledBackGood
  <2>3. r.psks = [n.psks EXCEPT ![k] = p.previousPSK]
    BY <2>1, RolledBackGood, ZenonT(60)
  <2> QED
    BY <2>2, <2>3
<1>7. /\ r.joinEnabled = n.joinEnabled /\ r.blocked = n.blocked /\ r.roomKey = n.roomKey
      /\ r.running = n.running /\ r.fixedRoom = n.fixedRoom
  BY <1>2 DEF RolledBack, GoodService, Service
<1>8. /\ p.previous # NoLease => r.alloc = Restore(n.alloc, p.previous)
      /\ p.previous = NoLease => r.alloc = Remove(n.alloc, k)
  BY <1>2 DEF RolledBack, GoodService, Service
<1>9. r.psks = m.psks
  BY <1>1, <1>3, <1>5, <1>6
<1>10. \A l \in Keys : r.alloc.byKey[l] = a.byKey[l]
  <2>1. CASE HasLease(a, k)
    <3>1. item \in Lease /\ item # NoLease /\ item.publicKey = k /\ IsMemberAddress(item) /\ item.revision # 0
      BY <1>1, <2>1, AllocatorFields DEF HasLease, Consistent, LeaseShape
    <3>2. n.alloc = [a EXCEPT !.byKey[k].name = name]
      BY <1>2, <2>1 DEF Assign
    <3>3. HasLease(n.alloc, k) /\ n.alloc.byKey[k].octet = item.octet
      BY <1>1, <1>2, <2>1, AssignKnownConsistent
    <3>4. \A l \in Keys \ {k} : n.alloc.byKey[l] = a.byKey[l]
      BY <1>1, <3>2 DEF Allocator
    <3>5. CanRestore(n.alloc, item)
      BY <3>1, <3>3 DEF CanRestore
    <3>6. r.alloc = Restore(n.alloc, item)
      BY <1>3, <1>8, <3>1
    <3>7. /\ Restore(n.alloc, item).byKey[k] = item
          /\ \A l \in Keys \ {k} : Restore(n.alloc, item).byKey[l] = n.alloc.byKey[l]
      BY <1>5, <3>1, <3>5, RestoreConsistent
    <3> QED
      BY <3>4, <3>6, <3>7
  <2>2. CASE ~HasLease(a, k)
    <3>1. n.alloc = AssignNew(a, k, name) /\ FreeOctets(a) # {}
      BY <1>2, <2>2 DEF Assign, CanAssign
    <3>2. \A l \in Keys \ {k} : n.alloc.byKey[l] = a.byKey[l]
      BY <1>1, <2>2, <3>1, AssignNewConsistent
    <3>3. r.alloc = Remove(n.alloc, k)
      BY <1>3, <1>8, <2>2 DEF HasLease
    <3>4. ~HasLease(Remove(n.alloc, k), k) /\ \A l \in Keys \ {k} : Remove(n.alloc, k).byKey[l] = n.alloc.byKey[l]
      BY <1>5, RemoveConsistent
    <3> QED
      BY <2>2, <3>2, <3>3, <3>4 DEF HasLease
  <2> QED
    BY <2>1, <2>2
<1>11. r.alloc \in Allocator
  BY <1>6, ServiceFields DEF GoodService
<1>12. Snapshot(r.alloc) = Snapshot(m.alloc)
  BY <1>1, <1>10, <1>11, SameLeases
<1> HIDE DEF r
<1>13. Files(r) = Files(m)
  BY <1>4, <1>7, <1>9, <1>12, SameFiles
<1> QED
  BY <1>4, <1>7, <1>13 DEF n, r, p

(* A pairing connection keeps DiskInSync: a failed attempt leaves memory   *)
(* as the files have it.                                                   *)
LEMMA ConnSync ==
  ASSUME TInv, DiskInSync, NEW c \in Conns, ConnStep(c)
  PROVE  DiskInSync'
<1>0. svc \in Service /\ GoodService(svc) /\ hist \in Histories
  BY DEF TInv, GoodService
<1>1. CASE \/ Connect(c) \/ RequestFails(c) \/ AssignRefused(c) \/ PairSuperseded(c) \/ ReportKnown(c)
           \/ ReportListed(c) \/ ControlEnds(c)
           \/ \E k \in Keys, existingAuth \in BOOLEAN : Request(c, k, existingAuth)
  <2>1. UNCHANGED <<svc, disk, hist>>
    BY <1>1 DEF Connect, RequestFails, AssignRefused, PairSuperseded, ReportKnown, ReportListed, ControlEnds, Request
  <2> QED
    BY <2>1, SyncKept
<1>2. CASE ReportStats(c)
  <2>1. UNCHANGED <<disk, hist>> /\ svc' \in {svc, [svc EXCEPT !.uidKnown = @ \cup {conns[c].key}]}
    BY <1>2 DEF ReportStats
  <2>2. LET n == [svc EXCEPT !.uidKnown = @ \cup {conns[c].key}]
        IN  /\ n.alloc = svc.alloc /\ n.joinEnabled = svc.joinEnabled /\ n.blocked = svc.blocked
            /\ n.roomKey = svc.roomKey /\ n.psks = svc.psks
            /\ n.running = svc.running /\ n.fixedRoom = svc.fixedRoom
    BY <1>0 DEF Service
  <2>3. Files(svc') = Files(svc) /\ svc'.running = svc.running /\ svc'.fixedRoom = svc.fixedRoom
    BY <2>1, <2>2, SameFiles
  <2> QED
    BY <2>1, <2>3, SyncKept
<1>3. ASSUME NEW name \in Names, NEW applyOK \in BOOLEAN, NEW saveOK \in BOOLEAN,
             AssignLease(c, name, applyOK, saveOK)
      PROVE  DiskInSync'
  <2> DEFINE k == conns[c].key
             m == Assigned(svc, k, name, conns[c].roomKey, conns[c].existingAuth)
  <2>1. conns[c].pc = "vetted" /\ MayAssign(svc, k, conns[c].existingAuth)
    BY <1>3 DEF AssignLease
  <2>2. k \in Keys /\ conns[c].roomKey \in PSKs /\ conns[c].existingAuth \in BOOLEAN /\ CanAssign(svc.alloc, k)
    BY <2>1, ConnFields DEF TInv, MayAssign
  <2>3. CASE applyOK /\ saveOK
    BY <1>3, <2>3, SyncWritten DEF AssignLease
  <2>4. CASE ~(applyOK /\ saveOK)
    <3>1. svc' = RolledBack(m, k, m.pending[k]) /\ disk' = disk /\ hist' = [hist EXCEPT !.wgFailed = @ \/ ~applyOK]
      BY <1>3, <2>4 DEF AssignLease
    <3>2. Files(svc') = Files(svc) /\ svc'.running = svc.running /\ svc'.fixedRoom = svc.fixedRoom
      <4>1. GoodService(svc)
        BY <1>0
      <4>2. LET r == RolledBack(m, k, m.pending[k])
            IN  Files(r) = Files(svc) /\ r.running = svc.running /\ r.fixedRoom = svc.fixedRoom
        BY <2>2, <4>1, RollbackUndoes
      <4> HIDE DEF m
      <4> QED
        BY <3>1, <4>2
    <3>3. hist'.unsaved = hist.unsaved
      BY <1>0, <3>1 DEF Histories
    <3> QED
      BY <3>1, <3>2, <3>3, SyncKept
  <2> QED
    BY <2>3, <2>4
<1>4. ASSUME NEW saveOK \in BOOLEAN, PairRolledBack(c, saveOK) PROVE DiskInSync'
  <2> DEFINE k == conns[c].key
             m == RolledBack(svc, k, svc.pending[k])
  <2>1. /\ svc' = m /\ SaveIgnored(m, <<saveOK>>) /\ hist' = [hist EXCEPT !.unsaved = svc.fixedRoom /\ ~saveOK]
    BY <1>4 DEF PairRolledBack
  <2>2. m.fixedRoom = svc.fixedRoom
    BY <1>0 DEF RolledBack, Service
  <2> HIDE DEF m
  <2>3. CASE saveOK
    BY <2>1, <2>3, SyncWritten DEF SaveIgnored
  <2>4. CASE ~saveOK
    <3>1. svc.fixedRoom => hist'.unsaved
      BY <1>0, <2>1, <2>4 DEF Histories
    <3> QED
      BY <2>1, <2>2, <3>1 DEF DiskInSync
  <2> QED
    BY <2>3, <2>4
<1>5. CASE PairLeftToTimer(c)
  <2> DEFINE k == conns[c].key
  <2>1. svc' = [svc EXCEPT !.pending[k] = NoPending, !.timers[k] = svc.pending[k].token] /\ UNCHANGED <<disk, hist>>
    BY <1>5 DEF PairLeftToTimer
  <2>2. /\ svc'.alloc = svc.alloc /\ svc'.joinEnabled = svc.joinEnabled /\ svc'.blocked = svc.blocked
        /\ svc'.roomKey = svc.roomKey /\ svc'.psks = svc.psks
        /\ svc'.running = svc.running /\ svc'.fixedRoom = svc.fixedRoom
    BY <1>0, <2>1 DEF Service
  <2> QED
    BY <2>1, <2>2, SameFiles, SyncKept
<1>6. CASE PairAck(c)
  <2> DEFINE k == conns[c].key
  <2>1. k \in Keys
    BY <1>6, ConnFields DEF TInv, PairAck
  <2>2. disk' = disk /\ (UNCHANGED <<svc, hist>> \/ (svc' = Acknowledged(svc, k) /\ hist' = [hist EXCEPT !.acked = @ \cup {k}]))
    BY <1>6 DEF PairAck
  <2>3. LET n == Acknowledged(svc, k)
        IN  Files(n) = Files(svc) /\ n.running = svc.running /\ n.fixedRoom = svc.fixedRoom
    BY <1>0, <2>1, AcknowledgedGood DEF Files
  <2>4. hist'.unsaved = hist.unsaved
    BY <1>0, <2>2 DEF Histories
  <2> QED
    BY <2>2, <2>3, <2>4, SyncKept
<1> QED
  BY <1>1, <1>2, <1>3, <1>4, <1>5, <1>6 DEF ConnStep

(* Every step keeps DiskInSync. *)
LEMMA NextSync == TInv /\ DiskInSync /\ [Next]_vars => DiskInSync'
<1> SUFFICES ASSUME TInv, DiskInSync, [Next]_vars PROVE DiskInSync'
  OBVIOUS
<1>0. svc \in Service /\ GoodService(svc) /\ hist \in Histories
  BY DEF TInv, GoodService
<1>1. CASE TimerStep
  <2>1. PICK t \in clock : TimerExpires(t) \/ \E removeOK, saveOK \in BOOLEAN : TimerRuns(t, removeOK, saveOK)
    BY <1>1 DEF TimerStep
  <2>2. CASE TimerExpires(t)
    BY <2>2, SyncKept DEF TimerExpires
  <2>3. ASSUME NEW removeOK \in BOOLEAN, NEW saveOK \in BOOLEAN, TimerRuns(t, removeOK, saveOK) PROVE DiskInSync'
    <3> DEFINE k == t.key
               m == Reclaimed(svc, k)
    <3>1. CASE Reclaims(svc, t)
      <4>1. /\ svc' = m /\ SaveIgnored(m, <<removeOK, saveOK>>)
            /\ hist' = [hist EXCEPT !.raced = @ \/ svc.pending[k] # NoPending,
                                    !.wgFailed = @ \/ ~removeOK,
                                    !.unsaved = IF svc.fixedRoom THEN ~saveOK ELSE @]
        BY <2>3, <3>1 DEF TimerRuns
      <4>2. m.fixedRoom = svc.fixedRoom
        BY <1>0 DEF Reclaimed, Service
      <4> HIDE DEF m
      <4>3. CASE saveOK
        BY <4>1, <4>3, SyncWritten DEF SaveIgnored
      <4>4. CASE ~saveOK
        <5>1. svc.fixedRoom => hist'.unsaved
          BY <1>0, <4>1, <4>4 DEF Histories
        <5> QED
          BY <4>1, <4>2, <5>1 DEF DiskInSync
      <4> QED
        BY <4>3, <4>4
    <3>2. CASE ~Reclaims(svc, t)
      <4>1. svc' = [svc EXCEPT !.timers[k] = 0] /\ UNCHANGED <<disk, hist>>
        BY <2>3, <3>2 DEF TimerRuns
      <4>2. /\ svc'.alloc = svc.alloc /\ svc'.joinEnabled = svc.joinEnabled /\ svc'.blocked = svc.blocked
            /\ svc'.roomKey = svc.roomKey /\ svc'.psks = svc.psks
            /\ svc'.running = svc.running /\ svc'.fixedRoom = svc.fixedRoom
        BY <1>0, <4>1 DEF Service
      <4> QED
        BY <4>1, <4>2, SameFiles, SyncKept
    <3> QED
      BY <3>1, <3>2
  <2> QED
    BY <2>1, <2>2, <2>3
<1>2. CASE HostStep
  <2>1. ASSUME NEW m, NEW undone, NEW saveOK \in BOOLEAN, SaveChange(m, undone, saveOK),
               Files(undone) = Files(svc), undone.running = svc.running, undone.fixedRoom = svc.fixedRoom
        PROVE  DiskInSync'
    <3>1. CASE saveOK
      BY <2>1, <3>1, SyncWritten DEF SaveChange
    <3>2. CASE ~saveOK
      BY <2>1, <3>2, SyncKept DEF SaveChange
    <3> QED
      BY <3>1, <3>2
  <2>2. ASSUME NEW enabled \in BOOLEAN, NEW saveOK \in BOOLEAN, SetJoinEnabled(enabled, saveOK) PROVE DiskInSync'
    BY <2>1, <2>2 DEF SetJoinEnabled
  <2>3. ASSUME NEW u \in UIDs, NEW saveOK \in BOOLEAN, UnblockUID(u, saveOK) PROVE DiskInSync'
    BY <2>1, <2>3 DEF UnblockUID
  <2>4. ASSUME NEW k \in Keys, NEW name \in Names, NEW saveOK \in BOOLEAN, RenameMember(k, name, saveOK) PROVE DiskInSync'
    <3> DEFINE u == RenameUndone(svc)
    <3>1. Snapshot(u.alloc) = Snapshot(svc.alloc)
      BY <1>0, RenameUndoneGood
    <3>2. /\ u.joinEnabled = svc.joinEnabled /\ u.blocked = svc.blocked
          /\ u.roomKey = svc.roomKey /\ u.psks = svc.psks
          /\ u.running = svc.running /\ u.fixedRoom = svc.fixedRoom
      BY <1>0 DEF RenameUndone, Service
    <3> QED
      BY <2>1, <2>4, <3>1, <3>2, SameFiles DEF RenameMember
  <2>5. ASSUME NEW saveOK \in BOOLEAN, RotateKey(saveOK) PROVE DiskInSync'
    <3> DEFINE m == [svc EXCEPT !.roomKey = used.keys + 1]
    <3>1. /\ svc' = IF saveOK THEN m ELSE svc
          /\ disk' = IF saveOK /\ svc.fixedRoom THEN [disk EXCEPT !.secret = SecretOf(m)] ELSE disk
          /\ UNCHANGED hist
      BY <2>5 DEF RotateKey
    <3>2. /\ m.alloc = svc.alloc /\ m.joinEnabled = svc.joinEnabled /\ m.blocked = svc.blocked
          /\ m.running = svc.running /\ m.fixedRoom = svc.fixedRoom
      BY <1>0 DEF Service
    <3> HIDE DEF m
    <3>3. StateOf(m) = StateOf(svc)
      BY <3>2 DEF StateOf
    <3>4. CASE ~saveOK
      BY <3>1, <3>4, SyncKept
    <3>5. CASE saveOK
      BY <3>1, <3>2, <3>3, <3>5 DEF DiskInSync
    <3> QED
      BY <3>4, <3>5
  <2>6. ASSUME NEW k \in Keys, NEW block \in BOOLEAN, NEW removeOK \in BOOLEAN, NEW saveOK \in BOOLEAN,
               RemoveMember(k, block, removeOK, saveOK)
        PROVE  DiskInSync'
    <3>1. CASE removeOK /\ saveOK
      BY <2>6, <3>1, SyncWritten DEF RemoveMember
    <3>2. CASE ~(removeOK /\ saveOK)
      <4>1. svc' = RemoveUndone(svc, k) /\ disk' = disk /\ hist' = [hist EXCEPT !.wgFailed = @ \/ ~removeOK]
        BY <2>6, <3>2 DEF RemoveMember
      <4>2. Files(svc') = Files(svc) /\ svc'.running = svc.running /\ svc'.fixedRoom = svc.fixedRoom
        BY <1>0, <4>1, AcknowledgedGood DEF Files
      <4>3. hist'.unsaved = hist.unsaved
        BY <1>0, <4>1 DEF Histories
      <4> QED
        BY <4>1, <4>2, <4>3, SyncKept
    <3> QED
      BY <3>1, <3>2
  <2>7. ASSUME NEW online \in SUBSET Keys, NEW idle \in SUBSET Keys, UpdateMemberStats(online, idle) PROVE DiskInSync'
    <3>1. svc' = StatsApplied(svc, online, idle) /\ UNCHANGED <<disk, hist>>
      BY <2>7 DEF UpdateMemberStats
    <3>2. /\ svc'.alloc = svc.alloc /\ svc'.joinEnabled = svc.joinEnabled /\ svc'.blocked = svc.blocked
          /\ svc'.roomKey = svc.roomKey /\ svc'.psks = svc.psks
          /\ svc'.running = svc.running /\ svc'.fixedRoom = svc.fixedRoom
      BY <1>0, <3>1 DEF StatsApplied, Service
    <3> QED
      BY <3>1, <3>2, SameFiles, SyncKept
  <2> QED
    BY <1>2, <2>2, <2>3, <2>4, <2>5, <2>6, <2>7 DEF HostStep
<1>3. CASE LifeStep
  <2>1. ASSUME ~svc'.running PROVE DiskInSync'
    BY <2>1 DEF DiskInSync
  <2>2. \A n, timers : Cleared(n, timers).running = FALSE
    BY DEF Cleared
  <2>3. ASSUME NEW fixed \in RoomModes, CreateRoom(fixed) PROVE DiskInSync'
    BY <2>3, SyncWritten DEF CreateRoom
  <2>4. CASE StartRoom
    <3> DEFINE m == RestoredRoom(svc, disk.state, disk.secret)
    <3>1. svc' = m /\ disk' = [disk EXCEPT !.secret = SecretOf(m)] /\ disk.state.exists
      BY <2>4 DEF StartRoom
    <3>2. disk \in [state : StateFile, secret : SecretFile]
      BY DEF TInv, DiskInv
    <3>3. Snapshot(m.alloc) = disk.state.members
      BY <1>0, RestoredGood DEF TInv, DiskInv
    <3>4. m.joinEnabled = disk.state.joinEnabled /\ m.blocked = disk.state.blocked
      BY DEF RestoredRoom, ClearedService, Cleared
    <3> HIDE DEF m
    <3>5. StateOf(m) = disk.state
      BY <3>1, <3>2, <3>3, <3>4 DEF StateOf, StateFile
    <3> QED
      BY <3>1, <3>2, <3>5 DEF DiskInSync
  <2>5. CASE StartRefused \/ \E secretSaved \in BOOLEAN : StartFails(secretSaved)
    BY <2>1, <2>2, <2>5 DEF StartRefused, StartFails, ClearedService
  <2>6. CASE StopRoom
    BY <1>0, <2>1, <2>6, StoppedGood DEF StopRoom
  <2>7. CASE StopNetwork
    BY <2>7, SyncKept DEF StopNetwork
  <2>8. CASE ProcessLost
    BY <2>1, <2>2, <2>8 DEF ProcessLost, FreshService
  <2>9. Crash \/ CrashWhileSaving => ProcessLost
    BY DEF Crash, CrashWhileSaving, SecretOnly
  <2> QED
    BY <1>3, <2>3, <2>4, <2>5, <2>6, <2>7, <2>8, <2>9 DEF LifeStep
<1>4. CASE UNCHANGED vars
  BY <1>4, SyncKept DEF vars
<1> QED
  BY <1>1, <1>2, <1>3, <1>4, ConnSync DEF Next

(* While no ignored save failed, the files of a running fixed room are     *)
(* what memory says: undone changes leave no trace, and what succeeded     *)
(* survives a crash.                                                       *)
THEOREM RoomDiskInSync == Spec => []DiskInSync
<1>1. Init => DiskInSync
  <2>1. FreshService.running = FALSE
    BY DEF FreshService, Cleared
  <2> QED
    BY <2>1 DEF Init, DiskInSync
<1> QED
  BY <1>1, InitTyped, NextTyped, NextSync, PTL DEF Spec

-----------------------------------------------------------------------------
(* The WireGuard peers of the room are its leases.  Two invariants carry   *)
(* the proof, beside TInv: AInv, that every lease can be turned into a     *)
(* peer, and PInv, that a pending attempt can be rolled back exactly and   *)
(* that the peers are the leases.                                          *)

(* Every lease is enabled and has a pre-shared key, also the ones kept for *)
(* rollback, and the room key is there when PSKs are derived from it.      *)
AuthService(m) ==
  /\ m.running \/ m.fixedRoom => m.roomKey # 0
  /\ \A k \in Keys : HasLease(m.alloc, k) => m.alloc.byKey[k].enabled /\ m.psks[k] # 0
  /\ \A k \in Keys : m.pending[k].previous # NoLease =>
        /\ m.pending[k].previous.publicKey = k /\ m.pending[k].previous.enabled
        /\ m.pending[k].previousPSK # 0

(* The leases of room.json are enabled and a saved room key is a real one. *)
AuthDisk ==
  /\ \A x \in disk.state.members : x.enabled
  /\ disk.secret.exists => disk.secret.roomKey # 0

(* A connection knows a room key, and an attempt that waits for its        *)
(* PairAck has a token.                                                    *)
AuthConns ==
  \A c \in Conns : /\ conns[c].pc # "closed" => conns[c].roomKey # 0
                   /\ conns[c].pc = "leased" => conns[c].token # 0

(* Together: every lease, in memory, pending or saved, can be turned into  *)
(* a WireGuard peer.                                                       *)
AInv == AuthService(svc) /\ AuthDisk /\ AuthConns

(* AuthService is kept by a change that adds no lease and no attempt and   *)
(* keeps the pre-shared keys of the leases that stay.                      *)
LEMMA SameAuth ==
  ASSUME NEW m, AuthService(m), NEW n,
         \A k \in Keys : HasLease(n.alloc, k) =>
            /\ HasLease(m.alloc, k) /\ n.alloc.byKey[k].enabled = m.alloc.byKey[k].enabled
            /\ n.psks[k] = m.psks[k],
         \A k \in Keys : n.pending[k] = NoPending \/ n.pending[k] = m.pending[k],
         n.roomKey = m.roomKey \/ n.roomKey # 0,
         n.running \/ n.fixedRoom => m.running \/ m.fixedRoom \/ n.roomKey # 0
  PROVE  AuthService(n)
<1>1. NoPending.previous = NoLease
  BY DEF NoPending
<1>2. n.running \/ n.fixedRoom => n.roomKey # 0
  BY DEF AuthService
<1>3. ASSUME NEW k \in Keys, HasLease(n.alloc, k) PROVE n.alloc.byKey[k].enabled /\ n.psks[k] # 0
  BY <1>3 DEF AuthService
<1>4. ASSUME NEW k \in Keys, n.pending[k].previous # NoLease
      PROVE  /\ n.pending[k].previous.publicKey = k /\ n.pending[k].previous.enabled
             /\ n.pending[k].previousPSK # 0
  BY <1>1, <1>4 DEF AuthService
<1> QED
  BY <1>2, <1>3, <1>4 DEF AuthService

(* assign gives the device a pre-shared key: its own or the one derived    *)
(* from the room key of its connection.                                    *)
LEMMA AssignedAuth ==
  ASSUME NEW m, GoodService(m), AuthService(m), NEW k \in Keys, NEW name \in Names,
         NEW roomKey \in PSKs, NEW existing \in BOOLEAN, MayAssign(m, k, existing), roomKey # 0
  PROVE  AuthService(Assigned(m, k, name, roomKey, existing))
<1> DEFINE n == Assigned(m, k, name, roomKey, existing)
           a == m.alloc
<1>0. CanAssign(m.alloc, k) /\ (existing => m.psks[k] # 0) /\ a \in Allocator /\ Consistent(a) /\ m \in Service
  BY ServiceFields DEF MayAssign, GoodService
<1>1. n.alloc = Assign(a, k, name)
  BY <1>0 DEF Assigned, Service
<1>2. /\ n.pending[k].previous = m.alloc.byKey[k] /\ n.pending[k].previousPSK = m.psks[k]
      /\ \A l \in Keys \ {k} : n.pending[l] = m.pending[l]
  BY <1>0, AssignedGood
<1>3. \A l \in Keys \ {k} : n.psks[l] = m.psks[l]
  BY <1>0, AssignedGood
<1>4. n.psks[k] # 0
  <2>1. n.psks = [m.psks EXCEPT ![k] = IF existing THEN m.psks[k] ELSE roomKey]
    BY <1>0 DEF Assigned, Service
  <2>2. n.psks[k] = IF existing THEN m.psks[k] ELSE roomKey
    BY <1>0, <2>1, ServiceFields
  <2> QED
    BY <1>0, <2>2
<1>5. n.running = m.running /\ n.fixedRoom = m.fixedRoom /\ n.roomKey = m.roomKey
  BY <1>0 DEF Assigned, Service
<1> HIDE DEF n
<1>6. \A l \in Keys : HasLease(n.alloc, l) => n.alloc.byKey[l].enabled
  <2>1. \A l \in Keys \ {k} : n.alloc.byKey[l] = a.byKey[l]
    BY <1>0, <1>1, AssignFacts
  <2>2. n.alloc.byKey[k].enabled
    BY <1>0, <1>1, AssignFacts DEF AuthService
  <2> QED
    BY <2>1, <2>2 DEF AuthService, HasLease
<1>7. \A l \in Keys : HasLease(n.alloc, l) => n.psks[l] # 0
  <2>1. \A l \in Keys \ {k} : n.alloc.byKey[l] = a.byKey[l]
    BY <1>0, <1>1, AssignFacts
  <2> QED
    BY <1>3, <1>4, <2>1 DEF AuthService, HasLease
<1>8. \A l \in Keys : n.pending[l].previous # NoLease =>
         n.pending[l].previous.publicKey = l /\ n.pending[l].previous.enabled /\ n.pending[l].previousPSK # 0
  <2>1. HasLease(a, k) => a.byKey[k].publicKey = k
    BY <1>0 DEF Consistent, LeaseShape
  <2> QED
    BY <1>2, <2>1 DEF AuthService, HasLease
<1>9. AuthService(n)
  BY <1>5, <1>6, <1>7, <1>8 DEF AuthService
<1> QED
  BY <1>9 DEF n

(* A rollback restores a lease together with the pre-shared key it had. *)
LEMMA RolledBackAuth ==
  ASSUME NEW m, GoodService(m), AuthService(m), NEW k \in Keys
  PROVE  AuthService(RolledBack(m, k, m.pending[k]))
<1> DEFINE p == m.pending[k]
           n == RolledBack(m, k, p)
           a == m.alloc
<1>0. m \in Service /\ a \in Allocator /\ Consistent(a) /\ p \in Pending
  BY ServiceFields DEF GoodService
<1>1. /\ n.running = m.running /\ n.fixedRoom = m.fixedRoom /\ n.roomKey = m.roomKey
      /\ n.pending = [m.pending EXCEPT ![k] = NoPending] /\ n.psks = [m.psks EXCEPT ![k] = p.previousPSK]
      /\ p.previous # NoLease => n.alloc = Restore(a, p.previous)
      /\ p.previous = NoLease => n.alloc = Remove(a, k)
  BY <1>0 DEF RolledBack, Service
<1> HIDE DEF n
<1>2. m.psks \in [Keys -> PSKs] /\ m.pending \in [Keys -> Pending]
  BY <1>0, ServiceFields
<1>3. n.psks[k] = p.previousPSK /\ \A l \in Keys \ {k} : n.psks[l] = m.psks[l]
  BY <1>1, <1>2
<1>4. NoPending.previous = NoLease /\ n.pending[k] = NoPending /\ \A l \in Keys \ {k} : n.pending[l] = m.pending[l]
  BY <1>1, <1>2 DEF NoPending
<1> DEFINE Fit(x) == HasLease(n.alloc, x) => n.alloc.byKey[x].enabled /\ n.psks[x] # 0
<1>5. \A l \in Keys : Fit(l)
  <2>1. CASE p.previous = NoLease
    <3>1. ~HasLease(n.alloc, k) /\ \A l \in Keys \ {k} : n.alloc.byKey[l] = a.byKey[l]
      BY <1>0, <1>1, <2>1, RemoveConsistent
    <3> QED
      BY <1>3, <3>1 DEF AuthService, HasLease
  <2>2. CASE p.previous # NoLease /\ ~CanRestore(a, p.previous)
    <3>1. n.alloc = a /\ p.previousPSK # 0
      BY <1>1, <2>2 DEF Restore, AuthService
    <3> QED
      BY <1>3, <3>1 DEF AuthService
  <2>3. CASE p.previous # NoLease /\ CanRestore(a, p.previous)
    <3> DEFINE item == p.previous
    <3>1. item \in Lease /\ item.enabled /\ p.previousPSK # 0
      BY <1>0, <2>3 DEF Pending, AuthService
    <3>2. /\ n.alloc.byKey[item.publicKey] = item
          /\ \A l \in Keys \ {item.publicKey} : n.alloc.byKey[l] = a.byKey[l]
      BY <1>0, <1>1, <2>3, <3>1, RestoreConsistent
    <3>3. item.publicKey = k
      BY <2>3 DEF AuthService
    <3> QED
      BY <1>3, <3>1, <3>2, <3>3 DEF AuthService, HasLease
  <2> QED
    BY <2>1, <2>2, <2>3
<1>6. \A l \in Keys : n.pending[l].previous # NoLease =>
         n.pending[l].previous.publicKey = l /\ n.pending[l].previous.enabled /\ n.pending[l].previousPSK # 0
  BY <1>4 DEF AuthService
<1>7. AuthService(n)
  BY <1>1, <1>5, <1>6 DEF AuthService
<1> QED
  BY <1>7 DEF n

(* A reclaimed or removed device loses its lease and its pre-shared key    *)
(* together.                                                               *)
LEMMA DroppedAuth ==
  ASSUME NEW m, GoodService(m), AuthService(m), NEW k \in Keys, NEW block \in BOOLEAN
  PROVE  AuthService(Reclaimed(m, k)) /\ AuthService(Removed(m, k, block))
<1>0. m \in Service /\ m.alloc \in Allocator /\ Consistent(m.alloc) /\ m.psks \in [Keys -> PSKs]
  BY ServiceFields DEF GoodService
<1>1. ~HasLease(Remove(m.alloc, k), k) /\ \A l \in Keys \ {k} : Remove(m.alloc, k).byKey[l] = m.alloc.byKey[l]
  BY <1>0, RemoveConsistent
<1>2. ASSUME NEW n, n.alloc = Remove(m.alloc, k), n.psks = [m.psks EXCEPT ![k] = 0]
      PROVE  \A l \in Keys : HasLease(n.alloc, l) =>
                /\ HasLease(m.alloc, l) /\ n.alloc.byKey[l].enabled = m.alloc.byKey[l].enabled
                /\ n.psks[l] = m.psks[l]
  BY <1>0, <1>1, <1>2 DEF HasLease
<1>3. AuthService(Reclaimed(m, k))
  <2> DEFINE n == Reclaimed(m, k)
  <2>1. /\ n.alloc = Remove(m.alloc, k) /\ n.psks = [m.psks EXCEPT ![k] = 0] /\ n.pending = m.pending
        /\ n.roomKey = m.roomKey /\ n.running = m.running /\ n.fixedRoom = m.fixedRoom
    BY <1>0 DEF Reclaimed, Service
  <2> HIDE DEF n
  <2>2. AuthService(n)
    BY <1>2, <2>1, SameAuth
  <2> QED
    BY <2>2 DEF n
<1>4. AuthService(Removed(m, k, block))
  <2> DEFINE n == Removed(m, k, block)
  <2>1. /\ n.alloc = Remove(m.alloc, k) /\ n.psks = [m.psks EXCEPT ![k] = 0]
        /\ n.pending = [m.pending EXCEPT ![k] = NoPending]
        /\ n.roomKey = m.roomKey /\ n.running = m.running /\ n.fixedRoom = m.fixedRoom
    <3>1. n.pending = [m.pending EXCEPT ![k] = NoPending] /\ n.running = m.running /\ n.fixedRoom = m.fixedRoom
      BY RemovedGood
    <3>2. n.alloc = Remove(m.alloc, k) /\ n.psks = [m.psks EXCEPT ![k] = 0] /\ n.roomKey = m.roomKey
      BY <1>0 DEF Removed, Service
    <3> QED
      BY <3>1, <3>2
  <2>2. \A l \in Keys : n.pending[l] = NoPending \/ n.pending[l] = m.pending[l]
    BY <1>0, <2>1, PendingAfter
  <2> HIDE DEF n
  <2>3. \A l \in Keys : HasLease(n.alloc, l) =>
           /\ HasLease(m.alloc, l) /\ n.alloc.byKey[l].enabled = m.alloc.byKey[l].enabled
           /\ n.psks[l] = m.psks[l]
    BY <1>2, <2>1
  <2>4. n.roomKey = m.roomKey /\ n.running = m.running /\ n.fixedRoom = m.fixedRoom
    BY <2>1
  <2>5. AuthService(n)
    BY <2>2, <2>3, <2>4, SameAuth
  <2> QED
    BY <2>5 DEF n
<1> QED
  BY <1>3, <1>4

(* persistLocked writes enabled leases and the room key. *)
LEMMA AuthSaved ==
  ASSUME AuthDisk, NEW m, GoodService(m), AuthService(m), disk' = disk \/ disk' = Saved(m)
  PROVE  AuthDisk'
<1>1. CASE disk' = disk \/ ~m.fixedRoom
  BY <1>1 DEF AuthDisk, Saved
<1>2. CASE disk' = Saved(m) /\ m.fixedRoom
  <2>1. disk'.state.members = Snapshot(m.alloc) /\ disk'.secret.roomKey = m.roomKey
    BY <1>2 DEF Saved, StateOf, SecretOf
  <2>2. \A x \in Snapshot(m.alloc) : x.enabled
    BY SnapshotMembers, ServiceFields DEF GoodService, AuthService
  <2> QED
    BY <1>2, <2>1, <2>2 DEF AuthDisk, AuthService
<1> QED
  BY <1>1, <1>2

(* Writing room.secret alone keeps the saved room key real. *)
LEMMA AuthSecret ==
  ASSUME DiskInv, AuthDisk, NEW m, m.roomKey # 0, disk' = [disk EXCEPT !.secret = SecretOf(m)]
  PROVE  AuthDisk'
<1>1. disk'.state = disk.state /\ disk'.secret.roomKey = m.roomKey
  BY DEF DiskInv, SecretOf
<1> QED
  BY <1>1 DEF AuthDisk

(* Closing a connection keeps AuthConns. *)
LEMMA AuthClose ==
  ASSUME ConnInv, AuthConns, NEW c \in Conns, Close(c)
  PROVE  AuthConns'
<1>1. conns'[c].pc = "closed" /\ \A d \in Conns \ {c} : conns'[d] = conns[d]
  BY ClosedConnTyped DEF Close, ConnInv
<1> QED
  BY <1>1 DEF AuthConns

(* A cleared service has no lease and no attempt. *)
LEMMA ClearedAuth ==
  ASSUME NEW n, NEW timers
  PROVE  AuthService(Cleared(n, timers)) /\ \A k \in Keys : ~HasLease(Cleared(n, timers).alloc, k)
<1> DEFINE m == Cleared(n, timers)
<1>1. /\ m.running = FALSE /\ m.fixedRoom = FALSE /\ m.alloc = EmptyAllocator
      /\ \A k \in Keys : m.pending[k] = NoPending
  BY DEF Cleared
<1>2. \A k \in Keys : ~HasLease(EmptyAllocator, k)
  BY EmptyAllocatorConsistent, SnapshotMembers
<1>3. NoPending.previous = NoLease
  BY DEF NoPending
<1> HIDE DEF m
<1>4. AuthService(m) /\ \A k \in Keys : ~HasLease(m.alloc, k)
  BY <1>1, <1>2, <1>3 DEF AuthService
<1> QED
  BY <1>4 DEF m

(* The pairing connections keep AInv. *)
LEMMA ConnAuth ==
  ASSUME TInv, AInv, NEW c \in Conns, ConnStep(c)
  PROVE  AInv'
<1>0. /\ svc \in Service /\ GoodService(svc) /\ AuthService(svc) /\ AuthDisk /\ AuthConns /\ ConnInv
      /\ conns \in [Conns -> ConnRecords]
  BY DEF TInv, GoodService, AInv, ConnInv
<1>1. CASE \/ Connect(c) \/ ReportKnown(c) \/ ReportListed(c)
           \/ \E k \in Keys, existingAuth \in BOOLEAN : Request(c, k, existingAuth)
  <2>1. UNCHANGED <<svc, disk>> /\ \A d \in Conns \ {c} : conns'[d] = conns[d]
    BY <1>0, <1>1 DEF Connect, ReportKnown, ReportListed, Request
  <2>2. conns'[c].roomKey # 0 /\ conns'[c].pc # "leased"
    <3>1. CASE Connect(c)
      <4>1. conns'[c].roomKey = svc.roomKey /\ conns'[c].pc = "open" /\ svc.running
        BY <1>0, <3>1 DEF Connect, ClosedConn
      <4> QED
        BY <1>0, <4>1 DEF AuthService
    <3>2. CASE ReportKnown(c) \/ ReportListed(c)
      BY <1>0, <3>2 DEF ReportKnown, ReportListed, AuthConns, ConnRecords
    <3>3. ASSUME NEW k \in Keys, NEW existingAuth \in BOOLEAN, Request(c, k, existingAuth)
          PROVE  conns'[c].roomKey # 0 /\ conns'[c].pc # "leased"
      BY <1>0, <3>3 DEF Request, AuthConns, ConnRecords
    <3> QED
      BY <1>1, <3>1, <3>2, <3>3
  <2> QED
    BY <1>0, <2>1, <2>2 DEF AInv, AuthConns, AuthDisk
<1>2. CASE RequestFails(c) \/ AssignRefused(c) \/ PairSuperseded(c) \/ ControlEnds(c)
  <2>1. UNCHANGED <<svc, disk>> /\ Close(c)
    BY <1>2 DEF RequestFails, AssignRefused, PairSuperseded, ControlEnds
  <2> QED
    BY <1>0, <2>1, AuthClose DEF AInv, AuthDisk
<1>3. CASE ReportStats(c)
  <2>1. conns'[c].roomKey = conns[c].roomKey /\ conns'[c].pc = "control" /\ conns[c].pc = "listed"
        /\ \A d \in Conns \ {c} : conns'[d] = conns[d]
    BY <1>0, <1>3 DEF ReportStats, ConnRecords
  <2>2. /\ svc'.alloc = svc.alloc /\ svc'.roomKey = svc.roomKey /\ svc'.psks = svc.psks
        /\ svc'.running = svc.running /\ svc'.fixedRoom = svc.fixedRoom /\ svc'.pending = svc.pending
    BY <1>0, <1>3 DEF ReportStats, Service
  <2>3. AuthService(svc') /\ disk' = disk
    BY <1>0, <1>3, <2>2, SameAuth DEF ReportStats
  <2>4. AuthConns'
    BY <1>0, <2>1 DEF AuthConns
  <2> QED
    BY <1>0, <2>3, <2>4 DEF AInv, AuthDisk
<1>4. ASSUME NEW name \in Names, NEW applyOK \in BOOLEAN, NEW saveOK \in BOOLEAN,
             AssignLease(c, name, applyOK, saveOK)
      PROVE  AInv'
  <2> DEFINE k == conns[c].key
             m == Assigned(svc, k, name, conns[c].roomKey, conns[c].existingAuth)
  <2>1. conns[c].pc = "vetted" /\ MayAssign(svc, k, conns[c].existingAuth)
    BY <1>4 DEF AssignLease
  <2>2. k \in Keys /\ conns[c].roomKey \in PSKs /\ conns[c].existingAuth \in BOOLEAN
    BY <1>0, <2>1, ConnFields
  <2>3. CanAssign(svc.alloc, k) /\ conns[c].roomKey # 0
    BY <1>0, <2>1 DEF MayAssign, AuthConns
  <2>4. GoodService(m) /\ m.pending[k] \in Pending
    BY <1>0, <2>2, <2>3, AssignedGood
  <2>5. AuthService(m)
    BY <1>0, <2>1, <2>2, <2>3, AssignedAuth
  <2>6. m.pairAttempt = svc.pairAttempt + 1
    BY <1>0 DEF Assigned, Service
  <2>7. m.pairAttempt # 0
    BY <1>0, <2>6, ServiceFields
  <2>8. CASE applyOK /\ saveOK
    <3>1. svc' = m /\ disk' = Saved(m)
      BY <1>4, <2>8 DEF AssignLease
    <3>2. conns'[c].token = m.pairAttempt /\ conns'[c].roomKey = conns[c].roomKey
      <4>1. conns' = [conns EXCEPT ![c] = [conns[c] EXCEPT !.pc = "leased", !.token = m.pairAttempt,
                        !.created = ~HasLease(svc.alloc, k),
                        !.revision = m.alloc.byKey[k].revision, !.octet = m.alloc.byKey[k].octet]]
        BY <1>4, <2>8 DEF AssignLease
      <4> HIDE DEF m
      <4> QED
        BY <1>0, <4>1 DEF ConnRecords
    <3>3. \A d \in Conns \ {c} : conns'[d] = conns[d]
      BY <1>0, <1>4, <2>8 DEF AssignLease
    <3> HIDE DEF m
    <3>4. AuthConns'
      BY <1>0, <2>3, <2>7, <3>2, <3>3 DEF AuthConns
    <3>5. AuthDisk'
      BY <1>0, <2>4, <2>5, <3>1, AuthSaved
    <3> QED
      BY <2>5, <3>1, <3>4, <3>5 DEF AInv
  <2>9. CASE ~(applyOK /\ saveOK)
    <3>1. svc' = RolledBack(m, k, m.pending[k]) /\ disk' = disk /\ Close(c)
      BY <1>4, <2>9 DEF AssignLease
    <3> HIDE DEF m
    <3>2. AuthService(svc')
      BY <2>2, <2>4, <2>5, <3>1, RolledBackAuth
    <3> QED
      BY <1>0, <3>1, <3>2, AuthClose DEF AInv, AuthDisk
  <2> QED
    BY <2>8, <2>9
<1>5. ASSUME NEW saveOK \in BOOLEAN, PairRolledBack(c, saveOK) PROVE AInv'
  <2> DEFINE k == conns[c].key
             m == RolledBack(svc, k, svc.pending[k])
  <2>1. /\ conns[c].pc = "leased" /\ svc' = m /\ Close(c) /\ SaveIgnored(m, <<saveOK>>)
    BY <1>5 DEF PairRolledBack
  <2>2. k \in Keys
    BY <1>0, <2>1, ConnFields
  <2>3. svc.pending[k] \in Pending
    BY <1>0, <2>2, ServiceFields
  <2>4. GoodService(m) /\ AuthService(m)
    BY <1>0, <2>2, <2>3, RolledBackGood, RolledBackAuth
  <2> HIDE DEF m
  <2>5. disk' = disk \/ disk' = Saved(m)
    BY <2>1 DEF SaveIgnored
  <2> QED
    BY <1>0, <2>1, <2>4, <2>5, AuthClose, AuthSaved DEF AInv
<1>6. CASE PairLeftToTimer(c)
  <2> DEFINE k == conns[c].key
  <2>1. /\ conns[c].pc = "leased" /\ Close(c) /\ disk' = disk
        /\ svc' = [svc EXCEPT !.pending[k] = NoPending, !.timers[k] = svc.pending[k].token]
    BY <1>6 DEF PairLeftToTimer
  <2>2. k \in Keys
    BY <1>0, <2>1, ConnFields
  <2>3. /\ svc'.alloc = svc.alloc /\ svc'.roomKey = svc.roomKey /\ svc'.psks = svc.psks
        /\ svc'.running = svc.running /\ svc'.fixedRoom = svc.fixedRoom
        /\ svc'.pending = [svc.pending EXCEPT ![k] = NoPending]
    BY <1>0, <2>1, <2>2 DEF Service
  <2>4. \A l \in Keys : svc'.pending[l] = NoPending \/ svc'.pending[l] = svc.pending[l]
    BY <1>0, <2>2, <2>3, PendingAfter
  <2>5. AuthService(svc')
    BY <1>0, <2>3, <2>4, SameAuth
  <2> QED
    BY <1>0, <2>1, <2>5, AuthClose DEF AInv, AuthDisk
<1>7. CASE PairAck(c)
  <2> DEFINE k == conns[c].key
  <2>1. /\ conns[c].pc = "leased" /\ conns'[c].roomKey = conns[c].roomKey /\ conns'[c].pc = "control"
        /\ disk' = disk /\ \A d \in Conns \ {c} : conns'[d] = conns[d]
    BY <1>0, <1>7 DEF PairAck, ConnRecords
  <2>2. k \in Keys
    BY <1>0, <2>1, ConnFields
  <2>3. AuthConns'
    BY <1>0, <2>1 DEF AuthConns
  <2>4. CASE svc' = Acknowledged(svc, k)
    <3>1. /\ svc'.alloc = svc.alloc /\ svc'.roomKey = svc.roomKey /\ svc'.psks = svc.psks
          /\ svc'.running = svc.running /\ svc'.fixedRoom = svc.fixedRoom
          /\ svc'.pending = [svc.pending EXCEPT ![k] = NoPending]
      BY <1>0, <2>2, <2>4 DEF Acknowledged, Service
    <3>2. \A l \in Keys : svc'.pending[l] = NoPending \/ svc'.pending[l] = svc.pending[l]
      BY <1>0, <2>2, <3>1, PendingAfter
    <3>3. AuthService(svc')
      BY <1>0, <3>1, <3>2, SameAuth
    <3> QED
      BY <1>0, <2>1, <2>3, <3>3 DEF AInv, AuthDisk
  <2>5. CASE svc' = svc
    BY <1>0, <2>1, <2>3, <2>5 DEF AInv, AuthDisk
  <2> QED
    BY <1>7, <2>4, <2>5 DEF PairAck
<1> QED
  BY <1>1, <1>2, <1>3, <1>4, <1>5, <1>6, <1>7 DEF ConnStep

(* The death of the process keeps AInv if the files do. *)
LEMMA LostAuth ==
  ASSUME ProcessLost, AuthDisk'
  PROVE  AInv'
<1>1. \A c \in Conns : conns'[c].pc = "closed"
  BY ClosedConnTyped DEF ProcessLost
<1>2. AuthService(svc')
  BY ClearedAuth DEF ProcessLost, FreshService
<1> QED
  BY <1>1, <1>2 DEF AInv, AuthConns

(* Start derives a missing pre-shared key from the saved room key, so that *)
(* every restored lease has one.                                           *)
LEMMA RestoredAuth ==
  ASSUME TInv, AInv, disk.secret.exists
  PROVE  LET r == RestoredRoom(svc, disk.state, disk.secret)
         IN AuthService(r) /\ r.roomKey # 0
<1> DEFINE r == RestoredRoom(svc, disk.state, disk.secret)
           a == NewAllocator(disk.state.members)
<1>1. disk.secret.roomKey # 0 /\ \A x \in disk.state.members : x.enabled
  BY DEF AInv, AuthDisk
<1>2. /\ r.alloc = a /\ r.roomKey = disk.secret.roomKey
      /\ r.psks = [k \in Keys |-> IF HasLease(a, k) /\ a.byKey[k].enabled /\ disk.secret.psks[k] = 0
                                     THEN disk.secret.roomKey ELSE disk.secret.psks[k]]
      /\ r.pending = Cleared(svc.pairAttempt, svc.timers).pending
  BY DEF RestoredRoom, ClearedService, Cleared
<1>3. GoodService(r) /\ Snapshot(r.alloc) = disk.state.members
  BY RestoredGood DEF TInv, DiskInv
<1> HIDE DEF r
<1>4. \A k \in Keys : HasLease(r.alloc, k) => r.alloc.byKey[k].enabled
  BY <1>1, <1>3, SnapshotMembers, ServiceFields DEF GoodService
<1> HIDE DEF a
<1>5. \A k \in Keys : HasLease(r.alloc, k) => r.psks[k] # 0
  BY <1>1, <1>2, <1>4
<1>6. \A k \in Keys : r.pending[k] = NoPending
  BY <1>2 DEF Cleared
<1>7. NoPending.previous = NoLease
  BY DEF NoPending
<1>8. AuthService(r)
  BY <1>1, <1>2, <1>4, <1>5, <1>6, <1>7 DEF AuthService
<1> QED
  BY <1>1, <1>2, <1>8 DEF r

(* The commands of the host keep AInv. *)
LEMMA HostAuth ==
  ASSUME TInv, AInv, HostStep
  PROVE  AInv'
<1>0. svc \in Service /\ GoodService(svc) /\ AuthService(svc) /\ AuthDisk /\ AuthConns /\ DiskInv
  BY DEF TInv, GoodService, AInv
<1>1. UNCHANGED conns
  BY DEF HostStep, SetJoinEnabled, UnblockUID, RenameMember, SaveChange, RotateKey, RemoveMember, UpdateMemberStats
<1>2. AuthConns'
  BY <1>0, <1>1 DEF AuthConns
<1>3. ASSUME NEW m, NEW undone, NEW saveOK \in BOOLEAN, SaveChange(m, undone, saveOK),
             GoodService(m), AuthService(m), AuthService(undone)
      PROVE  AInv'
  <2>1. (disk' = disk \/ disk' = Saved(m)) /\ (svc' = m \/ svc' = undone)
    BY <1>3 DEF SaveChange
  <2> QED
    BY <1>0, <1>2, <1>3, <2>1, AuthSaved DEF AInv
<1>4. ASSUME NEW enabled \in BOOLEAN, NEW saveOK \in BOOLEAN, SetJoinEnabled(enabled, saveOK) PROVE AInv'
  <2> DEFINE m == [svc EXCEPT !.joinEnabled = enabled]
  <2>1. GoodService(m)
    BY <1>0 DEF GoodService, Service
  <2>2. /\ m.alloc = svc.alloc /\ m.roomKey = svc.roomKey /\ m.psks = svc.psks
        /\ m.running = svc.running /\ m.fixedRoom = svc.fixedRoom /\ m.pending = svc.pending
    BY <1>0 DEF Service
  <2>3. SaveChange(m, svc, saveOK)
    BY <1>4 DEF SetJoinEnabled
  <2> HIDE DEF m
  <2>4. AuthService(m)
    BY <1>0, <2>2, SameAuth
  <2> QED
    BY <1>0, <1>3, <2>1, <2>3, <2>4
<1>5. ASSUME NEW u \in UIDs, NEW saveOK \in BOOLEAN, UnblockUID(u, saveOK) PROVE AInv'
  <2> DEFINE m == [svc EXCEPT !.blocked = @ \ {u}]
  <2>1. GoodService(m)
    BY <1>0 DEF GoodService, Service
  <2>2. /\ m.alloc = svc.alloc /\ m.roomKey = svc.roomKey /\ m.psks = svc.psks
        /\ m.running = svc.running /\ m.fixedRoom = svc.fixedRoom /\ m.pending = svc.pending
    BY <1>0 DEF Service
  <2>3. SaveChange(m, svc, saveOK)
    BY <1>5 DEF UnblockUID
  <2> HIDE DEF m
  <2>4. AuthService(m)
    BY <1>0, <2>2, SameAuth
  <2> QED
    BY <1>0, <1>3, <2>1, <2>3, <2>4
<1>6. ASSUME NEW k \in Keys, NEW name \in Names, NEW saveOK \in BOOLEAN, RenameMember(k, name, saveOK) PROVE AInv'
  <2> DEFINE m == [svc EXCEPT !.alloc = Assign(@, k, name)]
             u == RenameUndone(svc)
  <2>1. HasLease(svc.alloc, k) /\ SaveChange(m, u, saveOK) /\ svc.alloc \in Allocator /\ Consistent(svc.alloc)
    BY <1>0, <1>6, ServiceFields DEF RenameMember, GoodService
  <2>2. CanAssign(svc.alloc, k)
    BY <2>1 DEF CanAssign
  <2>3. m.alloc = Assign(svc.alloc, k, name)
    BY <1>0 DEF Service
  <2>4. /\ m.roomKey = svc.roomKey /\ m.psks = svc.psks
        /\ m.running = svc.running /\ m.fixedRoom = svc.fixedRoom /\ m.pending = svc.pending
    BY <1>0 DEF Service
  <2>5. GoodService(m)
    BY <1>0, <2>1, <2>2, AssignGood DEF GoodService, Service
  <2>6. /\ u.roomKey = svc.roomKey /\ u.psks = svc.psks
        /\ u.running = svc.running /\ u.fixedRoom = svc.fixedRoom /\ u.pending = svc.pending
    BY <1>0 DEF RenameUndone, Service
  <2>7. \A l \in Keys : u.alloc.byKey[l] = svc.alloc.byKey[l]
    BY <1>0, RenameUndoneSame
  <2> HIDE DEF m, u
  <2>8. \A l \in Keys : HasLease(m.alloc, l) =>
           HasLease(svc.alloc, l) /\ m.alloc.byKey[l].enabled = svc.alloc.byKey[l].enabled
    BY <2>1, <2>2, <2>3, AssignFacts DEF HasLease
  <2>9. AuthService(m)
    BY <1>0, <2>4, <2>8, SameAuth
  <2>10. AuthService(u)
    BY <1>0, <2>6, <2>7, SameAuth DEF HasLease
  <2> QED
    BY <1>3, <2>1, <2>5, <2>9, <2>10
<1>7. ASSUME NEW saveOK \in BOOLEAN, RotateKey(saveOK) PROVE AInv'
  <2> DEFINE m == [svc EXCEPT !.roomKey = used.keys + 1]
  <2>1. /\ svc' = IF saveOK THEN m ELSE svc
        /\ disk' = IF saveOK /\ svc.fixedRoom THEN [disk EXCEPT !.secret = SecretOf(m)] ELSE disk
    BY <1>7 DEF RotateKey
  <2>2. used.keys + 1 # 0
    BY DEF TInv, UsedInv
  <2>3. /\ m.alloc = svc.alloc /\ m.roomKey = used.keys + 1 /\ m.psks = svc.psks
        /\ m.running = svc.running /\ m.fixedRoom = svc.fixedRoom /\ m.pending = svc.pending
    BY <1>0 DEF Service
  <2> HIDE DEF m
  <2>4. AuthService(m) /\ m.roomKey # 0
    BY <1>0, <2>2, <2>3, SameAuth
  <2>5. AuthDisk'
    <3>1. CASE disk' = [disk EXCEPT !.secret = SecretOf(m)]
      BY <1>0, <2>4, <3>1, AuthSecret
    <3>2. CASE disk' = disk
      BY <1>0, <3>2 DEF AuthDisk
    <3> QED
      BY <2>1, <3>1, <3>2
  <2> QED
    BY <1>0, <1>2, <2>1, <2>4, <2>5 DEF AInv
<1>8. ASSUME NEW k \in Keys, NEW block \in BOOLEAN, NEW removeOK \in BOOLEAN, NEW saveOK \in BOOLEAN,
             RemoveMember(k, block, removeOK, saveOK)
      PROVE  AInv'
  <2>1. CASE removeOK /\ saveOK
    <3>1. svc' = Removed(svc, k, block) /\ disk' = Saved(Removed(svc, k, block))
      BY <1>8, <2>1 DEF RemoveMember
    <3>2. GoodService(Removed(svc, k, block)) /\ AuthService(Removed(svc, k, block))
      BY <1>0, RemovedGood, DroppedAuth
    <3> QED
      BY <1>0, <1>2, <3>1, <3>2, AuthSaved DEF AInv
  <2>2. CASE ~(removeOK /\ saveOK)
    <3>1. svc' = RemoveUndone(svc, k) /\ disk' = disk
      BY <1>8, <2>2 DEF RemoveMember
    <3>2. /\ svc'.alloc = svc.alloc /\ svc'.roomKey = svc.roomKey /\ svc'.psks = svc.psks
          /\ svc'.running = svc.running /\ svc'.fixedRoom = svc.fixedRoom
          /\ svc'.pending = [svc.pending EXCEPT ![k] = NoPending]
      BY <1>0, <3>1 DEF RemoveUndone, Service
    <3>3. \A l \in Keys : svc'.pending[l] = NoPending \/ svc'.pending[l] = svc.pending[l]
      BY <1>0, <3>2, PendingAfter
    <3>4. AuthService(svc')
      BY <1>0, <3>2, <3>3, SameAuth
    <3> QED
      BY <1>0, <1>2, <3>1, <3>4 DEF AInv, AuthDisk
  <2> QED
    BY <2>1, <2>2
<1>9. ASSUME NEW online \in SUBSET Keys, NEW idle \in SUBSET Keys, UpdateMemberStats(online, idle) PROVE AInv'
  <2>1. svc' = StatsApplied(svc, online, idle) /\ disk' = disk
    BY <1>9 DEF UpdateMemberStats
  <2>2. /\ svc'.alloc = svc.alloc /\ svc'.roomKey = svc.roomKey /\ svc'.psks = svc.psks
        /\ svc'.running = svc.running /\ svc'.fixedRoom = svc.fixedRoom /\ svc'.pending = svc.pending
    BY <1>0, <2>1 DEF StatsApplied, Service
  <2>3. AuthService(svc')
    BY <1>0, <2>2, SameAuth
  <2> QED
    BY <1>0, <1>2, <2>1, <2>3 DEF AInv, AuthDisk
<1> QED
  BY <1>4, <1>5, <1>6, <1>7, <1>8, <1>9 DEF HostStep

(* Create, Start, Stop and crashes keep AInv; a crash between the two      *)
(* writes leaves a real room key in room.secret.                           *)
LEMMA LifeAuth ==
  ASSUME TInv, AInv, LifeStep
  PROVE  AInv'
<1>0. svc \in Service /\ GoodService(svc) /\ AuthService(svc) /\ AuthDisk /\ AuthConns /\ DiskInv /\ ConnInv
  BY DEF TInv, GoodService, AInv
<1>1. ASSUME NEW fixed \in RoomModes, CreateRoom(fixed) PROVE AInv'
  <2> DEFINE r == ClearedService(svc)
             m == CreatedRoom(svc, fixed, used.keys + 1)
  <2>1. svc' = m /\ disk' = Saved(m) /\ conns' = conns /\ used.keys < MaxRoomKeys
    BY <1>1 DEF CreateRoom
  <2>2. used.keys + 1 # 0 /\ used.keys + 1 \in PSKs /\ fixed \in BOOLEAN
    BY <2>1, RoomKeyAssumption, ModesAssumption DEF TInv, UsedInv, PSKs
  <2>3. m.alloc = r.alloc /\ m.pending = r.pending /\ m.psks = r.psks /\ m.roomKey = used.keys + 1
    BY DEF CreatedRoom, ClearedService, Cleared
  <2>4. GoodService(m) /\ AuthService(r)
    BY <1>0, <2>2, CreatedGood, ClearedAuth DEF ClearedService
  <2> HIDE DEF m, r
  <2>5. AuthService(m)
    BY <2>2, <2>3, <2>4, SameAuth
  <2> QED
    BY <1>0, <2>1, <2>4, <2>5, AuthSaved DEF AInv, AuthConns
<1>2. CASE StartRoom
  <2> DEFINE m == RestoredRoom(svc, disk.state, disk.secret)
  <2>1. svc' = m /\ disk' = [disk EXCEPT !.secret = SecretOf(m)] /\ conns' = conns /\ disk.secret.exists
    BY <1>2 DEF StartRoom
  <2>2. AuthService(m) /\ m.roomKey # 0
    BY <2>1, RestoredAuth
  <2> HIDE DEF m
  <2> QED
    BY <1>0, <2>1, <2>2, AuthSecret DEF AInv, AuthConns
<1>3. ASSUME NEW secretSaved \in BOOLEAN, StartFails(secretSaved) PROVE AInv'
  <2> DEFINE m == RestoredRoom(svc, disk.state, disk.secret)
  <2>1. /\ svc' = ClearedService(svc) /\ conns' = conns /\ disk.secret.exists
        /\ disk' = disk \/ disk' = [disk EXCEPT !.secret = SecretOf(m)]
    BY <1>3 DEF StartFails
  <2>2. m.roomKey # 0
    BY <2>1, RestoredAuth
  <2> HIDE DEF m
  <2>3. AuthDisk'
    <3>1. CASE disk' = disk
      BY <1>0, <3>1 DEF AuthDisk
    <3>2. CASE disk' = [disk EXCEPT !.secret = SecretOf(m)]
      BY <1>0, <2>2, <3>2, AuthSecret
    <3> QED
      BY <2>1, <3>1, <3>2
  <2> QED
    BY <1>0, <2>1, <2>3, ClearedAuth DEF AInv, AuthConns, ClearedService
<1>4. CASE StartRefused
  BY <1>0, <1>4, ClearedAuth DEF StartRefused, AInv, AuthConns, AuthDisk, ClearedService
<1>5. CASE StopRoom
  <2> DEFINE s == [svc EXCEPT !.running = FALSE, !.timers = [k \in Keys |-> 0]]
  <2>1. svc' = (IF svc.fixedRoom THEN s ELSE ClearedService(s)) /\ disk' = disk /\ conns' = conns
    BY <1>5 DEF StopRoom, StoppedRoom
  <2>2. /\ s.alloc = svc.alloc /\ s.pending = svc.pending /\ s.psks = svc.psks /\ s.roomKey = svc.roomKey
        /\ s.fixedRoom = svc.fixedRoom /\ s.running = FALSE
    BY <1>0 DEF Service
  <2> HIDE DEF s
  <2>3. AuthService(s) /\ AuthService(ClearedService(s))
    BY <1>0, <2>2, SameAuth, ClearedAuth DEF ClearedService
  <2> QED
    BY <1>0, <2>1, <2>3 DEF AInv, AuthConns, AuthDisk
<1>6. CASE StopNetwork
  BY <1>0, <1>6 DEF StopNetwork, AInv, AuthConns, AuthDisk
<1>7. CASE Crash
  BY <1>0, <1>7, LostAuth DEF Crash, AuthDisk
<1>8. CASE CrashWhileSaving
  <2>1. ASSUME NEW m, m.roomKey = svc.roomKey, SecretOnly(m) PROVE AInv'
    <3>1. m.roomKey # 0
      BY <1>0, <2>1 DEF SecretOnly, AuthService
    <3> QED
      BY <1>0, <2>1, <3>1, AuthSecret, LostAuth DEF SecretOnly
  <2>2. ASSUME NEW k, NEW name, NEW key, NEW existing
        PROVE  Assigned(svc, k, name, key, existing).roomKey = svc.roomKey
    BY <1>0 DEF Assigned, Service
  <2>3. ASSUME NEW k, NEW p
        PROVE  /\ RolledBack(svc, k, p).roomKey = svc.roomKey
               /\ Reclaimed(svc, k).roomKey = svc.roomKey
               /\ Removed(svc, k, FALSE).roomKey = svc.roomKey
    BY <1>0 DEF RolledBack, Reclaimed, Removed, Service
  <2>4. \E m : m.roomKey = svc.roomKey /\ SecretOnly(m)
    <3>1. CASE \E c \in Conns, name \in Names :
                 SecretOnly(Assigned(svc, conns[c].key, name, conns[c].roomKey, conns[c].existingAuth))
      BY <2>2, <3>1
    <3>2. CASE \E c \in Conns : SecretOnly(RolledBack(svc, conns[c].key, svc.pending[conns[c].key]))
      BY <2>3, <3>2
    <3>3. CASE \E t \in clock : SecretOnly(Reclaimed(svc, t.key))
      BY <2>3, <3>3
    <3>4. CASE \E k \in Keys : SecretOnly(Removed(svc, k, FALSE))
      BY <2>3, <3>4
    <3> QED
      BY <1>8, <3>1, <3>2, <3>3, <3>4 DEF CrashWhileSaving
  <2> QED
    BY <2>1, <2>4
<1> QED
  BY <1>1, <1>2, <1>3, <1>4, <1>5, <1>6, <1>7, <1>8 DEF LifeStep

(* Every step keeps AInv. *)
LEMMA NextAuth == TInv /\ AInv /\ [Next]_vars => AInv'
<1> SUFFICES ASSUME TInv, AInv, [Next]_vars PROVE AInv'
  OBVIOUS
<1>0. svc \in Service /\ GoodService(svc) /\ AuthService(svc) /\ AuthDisk /\ AuthConns
  BY DEF TInv, GoodService, AInv
<1>1. CASE TimerStep
  <2>1. PICK t \in clock : TimerExpires(t) \/ \E removeOK, saveOK \in BOOLEAN : TimerRuns(t, removeOK, saveOK)
    BY <1>1 DEF TimerStep
  <2>2. conns' = conns /\ t.key \in Keys
    BY <2>1 DEF TimerExpires, TimerRuns, TInv, Timers
  <2>3. CASE TimerExpires(t)
    BY <1>0, <2>3 DEF TimerExpires, AInv, AuthConns, AuthDisk
  <2>4. ASSUME NEW removeOK \in BOOLEAN, NEW saveOK \in BOOLEAN, TimerRuns(t, removeOK, saveOK) PROVE AInv'
    <3> DEFINE m == Reclaimed(svc, t.key)
    <3>1. CASE Reclaims(svc, t)
      <4>1. svc' = m /\ SaveIgnored(m, <<removeOK, saveOK>>)
        BY <2>4, <3>1 DEF TimerRuns
      <4>2. GoodService(m) /\ AuthService(m)
        BY <1>0, <2>2, ReclaimedGood, DroppedAuth
      <4> HIDE DEF m
      <4>3. disk' = disk \/ disk' = Saved(m)
        BY <4>1 DEF SaveIgnored
      <4> QED
        BY <1>0, <2>2, <4>1, <4>2, <4>3, AuthSaved DEF AInv, AuthConns
    <3>2. CASE ~Reclaims(svc, t)
      <4>1. svc' = [svc EXCEPT !.timers[t.key] = 0] /\ disk' = disk
        BY <2>4, <3>2 DEF TimerRuns
      <4>2. /\ svc'.alloc = svc.alloc /\ svc'.roomKey = svc.roomKey /\ svc'.psks = svc.psks
            /\ svc'.running = svc.running /\ svc'.fixedRoom = svc.fixedRoom /\ svc'.pending = svc.pending
        BY <1>0, <4>1 DEF Service
      <4>3. AuthService(svc')
        BY <1>0, <4>2, SameAuth
      <4> QED
        BY <1>0, <2>2, <4>1, <4>3 DEF AInv, AuthConns, AuthDisk
    <3> QED
      BY <3>1, <3>2
  <2> QED
    BY <2>1, <2>3, <2>4
<1>2. CASE UNCHANGED vars
  BY <1>0, <1>2 DEF vars, AInv, AuthConns, AuthDisk
<1> QED
  BY <1>1, <1>2, ConnAuth, HostAuth, LifeAuth DEF Next

(* AInv holds at first. *)
LEMMA InitAuth == Init => AInv
<1> SUFFICES ASSUME Init PROVE AInv
  OBVIOUS
<1>1. AuthService(svc)
  BY ClearedAuth DEF Init, FreshService
<1>2. AuthDisk
  BY DEF Init, AuthDisk, NoFile, NoSecret
<1>3. AuthConns
  BY ClosedConnTyped DEF Init, AuthConns
<1> QED
  BY <1>1, <1>2, <1>3 DEF AInv

(* Every device with a lease in a running room can authenticate without    *)
(* an invite: its lease is enabled and memberAuthKey finds its pre-shared  *)
(* key.                                                                    *)
MembersCanReturn == \A k \in Keys : svc.running /\ HasLease(svc.alloc, k) => HasAuthKey(svc, k)

(* No pairing, rollback, reclaim, removal, crash or restart leaves a       *)
(* member that would need a new invite: the leases and the pre-shared keys *)
(* of the service are kept and saved together.                             *)
THEOREM RoomMembersCanReturn == Spec => []MembersCanReturn
<1>1. AInv => MembersCanReturn
  BY DEF AInv, AuthService, MembersCanReturn, HasAuthKey, KnownMember
<1> QED
  BY <1>1, InitTyped, InitAuth, NextTyped, NextAuth, PTL DEF Spec

-----------------------------------------------------------------------------
(* A pending attempt of a room whose timers did not interfere still has    *)
(* its lease, at the address that the rollback would restore.              *)
PendingKept(m, k) ==
  m.pending[k] # NoPending =>
    /\ HasLease(m.alloc, k)
    /\ m.pending[k].previous # NoLease =>
         m.pending[k].previous.octet = m.alloc.byKey[k].octet /\ m.pending[k].previous.revision # 0

(* The invariant behind PeersMatch: a running room has its network up, its *)
(* pending attempts can be rolled back, and the peers are the leases.      *)
PInv ==
  /\ svc.running => wg.up
  /\ svc.running /\ ~hist.raced => \A k \in Keys : PendingKept(svc, k)
  /\ PeersMatch

(* A rollback is the same on the allocator and on the device: Restore is   *)
(* never refused while the attempt kept its lease, and the peer gets the   *)
(* restored address and pre-shared key, or goes with the lease.            *)
LEMMA RollbackMatches ==
  ASSUME NEW m, GoodService(m), AuthService(m), NEW w \in WireGuard, w.up, NEW k \in Keys,
         m.pending[k] # NoPending, PendingKept(m, k)
  PROVE  LET n == RolledBack(m, k, m.pending[k])
         IN /\ \A l \in Keys \ {k} : n.alloc.byKey[l] = m.alloc.byKey[l] /\ n.psks[l] = m.psks[l]
            /\ \A l \in Keys : (\A i \in Keys : PendingKept(m, i)) => PendingKept(n, l)
            /\ (\A l \in Keys \ {k} : w.peers[l] = PeersOf(m)[l])
                  => RolledBackPeers(w, k, m.pending[k]).peers = PeersOf(n)
<1> DEFINE p == m.pending[k]
           n == RolledBack(m, k, p)
           a == m.alloc
<1>0. m \in Service /\ a \in Allocator /\ Consistent(a) /\ p \in Pending /\ GoodService(n)
  <2>1. m \in Service /\ a \in Allocator /\ Consistent(a) /\ p \in Pending
    BY ServiceFields DEF GoodService
  <2> QED
    BY <2>1, RolledBackGood
<1>1. /\ n.pending = [m.pending EXCEPT ![k] = NoPending] /\ n.psks = [m.psks EXCEPT ![k] = p.previousPSK]
      /\ p.previous # NoLease => n.alloc = Restore(a, p.previous)
      /\ p.previous = NoLease => n.alloc = Remove(a, k)
  BY <1>0 DEF RolledBack, Service
<1> HIDE DEF n
<1>2. m.psks \in [Keys -> PSKs] /\ m.pending \in [Keys -> Pending]
  BY <1>0, ServiceFields
<1>3. n.psks[k] = p.previousPSK /\ \A l \in Keys \ {k} : n.psks[l] = m.psks[l]
  BY <1>1, <1>2
<1>4. n.pending[k] = NoPending /\ \A l \in Keys \ {k} : n.pending[l] = m.pending[l]
  BY <1>1, <1>2
<1>5. p.previous # NoLease => /\ p.previous \in Lease /\ p.previous.publicKey = k /\ p.previous.enabled
                              /\ p.previousPSK # 0 /\ CanRestore(a, p.previous)
  <2> SUFFICES ASSUME p.previous # NoLease
               PROVE  /\ p.previous \in Lease /\ p.previous.publicKey = k /\ p.previous.enabled
                      /\ p.previousPSK # 0 /\ CanRestore(a, p.previous)
    OBVIOUS
  <2>1. p.previous \in Lease /\ p.previous.publicKey = k /\ p.previous.enabled /\ p.previousPSK # 0
    BY <1>0 DEF Pending, AuthService
  <2>2. HasLease(a, k) /\ p.previous.octet = a.byKey[k].octet /\ p.previous.revision # 0
    BY DEF PendingKept
  <2>3. IsMemberAddress(p.previous)
    BY <1>0, <2>2 DEF Consistent, LeaseShape, IsMemberAddress
  <2> QED
    BY <2>1, <2>2, <2>3 DEF CanRestore
<1>6. \A l \in Keys \ {k} : n.alloc.byKey[l] = a.byKey[l]
  <2>1. CASE p.previous = NoLease
    BY <1>0, <1>1, <2>1, RemoveConsistent
  <2>2. CASE p.previous # NoLease
    BY <1>0, <1>1, <1>5, <2>2, RestoreConsistent
  <2> QED
    BY <2>1, <2>2
<1>7. ASSUME NEW l \in Keys, \A i \in Keys : PendingKept(m, i) PROVE PendingKept(n, l)
  BY <1>4, <1>6, <1>7 DEF PendingKept, HasLease
<1>8. ASSUME \A l \in Keys \ {k} : w.peers[l] = PeersOf(m)[l]
      PROVE  RolledBackPeers(w, k, p).peers = PeersOf(n)
  <2>1. \A l \in Keys \ {k} : w.peers[l] = PeersOf(n)[l]
    BY <1>3, <1>6, <1>8, PeerFields DEF HasLease
  <2>2. CASE p.previous = NoLease
    <3>1. ~HasLease(n.alloc, k)
      BY <1>0, <1>1, <2>2, RemoveConsistent
    <3> QED
      BY <2>1, <2>2, <3>1, RemovePeerMatches DEF RolledBackPeers
  <2>3. CASE p.previous # NoLease
    <3>1. n.alloc.byKey[k] = p.previous
      BY <1>0, <1>1, <1>5, <2>3, RestoreConsistent
    <3>2. RolledBackPeers(w, k, p) = SetPeer(w, k, p.previous, n.psks[k])
      BY <1>3, <1>5, <2>3 DEF RolledBackPeers
    <3>3. HasLease(n.alloc, k) /\ n.alloc.byKey[k].enabled /\ p.previous.octet = n.alloc.byKey[k].octet
      BY <1>5, <2>3, <3>1 DEF HasLease
    <3> QED
      BY <1>0, <2>1, <3>2, <3>3, SetPeerMatches
  <2> QED
    BY <2>2, <2>3
<1>9. /\ \A l \in Keys \ {k} : n.alloc.byKey[l] = m.alloc.byKey[l] /\ n.psks[l] = m.psks[l]
      /\ \A l \in Keys : (\A i \in Keys : PendingKept(m, i)) => PendingKept(n, l)
      /\ (\A l \in Keys \ {k} : w.peers[l] = PeersOf(m)[l])
            => RolledBackPeers(w, k, p).peers = PeersOf(n)
  BY <1>3, <1>6, <1>7, <1>8
<1> QED
  BY <1>9 DEF n

(* A step that leaves the device alone and changes no lease, no pre-shared *)
(* key and no attempt, unless it ends one.                                 *)
LEMMA PeersKept ==
  ASSUME TInv, PInv, svc'.running => svc.running,
         wg' = wg \/ ((hist'.raced \/ hist'.wgFailed) /\ wg'.up = wg.up),
         hist.raced => hist'.raced, hist.wgFailed => hist'.wgFailed,
         \A k \in Keys : /\ HasLease(svc'.alloc, k) <=> HasLease(svc.alloc, k)
                         /\ HasLease(svc'.alloc, k) => /\ svc'.alloc.byKey[k].octet = svc.alloc.byKey[k].octet
                                                       /\ svc'.alloc.byKey[k].enabled = svc.alloc.byKey[k].enabled
                                                       /\ svc'.psks[k] = svc.psks[k]
                         /\ svc'.pending[k] = NoPending \/ svc'.pending[k] = svc.pending[k]
  PROVE  PInv'
<1>1. svc'.running => wg'.up
  BY DEF PInv
<1>2. ASSUME svc'.running, ~hist'.raced, NEW k \in Keys PROVE PendingKept(svc', k)
  <2>1. PendingKept(svc, k)
    BY <1>2 DEF PInv
  <2> QED
    BY <1>2, <2>1 DEF PendingKept
<1>3. ASSUME svc'.running, ~hist'.raced, ~hist'.wgFailed PROVE wg'.peers = PeersOf(svc')
  <2>1. wg'.peers = PeersOf(svc)
    BY <1>3 DEF PInv, PeersMatch
  <2>2. \A k \in Keys : PeersOf(svc')[k] = PeersOf(svc)[k]
    BY PeerFields
  <2>3. PeersOf(svc') = PeersOf(svc)
    BY <2>2 DEF PeersOf
  <2> QED
    BY <2>1, <2>3
<1> QED
  BY <1>1, <1>2, <1>3 DEF PInv, PeersMatch

(* The pairing connections keep PInv, also when applyPeer or the save      *)
(* fails.                                                                  *)
LEMMA ConnPeers ==
  ASSUME TInv, AInv, PInv, NEW c \in Conns, ConnStep(c)
  PROVE  PInv'
<1>0. /\ svc \in Service /\ GoodService(svc) /\ AuthService(svc) /\ AuthConns /\ ConnInv
      /\ conns \in [Conns -> ConnRecords] /\ wg \in WireGuard /\ hist \in Histories
  BY DEF TInv, GoodService, AInv, ConnInv
<1>1. CASE \/ Connect(c) \/ RequestFails(c) \/ AssignRefused(c) \/ PairSuperseded(c)
           \/ ReportKnown(c) \/ ReportListed(c) \/ ControlEnds(c)
           \/ \E k \in Keys, existingAuth \in BOOLEAN : Request(c, k, existingAuth)
  <2>1. UNCHANGED <<svc, wg, hist>>
    BY <1>1 DEF Connect, RequestFails, AssignRefused, PairSuperseded, ReportKnown, ReportListed, ControlEnds, Request
  <2> QED
    BY <2>1, PeersKept
<1>2. CASE ReportStats(c)
  <2>1. UNCHANGED <<wg, hist>>
    BY <1>2 DEF ReportStats
  <2>2. /\ svc'.alloc = svc.alloc /\ svc'.psks = svc.psks
        /\ svc'.running = svc.running /\ svc'.pending = svc.pending
    BY <1>0, <1>2 DEF ReportStats, Service
  <2> QED
    BY <2>1, <2>2, PeersKept
<1>3. ASSUME NEW name \in Names, NEW applyOK \in BOOLEAN, NEW saveOK \in BOOLEAN,
             AssignLease(c, name, applyOK, saveOK)
      PROVE  PInv'
  <2> DEFINE k == conns[c].key
             existing == conns[c].existingAuth
             m == Assigned(svc, k, name, conns[c].roomKey, existing)
             item == m.alloc.byKey[k]
             applied == IF existing THEN wg ELSE SetPeer(wg, k, item, m.psks[k])
             p == m.pending[k]
  <2>1. conns[c].pc = "vetted" /\ MayAssign(svc, k, existing)
    BY <1>3 DEF AssignLease
  <2>2. k \in Keys /\ conns[c].roomKey \in PSKs /\ existing \in BOOLEAN
    BY <1>0, <2>1, ConnFields
  <2>3. CanAssign(svc.alloc, k) /\ conns[c].roomKey # 0 /\ svc.running /\ wg.up
    BY <1>0, <2>1 DEF MayAssign, AuthConns, PInv
  <2>4. svc.alloc \in Allocator /\ Consistent(svc.alloc) /\ svc.pairAttempt \in Nat
    BY <1>0, ServiceFields DEF GoodService
  <2>5. GoodService(m) /\ p \in Pending /\ m \in Service
    BY <1>0, <2>2, <2>3, AssignedGood DEF GoodService
  <2>6. AuthService(m)
    BY <1>0, <2>1, <2>2, <2>3, AssignedAuth
  <2>7. /\ p.previous = svc.alloc.byKey[k] /\ p.token = m.pairAttempt
        /\ \A l \in Keys \ {k} : m.pending[l] = svc.pending[l] /\ m.psks[l] = svc.psks[l]
    BY <1>0, <2>2, <2>3, AssignedGood
  <2>8. m.alloc = Assign(svc.alloc, k, name) /\ m.running = svc.running /\ m.pairAttempt = svc.pairAttempt + 1
    BY <1>0 DEF Assigned, Service
  <2>9. existing => m.psks = svc.psks /\ HasLease(svc.alloc, k)
    <3>1. m.psks = [svc.psks EXCEPT ![k] = IF existing THEN svc.psks[k] ELSE conns[c].roomKey]
      BY <1>0 DEF Assigned, Service
    <3>2. svc.psks \in [Keys -> PSKs]
      BY <1>0, ServiceFields
    <3> QED
      BY <2>1, <2>2, <3>1, <3>2 DEF MayAssign
  <2> HIDE DEF m
  <2>10. /\ HasLease(m.alloc, k) /\ item \in Lease /\ item.enabled
         /\ \A l \in Keys \ {k} : m.alloc.byKey[l] = svc.alloc.byKey[l]
         /\ HasLease(svc.alloc, k) => item.octet = svc.alloc.byKey[k].octet
    <3>1. HasLease(m.alloc, k) /\ item \in Lease
      BY <2>2, <2>3, <2>4, <2>8, AssignGood
    <3>2. item.enabled
      BY <2>2, <2>6, <3>1 DEF AuthService
    <3>3. /\ \A l \in Keys \ {k} : m.alloc.byKey[l] = svc.alloc.byKey[l]
          /\ HasLease(svc.alloc, k) => item.octet = svc.alloc.byKey[k].octet
      <4>1. LET b == Assign(svc.alloc, k, name)
            IN /\ \A l \in Keys \ {k} : b.byKey[l] = svc.alloc.byKey[l]
               /\ HasLease(svc.alloc, k) => b.byKey[k].octet = svc.alloc.byKey[k].octet
        BY <2>2, <2>3, <2>4, AssignFacts
      <4> QED
        BY <2>8, <4>1
    <3> QED
      BY <3>1, <3>2, <3>3
  <2>11. p # NoPending /\ PendingKept(m, k)
    <3>1. p.token # 0
      BY <2>4, <2>7, <2>8
    <3>2. p # NoPending
      <4>1. NoPending.token = 0
        BY DEF NoPending
      <4> QED
        BY <3>1, <4>1
    <3>3. HasLease(svc.alloc, k) => svc.alloc.byKey[k].revision # 0
      BY <2>2, <2>4, AllocatorFields DEF Consistent, LeaseShape
    <3> QED
      BY <2>7, <2>10, <3>2, <3>3 DEF PendingKept, HasLease
  <2>12. ASSUME ~hist.raced, NEW l \in Keys PROVE PendingKept(m, l)
    <3>1. CASE l = k
      BY <2>11, <3>1
    <3>2. CASE l # k
      <4>1. PendingKept(svc, l)
        BY <2>3, <2>12 DEF PInv
      <4> QED
        BY <2>7, <2>10, <3>2, <4>1 DEF PendingKept, HasLease
    <3> QED
      BY <3>1, <3>2
  <2>13. applied \in WireGuard /\ applied.up
    <3>1. m.psks[k] \in PSKs
      BY <2>2, <2>5, ServiceFields
    <3>2. SetPeer(wg, k, item, m.psks[k]) \in WireGuard /\ SetPeer(wg, k, item, m.psks[k]).up
      BY <1>0, <2>2, <2>3, <2>10, <3>1, PeersTyped, PeerCallsUp
    <3> QED
      BY <1>0, <2>3, <3>2
  <2>14. ASSUME ~hist.raced, ~hist.wgFailed PROVE applied.peers = PeersOf(m)
    <3>1. wg.peers = PeersOf(svc)
      BY <2>3, <2>14 DEF PInv, PeersMatch
    <3>2. \A l \in Keys \ {k} : wg.peers[l] = PeersOf(m)[l]
      BY <2>7, <2>10, <3>1, PeerFields DEF HasLease
    <3>3. CASE existing
      <4>1. wg.peers[k] = PeersOf(m)[k]
        <5>1. svc.alloc.byKey[k].enabled
          BY <1>0, <2>2, <2>9, <3>3 DEF AuthService
        <5> QED
          BY <2>2, <2>9, <2>10, <3>1, <3>3, <5>1 DEF PeersOf
      <4>2. \A l \in Keys : wg.peers[l] = PeersOf(m)[l]
        BY <3>2, <4>1
      <4> QED
        BY <3>1, <3>3, <4>2 DEF PeersOf
    <3>4. CASE ~existing
      BY <1>0, <2>2, <2>3, <2>5, <2>10, <3>2, <3>4, SetPeerMatches
    <3> QED
      BY <2>2, <3>3, <3>4
  <2>15. CASE applyOK /\ saveOK
    <3>1. svc' = m /\ wg' = applied /\ hist' = [hist EXCEPT !.unsaved = @ /\ ~svc.fixedRoom]
      BY <1>3, <2>15 DEF AssignLease, m
    <3>2. hist'.raced = hist.raced /\ hist'.wgFailed = hist.wgFailed
      BY <1>0, <3>1 DEF Histories
    <3> HIDE DEF applied
    <3> QED
      BY <2>12, <2>13, <2>14, <3>1, <3>2 DEF PInv, PeersMatch
  <2>16. CASE ~(applyOK /\ saveOK)
    <3> DEFINE w == IF applyOK THEN applied ELSE wg
    <3>1. /\ svc' = RolledBack(m, k, p) /\ wg' = RolledBackPeers(w, k, p)
          /\ hist' = [hist EXCEPT !.wgFailed = @ \/ ~applyOK]
      BY <1>3, <2>16 DEF AssignLease, m
    <3>2. hist'.raced = hist.raced /\ (~hist'.wgFailed => ~hist.wgFailed /\ applyOK)
      BY <1>0, <3>1 DEF Histories
    <3>3. w \in WireGuard /\ w.up
      BY <1>0, <2>3, <2>13
    <3>4. ~hist'.raced /\ ~hist'.wgFailed => w.peers = PeersOf(m)
      BY <2>14, <3>2
    <3> HIDE DEF applied, w, p
    <3>5. wg'.up
      BY <2>2, <3>1, <3>3, RolledBackPeersUp
    <3>6. ~hist'.raced => \A l \in Keys : PendingKept(svc', l)
      BY <2>2, <2>5, <2>6, <2>11, <2>12, <3>1, <3>2, <3>3, RollbackMatches DEF p
    <3>7. ~hist'.raced /\ ~hist'.wgFailed => wg'.peers = PeersOf(svc')
      BY <2>2, <2>5, <2>6, <2>11, <3>1, <3>3, <3>4, RollbackMatches DEF p
    <3> QED
      BY <3>5, <3>6, <3>7 DEF PInv, PeersMatch
  <2> QED
    BY <2>15, <2>16
<1>4. ASSUME NEW saveOK \in BOOLEAN, PairRolledBack(c, saveOK) PROVE PInv'
  <2> DEFINE k == conns[c].key
             p == svc.pending[k]
  <2>1. /\ conns[c].pc = "leased" /\ p.token = conns[c].token
        /\ svc' = RolledBack(svc, k, p) /\ wg' = RolledBackPeers(wg, k, p)
        /\ hist' = [hist EXCEPT !.unsaved = svc.fixedRoom /\ ~saveOK]
    BY <1>4 DEF PairRolledBack
  <2>2. k \in Keys /\ conns[c].token # 0
    BY <1>0, <2>1, ConnFields DEF AuthConns
  <2>3. p # NoPending
    <3>1. NoPending.token = 0
      BY DEF NoPending
    <3> QED
      BY <2>1, <2>2, <3>1
  <2>4. hist'.raced = hist.raced /\ hist'.wgFailed = hist.wgFailed
    BY <1>0, <2>1 DEF Histories
  <2>5. svc'.running = svc.running
    BY <1>0, <2>1 DEF RolledBack, Service
  <2>6. svc.running => wg'.up
    BY <1>0, <2>1, <2>2, RolledBackPeersUp DEF PInv
  <2>7. ASSUME svc.running, ~hist.raced
        PROVE  /\ \A l \in Keys : PendingKept(svc', l)
               /\ ~hist.wgFailed => wg'.peers = PeersOf(svc')
    <3>1. wg.up /\ \A l \in Keys : PendingKept(svc, l)
      BY <2>7 DEF PInv
    <3>2. ~hist.wgFailed => wg.peers = PeersOf(svc)
      BY <2>7 DEF PInv, PeersMatch
    <3> QED
      BY <1>0, <2>1, <2>2, <2>3, <3>1, <3>2, RollbackMatches
  <2> QED
    BY <2>4, <2>5, <2>6, <2>7 DEF PInv, PeersMatch
<1>5. CASE PairLeftToTimer(c)
  <2> DEFINE k == conns[c].key
  <2>1. /\ conns[c].pc = "leased" /\ UNCHANGED <<wg, hist>>
        /\ svc' = [svc EXCEPT !.pending[k] = NoPending, !.timers[k] = svc.pending[k].token]
    BY <1>5 DEF PairLeftToTimer
  <2>2. k \in Keys
    BY <1>0, <2>1, ConnFields
  <2>3. /\ svc'.alloc = svc.alloc /\ svc'.psks = svc.psks /\ svc'.running = svc.running
        /\ svc'.pending = [svc.pending EXCEPT ![k] = NoPending]
    BY <1>0, <2>1, <2>2 DEF Service
  <2>4. \A l \in Keys : svc'.pending[l] = NoPending \/ svc'.pending[l] = svc.pending[l]
    BY <1>0, <2>2, <2>3, PendingAfter
  <2> QED
    BY <2>1, <2>3, <2>4, PeersKept
<1>6. CASE PairAck(c)
  <2> DEFINE k == conns[c].key
  <2>1. conns[c].pc = "leased" /\ wg' = wg
    BY <1>6 DEF PairAck
  <2>2. k \in Keys
    BY <1>0, <2>1, ConnFields
  <2>3. CASE svc' = Acknowledged(svc, k) /\ hist' = [hist EXCEPT !.acked = @ \cup {k}]
    <3>1. /\ svc'.alloc = svc.alloc /\ svc'.psks = svc.psks /\ svc'.running = svc.running
          /\ svc'.pending = [svc.pending EXCEPT ![k] = NoPending]
      BY <1>0, <2>2, <2>3 DEF Acknowledged, Service
    <3>2. \A l \in Keys : svc'.pending[l] = NoPending \/ svc'.pending[l] = svc.pending[l]
      BY <1>0, <2>2, <3>1, PendingAfter
    <3>3. hist'.raced = hist.raced /\ hist'.wgFailed = hist.wgFailed
      BY <1>0, <2>3 DEF Histories
    <3> QED
      BY <2>1, <3>1, <3>2, <3>3, PeersKept
  <2>4. CASE UNCHANGED <<svc, hist>>
    BY <2>1, <2>4, PeersKept
  <2> QED
    BY <1>6, <2>3, <2>4 DEF PairAck
<1> QED
  BY <1>1, <1>2, <1>3, <1>4, <1>5, <1>6 DEF ConnStep

(* A reclaiming timer removes the peer with the lease; one that hits a     *)
(* pending attempt sets raced.                                             *)
LEMMA TimerPeers ==
  ASSUME TInv, AInv, PInv, TimerStep
  PROVE  PInv'
<1>0. svc \in Service /\ GoodService(svc) /\ AuthService(svc) /\ wg \in WireGuard /\ hist \in Histories
  BY DEF TInv, GoodService, AInv
<1>1. PICK t \in clock : TimerExpires(t) \/ \E removeOK, saveOK \in BOOLEAN : TimerRuns(t, removeOK, saveOK)
  BY DEF TimerStep
<1>2. CASE TimerExpires(t)
  BY <1>2, PeersKept DEF TimerExpires
<1>3. ASSUME NEW removeOK \in BOOLEAN, NEW saveOK \in BOOLEAN, TimerRuns(t, removeOK, saveOK) PROVE PInv'
  <2> DEFINE k == t.key
             m == Reclaimed(svc, k)
  <2>1. k \in Keys
    BY DEF TInv, Timers
  <2>2. CASE Reclaims(svc, t)
    <3>1. /\ svc' = m /\ wg' = IF removeOK THEN RemovePeer(wg, k) ELSE wg
          /\ hist' = [hist EXCEPT !.raced = @ \/ svc.pending[k] # NoPending,
                                  !.wgFailed = @ \/ ~removeOK,
                                  !.unsaved = IF svc.fixedRoom THEN ~saveOK ELSE @]
      BY <1>3, <2>2 DEF TimerRuns
    <3>2. /\ ~hist'.raced => ~hist.raced /\ svc.pending[k] = NoPending
          /\ ~hist'.wgFailed => ~hist.wgFailed /\ removeOK
      BY <1>0, <3>1 DEF Histories
    <3>3. /\ svc'.alloc = Remove(svc.alloc, k) /\ svc'.psks = [svc.psks EXCEPT ![k] = 0]
          /\ svc'.pending = svc.pending /\ svc'.running = svc.running
      BY <1>0, <3>1 DEF Reclaimed, Service
    <3>4. /\ ~HasLease(svc'.alloc, k)
          /\ \A l \in Keys \ {k} : svc'.alloc.byKey[l] = svc.alloc.byKey[l] /\ svc'.psks[l] = svc.psks[l]
      BY <1>0, <2>1, <3>3, ServiceFields, RemoveConsistent DEF GoodService
    <3>5. svc'.running => wg'.up
      BY <1>0, <2>1, <3>1, <3>3, PeerCallsUp DEF PInv
    <3>6. ASSUME svc'.running, ~hist'.raced, NEW l \in Keys PROVE PendingKept(svc', l)
      <4>1. PendingKept(svc, l) /\ svc.pending[k] = NoPending
        BY <3>2, <3>3, <3>6 DEF PInv
      <4> QED
        BY <3>3, <3>4, <4>1 DEF PendingKept, HasLease
    <3>7. ASSUME svc'.running, ~hist'.raced, ~hist'.wgFailed PROVE wg'.peers = PeersOf(svc')
      <4>1. wg.up /\ wg.peers = PeersOf(svc) /\ wg' = RemovePeer(wg, k)
        BY <3>1, <3>2, <3>3, <3>7 DEF PInv, PeersMatch
      <4>2. \A l \in Keys \ {k} : wg.peers[l] = PeersOf(svc')[l]
        BY <3>4, <4>1, PeerFields DEF HasLease
      <4> QED
        BY <1>0, <2>1, <3>4, <4>1, <4>2, RemovePeerMatches
    <3> QED
      BY <3>5, <3>6, <3>7 DEF PInv, PeersMatch
  <2>3. CASE ~Reclaims(svc, t)
    <3>1. svc' = [svc EXCEPT !.timers[k] = 0] /\ UNCHANGED <<wg, hist>>
      BY <1>3, <2>3 DEF TimerRuns
    <3>2. /\ svc'.alloc = svc.alloc /\ svc'.psks = svc.psks
          /\ svc'.running = svc.running /\ svc'.pending = svc.pending
      BY <1>0, <3>1 DEF Service
    <3> QED
      BY <3>1, <3>2, PeersKept
  <2> QED
    BY <2>2, <2>3
<1> QED
  BY <1>1, <1>2, <1>3

(* Removing a member removes its peer, and the undo puts the same peer     *)
(* back.                                                                   *)
LEMMA RemovePeers ==
  ASSUME TInv, AInv, PInv, NEW k \in Keys, NEW block \in BOOLEAN, NEW removeOK \in BOOLEAN, NEW saveOK \in BOOLEAN,
         RemoveMember(k, block, removeOK, saveOK)
  PROVE  PInv'
<1>0. /\ svc \in Service /\ GoodService(svc) /\ AuthService(svc) /\ wg \in WireGuard /\ hist \in Histories
      /\ svc.running /\ wg.up /\ HasLease(svc.alloc, k)
  BY DEF TInv, GoodService, AInv, PInv, RemoveMember
<1>1. CASE removeOK /\ saveOK
  <2> DEFINE m == Removed(svc, k, block)
  <2>1. /\ svc' = m /\ wg' = RemovePeer(wg, k)
        /\ hist' = [hist EXCEPT !.acked = @ \ {k}, !.unsaved = @ /\ ~svc.fixedRoom]
    BY <1>1 DEF RemoveMember
  <2>2. hist'.raced = hist.raced /\ hist'.wgFailed = hist.wgFailed
    BY <1>0, <2>1 DEF Histories
  <2>3. m.alloc = Remove(svc.alloc, k) /\ m.psks = [svc.psks EXCEPT ![k] = 0]
    BY <1>0 DEF Removed, Service
  <2>4. m.pending = [svc.pending EXCEPT ![k] = NoPending]
    BY <1>0, RemovedGood
  <2> HIDE DEF m
  <2>5. /\ ~HasLease(m.alloc, k)
        /\ \A l \in Keys \ {k} : m.alloc.byKey[l] = svc.alloc.byKey[l] /\ m.psks[l] = svc.psks[l]
    BY <1>0, <2>3, ServiceFields, RemoveConsistent DEF GoodService
  <2>6. m.pending[k] = NoPending /\ \A l \in Keys \ {k} : m.pending[l] = svc.pending[l]
    BY <1>0, <2>4, ServiceFields
  <2>7. wg'.up
    BY <1>0, <2>1, PeerCallsUp
  <2>8. ASSUME ~hist'.raced, NEW l \in Keys PROVE PendingKept(svc', l)
    <3>1. PendingKept(svc, l)
      BY <1>0, <2>2, <2>8 DEF PInv
    <3> QED
      BY <2>1, <2>5, <2>6, <3>1 DEF PendingKept, HasLease
  <2>9. ASSUME ~hist'.raced, ~hist'.wgFailed PROVE wg'.peers = PeersOf(svc')
    <3>1. wg.peers = PeersOf(svc)
      BY <1>0, <2>2, <2>9 DEF PInv, PeersMatch
    <3>2. \A l \in Keys \ {k} : wg.peers[l] = PeersOf(m)[l]
      BY <2>5, <3>1, PeerFields DEF HasLease
    <3> QED
      BY <1>0, <2>1, <2>5, <3>2, RemovePeerMatches
  <2> QED
    BY <2>7, <2>8, <2>9 DEF PInv, PeersMatch
<1>2. CASE ~(removeOK /\ saveOK)
  <2>1. /\ svc' = RemoveUndone(svc, k)
        /\ wg' = IF removeOK /\ svc.psks[k] # 0
                   THEN SetPeer(RemovePeer(wg, k), k, svc.alloc.byKey[k], svc.psks[k]) ELSE wg
        /\ hist' = [hist EXCEPT !.wgFailed = @ \/ ~removeOK]
    BY <1>2 DEF RemoveMember
  <2>2. /\ svc'.alloc = svc.alloc /\ svc'.psks = svc.psks /\ svc'.running = svc.running
        /\ svc'.pending = [svc.pending EXCEPT ![k] = NoPending]
    BY <1>0, <2>1 DEF RemoveUndone, Service
  <2>3. \A l \in Keys : svc'.pending[l] = NoPending \/ svc'.pending[l] = svc.pending[l]
    BY <1>0, <2>2, PendingAfter
  <2>4. hist'.raced = hist.raced /\ (hist.wgFailed => hist'.wgFailed)
    BY <1>0, <2>1 DEF Histories
  <2>5. wg' = wg \/ ((hist'.raced \/ hist'.wgFailed) /\ wg'.up = wg.up)
    <3>1. CASE ~removeOK
      BY <2>1, <3>1
    <3>2. CASE removeOK
      <4> DEFINE w == RemovePeer(wg, k)
                 x == SetPeer(w, k, svc.alloc.byKey[k], svc.psks[k])
      <4>1. wg' = x
        <5>1. svc.psks[k] # 0
          BY <1>0 DEF AuthService
        <5> QED
          BY <2>1, <3>2, <5>1
      <4>2. w \in WireGuard /\ w.up /\ \A l \in Keys \ {k} : w.peers[l] = wg.peers[l]
        BY <1>0, RemovePeerTyped, PeerCallsUp DEF RemovePeer, WireGuard
      <4> HIDE DEF w
      <4>3. svc.alloc.byKey[k] \in Lease /\ svc.alloc.byKey[k].enabled /\ svc.psks[k] \in PSKs
        BY <1>0, ServiceFields, AllocatorFields DEF AuthService
      <4>4. x \in WireGuard /\ x.up
        BY <4>2, <4>3, PeersTyped, PeerCallsUp
      <4>5. CASE ~hist.raced /\ ~hist.wgFailed
        <5>1. wg.peers = PeersOf(svc)
          BY <1>0, <4>5 DEF PInv, PeersMatch
        <5>2. x.peers = PeersOf(svc)
          BY <1>0, <4>2, <4>3, <5>1, SetPeerMatches
        <5> HIDE DEF x
        <5> QED
          BY <1>0, <4>1, <4>4, <5>1, <5>2 DEF WireGuard
      <4>6. CASE hist.raced \/ hist.wgFailed
        BY <1>0, <2>4, <4>1, <4>4, <4>6 DEF WireGuard
      <4> QED
        BY <4>5, <4>6
    <3> QED
      BY <3>1, <3>2
  <2> QED
    BY <2>2, <2>3, <2>4, <2>5, PeersKept
<1> QED
  BY <1>1, <1>2

(* The commands of the host keep PInv. *)
LEMMA HostPeers ==
  ASSUME TInv, AInv, PInv, HostStep
  PROVE  PInv'
<1>0. svc \in Service /\ GoodService(svc) /\ hist \in Histories
  BY DEF TInv, GoodService
<1>1. ASSUME NEW m, NEW undone, NEW saveOK \in BOOLEAN, SaveChange(m, undone, saveOK),
             \A n \in {m, undone} :
               /\ n.running = svc.running /\ n.pending = svc.pending /\ n.psks = svc.psks
               /\ \A k \in Keys : /\ HasLease(n.alloc, k) <=> HasLease(svc.alloc, k)
                                  /\ HasLease(n.alloc, k) => /\ n.alloc.byKey[k].octet = svc.alloc.byKey[k].octet
                                                             /\ n.alloc.byKey[k].enabled = svc.alloc.byKey[k].enabled
      PROVE  PInv'
  <2>1. wg' = wg /\ svc' \in {m, undone}
    BY <1>1 DEF SaveChange
  <2>2. hist'.raced = hist.raced /\ hist'.wgFailed = hist.wgFailed
    BY <1>0, <1>1 DEF SaveChange, Histories
  <2> QED
    BY <1>1, <2>1, <2>2, PeersKept
<1>2. ASSUME NEW enabled \in BOOLEAN, NEW saveOK \in BOOLEAN, SetJoinEnabled(enabled, saveOK) PROVE PInv'
  <2> DEFINE m == [svc EXCEPT !.joinEnabled = enabled]
  <2>1. m.alloc = svc.alloc /\ m.psks = svc.psks /\ m.running = svc.running /\ m.pending = svc.pending
    BY <1>0 DEF Service
  <2>2. SaveChange(m, svc, saveOK)
    BY <1>2 DEF SetJoinEnabled
  <2> HIDE DEF m
  <2> QED
    BY <1>1, <2>1, <2>2
<1>3. ASSUME NEW u \in UIDs, NEW saveOK \in BOOLEAN, UnblockUID(u, saveOK) PROVE PInv'
  <2> DEFINE m == [svc EXCEPT !.blocked = @ \ {u}]
  <2>1. m.alloc = svc.alloc /\ m.psks = svc.psks /\ m.running = svc.running /\ m.pending = svc.pending
    BY <1>0 DEF Service
  <2>2. SaveChange(m, svc, saveOK)
    BY <1>3 DEF UnblockUID
  <2> HIDE DEF m
  <2> QED
    BY <1>1, <2>1, <2>2
<1>4. ASSUME NEW k \in Keys, NEW name \in Names, NEW saveOK \in BOOLEAN, RenameMember(k, name, saveOK) PROVE PInv'
  <2> DEFINE m == [svc EXCEPT !.alloc = Assign(@, k, name)]
             u == RenameUndone(svc)
  <2>1. HasLease(svc.alloc, k) /\ SaveChange(m, u, saveOK) /\ svc.alloc \in Allocator /\ Consistent(svc.alloc)
    BY <1>0, <1>4, ServiceFields DEF RenameMember, GoodService
  <2>2. CanAssign(svc.alloc, k)
    BY <2>1 DEF CanAssign
  <2>3. /\ m.alloc = Assign(svc.alloc, k, name)
        /\ m.psks = svc.psks /\ m.running = svc.running /\ m.pending = svc.pending
    BY <1>0 DEF Service
  <2>4. u.psks = svc.psks /\ u.running = svc.running /\ u.pending = svc.pending
    BY <1>0 DEF RenameUndone, Service
  <2>5. \A l \in Keys : u.alloc.byKey[l] = svc.alloc.byKey[l]
    BY <1>0, RenameUndoneSame
  <2> HIDE DEF m, u
  <2>6. ASSUME NEW l \in Keys
        PROVE  /\ HasLease(m.alloc, l) <=> HasLease(svc.alloc, l)
               /\ HasLease(m.alloc, l) => /\ m.alloc.byKey[l].octet = svc.alloc.byKey[l].octet
                                          /\ m.alloc.byKey[l].enabled = svc.alloc.byKey[l].enabled
    BY <2>1, <2>2, <2>3, AssignFacts DEF HasLease
  <2>7. ASSUME NEW l \in Keys
        PROVE  /\ HasLease(u.alloc, l) <=> HasLease(svc.alloc, l)
               /\ HasLease(u.alloc, l) => /\ u.alloc.byKey[l].octet = svc.alloc.byKey[l].octet
                                          /\ u.alloc.byKey[l].enabled = svc.alloc.byKey[l].enabled
    BY <2>5 DEF HasLease
  <2> QED
    BY <1>1, <2>1, <2>3, <2>4, <2>6, <2>7
<1>5. ASSUME NEW saveOK \in BOOLEAN, RotateKey(saveOK) PROVE PInv'
  <2> DEFINE m == [svc EXCEPT !.roomKey = used.keys + 1]
  <2>1. svc' \in {m, svc} /\ UNCHANGED <<wg, hist>>
    BY <1>5 DEF RotateKey
  <2>2. m.alloc = svc.alloc /\ m.psks = svc.psks /\ m.running = svc.running /\ m.pending = svc.pending
    BY <1>0 DEF Service
  <2> HIDE DEF m
  <2> QED
    BY <2>1, <2>2, PeersKept
<1>6. ASSUME NEW online \in SUBSET Keys, NEW idle \in SUBSET Keys, UpdateMemberStats(online, idle) PROVE PInv'
  <2>1. svc' = StatsApplied(svc, online, idle) /\ UNCHANGED <<wg, hist>>
    BY <1>6 DEF UpdateMemberStats
  <2>2. /\ svc'.alloc = svc.alloc /\ svc'.psks = svc.psks
        /\ svc'.running = svc.running /\ svc'.pending = svc.pending
    BY <1>0, <2>1 DEF StatsApplied, Service
  <2> QED
    BY <2>1, <2>2, PeersKept
<1> QED
  BY <1>2, <1>3, <1>4, <1>5, <1>6, RemovePeers DEF HostStep

(* Create and Start build the peers from the leases; a room that is        *)
(* stopped or lost owes nothing.                                           *)
LEMMA LifePeers ==
  ASSUME TInv, AInv, PInv, LifeStep
  PROVE  PInv'
<1>0. svc \in Service /\ GoodService(svc)
  BY DEF TInv, GoodService
<1>1. ASSUME ~svc'.running PROVE PInv'
  BY <1>1 DEF PInv, PeersMatch
<1>2. \A n, timers : /\ Cleared(n, timers).running = FALSE
                     /\ \A k \in Keys : Cleared(n, timers).pending[k] = NoPending
  BY DEF Cleared
<1>3. ASSUME NEW fixed \in RoomModes, CreateRoom(fixed) PROVE PInv'
  <2> DEFINE r == ClearedService(svc)
             m == CreatedRoom(svc, fixed, used.keys + 1)
  <2>1. svc' = m /\ wg' = NetworkUp
    BY <1>3 DEF CreateRoom
  <2>2. m.alloc = r.alloc /\ m.pending = r.pending
    BY DEF CreatedRoom, ClearedService, Cleared
  <2>3. \A k \in Keys : ~HasLease(r.alloc, k) /\ r.pending[k] = NoPending
    BY <1>2, ClearedAuth DEF ClearedService
  <2> HIDE DEF m, r
  <2>4. PeersOf(m) = [k \in Keys |-> NoPeer]
    BY <2>2, <2>3 DEF PeersOf
  <2>5. wg'.up /\ wg'.peers = PeersOf(m)
    BY <2>1, <2>4 DEF NetworkUp
  <2> QED
    BY <2>1, <2>2, <2>3, <2>5 DEF PInv, PeersMatch, PendingKept
<1>4. CASE StartRoom
  <2> DEFINE m == RestoredRoom(svc, disk.state, disk.secret)
  <2>1. svc' = m /\ wg' = [NetworkUp EXCEPT !.peers = PeersOf(m)]
    BY <1>4 DEF StartRoom
  <2>2. \A k \in Keys : m.pending[k] = NoPending
    BY DEF RestoredRoom, ClearedService, Cleared
  <2> HIDE DEF m
  <2>3. wg'.up /\ wg'.peers = PeersOf(m)
    BY <2>1 DEF NetworkUp
  <2> QED
    BY <2>1, <2>2, <2>3 DEF PInv, PeersMatch, PendingKept
<1>5. CASE StartRefused \/ \E secretSaved \in BOOLEAN : StartFails(secretSaved)
  BY <1>1, <1>2, <1>5 DEF StartRefused, StartFails, ClearedService
<1>6. CASE StopRoom
  BY <1>0, <1>1, <1>6, StoppedGood DEF StopRoom
<1>7. CASE StopNetwork
  BY <1>1, <1>7 DEF StopNetwork
<1>8. CASE Crash \/ CrashWhileSaving
  <2>1. ProcessLost
    BY <1>8 DEF Crash, CrashWhileSaving, SecretOnly
  <2> QED
    BY <1>1, <1>2, <2>1 DEF ProcessLost, FreshService
<1> QED
  BY <1>3, <1>4, <1>5, <1>6, <1>7, <1>8 DEF LifeStep

(* Every step keeps PInv. *)
LEMMA NextPeers == TInv /\ AInv /\ PInv /\ [Next]_vars => PInv'
<1> SUFFICES ASSUME TInv, AInv, PInv, [Next]_vars PROVE PInv'
  OBVIOUS
<1>1. CASE UNCHANGED vars
  BY <1>1, PeersKept DEF vars
<1> QED
  BY <1>1, ConnPeers, TimerPeers, HostPeers, LifePeers DEF Next

(* While no WireGuard call failed and no timer hit a pending attempt, the  *)
(* WireGuard peers of a running room are exactly its leases, with the same *)
(* addresses and pre-shared keys, through every pairing, rollback,         *)
(* reclaim, removal and restart.                                           *)
THEOREM RoomPeersMatch == Spec => []PeersMatch
<1>1. Init => PInv
  <2>1. FreshService.running = FALSE
    BY DEF FreshService, Cleared
  <2> QED
    BY <2>1 DEF Init, PInv, PeersMatch
<1>2. PInv => PeersMatch
  BY DEF PInv
<1> QED
  BY <1>1, <1>2, InitTyped, InitAuth, NextTyped, NextAuth, NextPeers, PTL DEF Spec

-----------------------------------------------------------------------------
(* A waiting connection has the token of an attempt, and if the attempt is *)
(* still pending, assign told the connection truly whether it created the  *)
(* lease: only then is the lease left to a timer.                          *)
AttemptsKnown ==
  \A c \in Conns : conns[c].pc = "leased" =>
    /\ conns[c].token # 0 /\ conns[c].token <= svc.pairAttempt
    /\ svc.pending[conns[c].key].token = conns[c].token =>
         (conns[c].created <=> svc.pending[conns[c].key].previous = NoLease)

(* AttemptsKnown is kept by a step that begins no attempt: it may end one  *)
(* or let one pass.                                                        *)
LEMMA AttemptsKept ==
  ASSUME TInv, AttemptsKnown, svc'.pairAttempt \in {svc.pairAttempt, svc.pairAttempt + 1},
         \A k \in Keys : svc'.pending[k] \in {NoPending, svc.pending[k]},
         \A c \in Conns : conns'[c].pc = "leased" => conns'[c] = conns[c]
  PROVE  AttemptsKnown'
<1> SUFFICES ASSUME NEW c \in Conns, conns'[c].pc = "leased"
             PROVE  /\ conns'[c].token # 0 /\ conns'[c].token <= svc'.pairAttempt
                    /\ svc'.pending[conns'[c].key].token = conns'[c].token =>
                         (conns'[c].created <=> svc'.pending[conns'[c].key].previous = NoLease)
  BY DEF AttemptsKnown
<1>1. conns'[c] = conns[c] /\ conns[c].pc = "leased"
  OBVIOUS
<1>2. conns[c].key \in Keys /\ conns[c].token \in Nat /\ svc.pairAttempt \in Nat
  BY <1>1, ConnFields, ServiceFields DEF TInv, GoodService
<1>3. /\ conns[c].token # 0 /\ conns[c].token <= svc.pairAttempt
      /\ svc.pending[conns[c].key].token = conns[c].token =>
           (conns[c].created <=> svc.pending[conns[c].key].previous = NoLease)
  BY <1>1 DEF AttemptsKnown
<1>4. conns[c].token <= svc'.pairAttempt
  BY <1>2, <1>3
<1>5. NoPending.token = 0
  BY DEF NoPending
<1>6. svc'.pending[conns[c].key] \in {NoPending, svc.pending[conns[c].key]}
  BY <1>2
<1> QED
  BY <1>1, <1>3, <1>4, <1>5, <1>6

(* The steps of a pairing connection keep AttemptsKnown: assign gives the  *)
(* connection a token that no other one has.                               *)
LEMMA ConnAttempts ==
  ASSUME TInv, AttemptsKnown, NEW c \in Conns, ConnStep(c)
  PROVE  AttemptsKnown'
<1>0. svc \in Service /\ GoodService(svc) /\ conns \in [Conns -> ConnRecords] /\ svc.pairAttempt \in Nat
  BY ServiceFields DEF TInv, GoodService, ConnInv
<1>1. CASE \/ Connect(c) \/ RequestFails(c) \/ AssignRefused(c) \/ PairSuperseded(c) \/ ReportKnown(c)
           \/ ReportListed(c) \/ ControlEnds(c)
           \/ \E k \in Keys, existingAuth \in BOOLEAN : Request(c, k, existingAuth)
  <2>1. svc' = svc
    BY <1>1 DEF Connect, RequestFails, AssignRefused, PairSuperseded, ReportKnown, ReportListed, ControlEnds, Request
  <2>2. \A d \in Conns \ {c} : conns'[d] = conns[d]
    BY <1>0, <1>1 DEF Connect, RequestFails, AssignRefused, PairSuperseded, ReportKnown, ReportListed,
       ControlEnds, Request, Close
  <2>3. conns'[c].pc # "leased"
    <3>1. CASE RequestFails(c) \/ AssignRefused(c) \/ PairSuperseded(c) \/ ControlEnds(c)
      <4>1. Close(c)
        BY <3>1 DEF RequestFails, AssignRefused, PairSuperseded, ControlEnds
      <4> QED
        BY <1>0, <4>1 DEF Close, ClosedConn
    <3>2. CASE Connect(c)
      BY <1>0, <3>2 DEF Connect, ClosedConn
    <3>3. CASE ReportKnown(c) \/ ReportListed(c)
      BY <1>0, <3>3 DEF ReportKnown, ReportListed, ConnRecords
    <3>4. ASSUME NEW k \in Keys, NEW existingAuth \in BOOLEAN, Request(c, k, existingAuth)
          PROVE  conns'[c].pc # "leased"
      BY <1>0, <3>4 DEF Request, ConnRecords
    <3> QED
      BY <1>1, <3>1, <3>2, <3>3, <3>4
  <2> QED
    BY <2>1, <2>2, <2>3, AttemptsKept
<1>2. CASE ReportStats(c)
  <2>1. svc'.pairAttempt = svc.pairAttempt /\ svc'.pending = svc.pending
    BY <1>0, <1>2 DEF ReportStats, Service
  <2>2. conns'[c].pc # "leased" /\ \A d \in Conns \ {c} : conns'[d] = conns[d]
    BY <1>0, <1>2 DEF ReportStats, ConnRecords
  <2> QED
    BY <2>1, <2>2, AttemptsKept
<1>3. ASSUME NEW name \in Names, NEW applyOK \in BOOLEAN, NEW saveOK \in BOOLEAN,
             AssignLease(c, name, applyOK, saveOK)
      PROVE  AttemptsKnown'
  <2> DEFINE k == conns[c].key
             m == Assigned(svc, k, name, conns[c].roomKey, conns[c].existingAuth)
  <2>1. conns[c].pc = "vetted" /\ MayAssign(svc, k, conns[c].existingAuth)
    BY <1>3 DEF AssignLease
  <2>2. k \in Keys /\ conns[c].roomKey \in PSKs /\ conns[c].existingAuth \in BOOLEAN
    BY <2>1, ConnFields DEF TInv
  <2>3. CanAssign(svc.alloc, k)
    BY <2>1 DEF MayAssign
  <2>4. GoodService(m) /\ m.pending[k] \in Pending
    BY <1>0, <2>2, <2>3, AssignedGood
  <2>5. m.pairAttempt = svc.pairAttempt + 1
    BY <1>0 DEF Assigned, Service
  <2>6. m.pending[k].token = m.pairAttempt /\ m.pending[k].previous = svc.alloc.byKey[k]
    BY <1>0, <2>2, <2>3, AssignedGood
  <2>7. \A l \in Keys \ {k} : m.pending[l] = svc.pending[l]
    BY <1>0, <2>2, <2>3, AssignedGood
  <2>8. CASE applyOK /\ saveOK
    <3>1. svc' = m
      BY <1>3, <2>8 DEF AssignLease
    <3>2. /\ conns'[c].key = k /\ conns'[c].token = m.pairAttempt
          /\ conns'[c].created <=> svc.alloc.byKey[k] = NoLease
      <4>1. conns' = [conns EXCEPT ![c] = [conns[c] EXCEPT !.pc = "leased", !.token = m.pairAttempt,
                        !.created = ~HasLease(svc.alloc, k),
                        !.revision = m.alloc.byKey[k].revision, !.octet = m.alloc.byKey[k].octet]]
        BY <1>3, <2>8 DEF AssignLease
      <4>2. HasLease(svc.alloc, k) <=> svc.alloc.byKey[k] # NoLease
        BY DEF HasLease
      <4> HIDE DEF m
      <4> QED
        BY <1>0, <4>1, <4>2 DEF ConnRecords
    <3>3. \A d \in Conns \ {c} : conns'[d] = conns[d]
      BY <1>0, <1>3, <2>8 DEF AssignLease
    <3> HIDE DEF m, k
    <3>4. ASSUME NEW d \in Conns \ {c}, conns'[d].pc = "leased"
          PROVE  /\ conns'[d].token # 0 /\ conns'[d].token <= m.pairAttempt
                 /\ m.pending[conns'[d].key].token = conns'[d].token =>
                      (conns'[d].created <=> m.pending[conns'[d].key].previous = NoLease)
      <4>1. conns'[d] = conns[d] /\ conns[d].pc = "leased"
        BY <3>3, <3>4
      <4>2. conns[d].key \in Keys /\ conns[d].token \in Nat
        BY <4>1, ConnFields DEF TInv
      <4>3. /\ conns[d].token # 0 /\ conns[d].token <= svc.pairAttempt
            /\ svc.pending[conns[d].key].token = conns[d].token =>
                 (conns[d].created <=> svc.pending[conns[d].key].previous = NoLease)
        BY <4>1 DEF AttemptsKnown
      <4>4. conns[d].token < m.pairAttempt
        BY <1>0, <2>5, <4>2, <4>3
      <4>5. conns[d].token <= m.pairAttempt
        BY <1>0, <2>5, <4>2, <4>4
      <4>6. CASE conns[d].key = k
        BY <1>0, <2>5, <2>6, <4>1, <4>2, <4>3, <4>4, <4>5, <4>6
      <4>7. CASE conns[d].key # k
        BY <2>7, <4>1, <4>2, <4>3, <4>5, <4>7
      <4> QED
        BY <4>6, <4>7
    <3>5. m.pairAttempt # 0 /\ m.pairAttempt <= m.pairAttempt
      BY <1>0, <2>5
    <3> QED
      BY <2>6, <3>1, <3>2, <3>4, <3>5 DEF AttemptsKnown
  <2>9. CASE ~(applyOK /\ saveOK)
    <3>1. svc' = RolledBack(m, k, m.pending[k]) /\ Close(c)
      BY <1>3, <2>9 DEF AssignLease
    <3> HIDE DEF m
    <3>2. svc'.pending = [m.pending EXCEPT ![k] = NoPending]
      BY <2>2, <2>4, <3>1, RolledBackGood, ZenonT(40)
    <3>3. m \in Service /\ m.pending \in [Keys -> Pending]
      BY <2>4, ServiceFields DEF GoodService
    <3>4. svc'.pairAttempt = m.pairAttempt
      BY <3>1, <3>3 DEF RolledBack, Service
    <3>5. \A l \in Keys : svc'.pending[l] \in {NoPending, svc.pending[l]}
      BY <2>2, <2>7, <3>2, <3>3
    <3>6. \A d \in Conns \ {c} : conns'[d] = conns[d]
      BY <1>0, <3>1 DEF Close
    <3>7. conns'[c].pc # "leased"
      BY <1>0, <3>1 DEF Close, ClosedConn
    <3> QED
      BY <2>5, <3>4, <3>5, <3>6, <3>7, AttemptsKept
  <2> QED
    BY <2>8, <2>9
<1>4. ASSUME NEW saveOK \in BOOLEAN, PairRolledBack(c, saveOK) PROVE AttemptsKnown'
  <2> DEFINE k == conns[c].key
  <2>1. conns[c].pc = "leased" /\ svc' = RolledBack(svc, k, svc.pending[k]) /\ Close(c)
    BY <1>4 DEF PairRolledBack
  <2>2. k \in Keys
    BY <2>1, ConnFields DEF TInv
  <2>3. svc'.pending = [svc.pending EXCEPT ![k] = NoPending] /\ svc'.pairAttempt = svc.pairAttempt
    BY <1>0, <2>1 DEF RolledBack, Service
  <2>4. conns'[c].pc # "leased" /\ \A d \in Conns \ {c} : conns'[d] = conns[d]
    BY <1>0, <2>1 DEF Close, ClosedConn
  <2> QED
    BY <1>0, <2>2, <2>3, <2>4, AttemptsKept, PendingAfter
<1>5. CASE PairLeftToTimer(c)
  <2> DEFINE k == conns[c].key
  <2>1. /\ conns[c].pc = "leased" /\ Close(c)
        /\ svc' = [svc EXCEPT !.pending[k] = NoPending, !.timers[k] = svc.pending[k].token]
    BY <1>5 DEF PairLeftToTimer
  <2>2. k \in Keys
    BY <2>1, ConnFields DEF TInv
  <2>3. svc'.pending = [svc.pending EXCEPT ![k] = NoPending] /\ svc'.pairAttempt = svc.pairAttempt
    BY <1>0, <2>1, <2>2 DEF Service
  <2>4. conns'[c].pc # "leased" /\ \A d \in Conns \ {c} : conns'[d] = conns[d]
    BY <1>0, <2>1 DEF Close, ClosedConn
  <2> QED
    BY <1>0, <2>2, <2>3, <2>4, AttemptsKept, PendingAfter
<1>6. CASE PairAck(c)
  <2> DEFINE k == conns[c].key
  <2>1. /\ conns[c].pc = "leased" /\ conns' = [conns EXCEPT ![c].pc = "control"]
        /\ svc' = Acknowledged(svc, k) \/ svc' = svc
    BY <1>6 DEF PairAck
  <2>2. k \in Keys
    BY <2>1, ConnFields DEF TInv
  <2>3. \/ svc' = svc
        \/ svc'.pending = [svc.pending EXCEPT ![k] = NoPending] /\ svc'.pairAttempt = svc.pairAttempt
    BY <1>0, <2>1 DEF Acknowledged, Service
  <2>4. conns'[c].pc # "leased" /\ \A d \in Conns \ {c} : conns'[d] = conns[d]
    BY <1>0, <2>1 DEF ConnRecords
  <2>5. CASE svc' = svc
    BY <2>4, <2>5, AttemptsKept
  <2>6. CASE svc'.pending = [svc.pending EXCEPT ![k] = NoPending] /\ svc'.pairAttempt = svc.pairAttempt
    BY <1>0, <2>2, <2>4, <2>6, AttemptsKept, PendingAfter
  <2> QED
    BY <2>3, <2>5, <2>6
<1> QED
  BY <1>1, <1>2, <1>3, <1>4, <1>5, <1>6 DEF ConnStep

(* Every step keeps AttemptsKnown: the counter of attempts outlives the    *)
(* room, and only the loss of the process resets it.                       *)
LEMMA NextAttempts == TInv /\ AttemptsKnown /\ [Next]_vars => AttemptsKnown'
<1> SUFFICES ASSUME TInv, AttemptsKnown, [Next]_vars PROVE AttemptsKnown'
  OBVIOUS
<1>0. svc \in Service /\ GoodService(svc)
  BY DEF TInv, GoodService
<1>1. CASE TimerStep
  <2>1. PICK t \in clock : TimerExpires(t) \/ \E removeOK, saveOK \in BOOLEAN : TimerRuns(t, removeOK, saveOK)
    BY <1>1 DEF TimerStep
  <2>2. UNCHANGED conns
    BY <2>1 DEF TimerExpires, TimerRuns
  <2>3. svc' = svc \/ svc' = Reclaimed(svc, t.key) \/ svc' = [svc EXCEPT !.timers[t.key] = 0]
    BY <2>1 DEF TimerExpires, TimerRuns
  <2>4. svc'.pairAttempt = svc.pairAttempt /\ svc'.pending = svc.pending
    BY <1>0, <2>3 DEF Reclaimed, Service
  <2> QED
    BY <2>2, <2>4, AttemptsKept
<1>2. CASE HostStep
  <2>1. UNCHANGED conns
    BY <1>2 DEF HostStep, SetJoinEnabled, UnblockUID, RenameMember, SaveChange, RotateKey, RemoveMember, UpdateMemberStats
  <2>2. ASSUME NEW enabled \in BOOLEAN, NEW saveOK \in BOOLEAN, SetJoinEnabled(enabled, saveOK)
        PROVE  svc'.pairAttempt = svc.pairAttempt /\ svc'.pending = svc.pending
    BY <1>0, <2>2 DEF SetJoinEnabled, SaveChange, Service
  <2>3. ASSUME NEW u \in UIDs, NEW saveOK \in BOOLEAN, UnblockUID(u, saveOK)
        PROVE  svc'.pairAttempt = svc.pairAttempt /\ svc'.pending = svc.pending
    BY <1>0, <2>3 DEF UnblockUID, SaveChange, Service
  <2>4. ASSUME NEW k \in Keys, NEW name \in Names, NEW saveOK \in BOOLEAN, RenameMember(k, name, saveOK)
        PROVE  svc'.pairAttempt = svc.pairAttempt /\ svc'.pending = svc.pending
    <3>1. svc' = [svc EXCEPT !.alloc = Assign(@, k, name)] \/ svc' = RenameUndone(svc)
      BY <2>4 DEF RenameMember, SaveChange
    <3> QED
      BY <1>0, <3>1 DEF RenameUndone, Service
  <2>5. ASSUME NEW saveOK \in BOOLEAN, RotateKey(saveOK)
        PROVE  svc'.pairAttempt = svc.pairAttempt /\ svc'.pending = svc.pending
    BY <1>0, <2>5 DEF RotateKey, Service
  <2>6. ASSUME NEW online \in SUBSET Keys, NEW idle \in SUBSET Keys, UpdateMemberStats(online, idle)
        PROVE  svc'.pairAttempt = svc.pairAttempt /\ svc'.pending = svc.pending
    BY <1>0, <2>6 DEF UpdateMemberStats, StatsApplied, Service
  <2>7. ASSUME NEW k \in Keys, NEW block \in BOOLEAN, NEW removeOK \in BOOLEAN, NEW saveOK \in BOOLEAN,
               RemoveMember(k, block, removeOK, saveOK)
        PROVE  AttemptsKnown'
    <3>1. svc' = Removed(svc, k, block) \/ svc' = RemoveUndone(svc, k)
      BY <2>7 DEF RemoveMember
    <3>2. svc'.pairAttempt = svc.pairAttempt /\ svc'.pending = [svc.pending EXCEPT ![k] = NoPending]
      BY <1>0, <3>1 DEF Removed, RemoveUndone, Service
    <3> QED
      BY <1>0, <2>1, <3>2, AttemptsKept, PendingAfter
  <2>8. CASE svc'.pairAttempt = svc.pairAttempt /\ svc'.pending = svc.pending
    BY <2>1, <2>8, AttemptsKept
  <2> QED
    BY <1>2, <2>2, <2>3, <2>4, <2>5, <2>6, <2>7, <2>8 DEF HostStep
<1>3. CASE LifeStep
  <2>1. ASSUME UNCHANGED conns, svc'.pairAttempt = svc.pairAttempt,
               \A k \in Keys : svc'.pending[k] \in {NoPending, svc.pending[k]}
        PROVE  AttemptsKnown'
    BY <2>1, AttemptsKept
  <2>2. \A n, timers : /\ Cleared(n, timers).pairAttempt = n
                       /\ \A k \in Keys : Cleared(n, timers).pending[k] = NoPending
    BY DEF Cleared
  <2>3. ASSUME NEW fixed \in RoomModes, CreateRoom(fixed) PROVE AttemptsKnown'
    <3>1. LET m == CreatedRoom(svc, fixed, used.keys + 1)
          IN m.pairAttempt = svc.pairAttempt /\ m.pending = Cleared(svc.pairAttempt, svc.timers).pending
      BY DEF CreatedRoom, ClearedService, Cleared
    <3> QED
      BY <2>1, <2>2, <2>3, <3>1 DEF CreateRoom
  <2>4. CASE StartRoom
    <3>1. LET m == RestoredRoom(svc, disk.state, disk.secret)
          IN m.pairAttempt = svc.pairAttempt /\ m.pending = Cleared(svc.pairAttempt, svc.timers).pending
      BY DEF RestoredRoom, ClearedService, Cleared
    <3> QED
      BY <2>1, <2>2, <2>4, <3>1 DEF StartRoom
  <2>5. CASE StartRefused \/ \E secretSaved \in BOOLEAN : StartFails(secretSaved)
    BY <2>1, <2>2, <2>5 DEF StartRefused, StartFails, ClearedService
  <2>6. CASE StopRoom
    <3> DEFINE s == [svc EXCEPT !.running = FALSE, !.timers = [k \in Keys |-> 0]]
    <3>1. svc' = s \/ svc' = ClearedService(s)
      BY <2>6 DEF StopRoom, StoppedRoom
    <3>2. s.pairAttempt = svc.pairAttempt /\ s.pending = svc.pending
      BY <1>0 DEF Service
    <3> HIDE DEF s
    <3>3. UNCHANGED conns
      BY <2>6 DEF StopRoom
    <3> QED
      BY <2>1, <2>2, <3>1, <3>2, <3>3 DEF ClearedService
  <2>7. CASE StopNetwork
    BY <2>1, <2>7 DEF StopNetwork
  <2>8. CASE Crash \/ CrashWhileSaving
    <3>1. conns' = [c \in Conns |-> ClosedConn]
      BY <2>8 DEF Crash, CrashWhileSaving, SecretOnly, ProcessLost
    <3> QED
      BY <3>1 DEF AttemptsKnown, ClosedConn
  <2> QED
    BY <1>3, <2>3, <2>4, <2>5, <2>6, <2>7, <2>8 DEF LifeStep
<1>4. CASE UNCHANGED vars
  BY <1>4, AttemptsKept DEF vars
<1> QED
  BY <1>1, <1>2, <1>3, <1>4, ConnAttempts DEF Next

-----------------------------------------------------------------------------
(* A step that changes no lease, or changes nothing about it but its name, *)
(* changes no membership.                                                  *)
LEMMA LeasesKept ==
  ASSUME \A k \in Keys : /\ HasLease(svc'.alloc, k) <=> HasLease(svc.alloc, k)
                         /\ HasLease(svc'.alloc, k) => svc'.alloc.byKey[k].octet = svc.alloc.byKey[k].octet
  PROVE  \A k \in Keys : LeaseChange(k)
BY DEF LeaseChange, HasLease

(* A step that touches the lease of one device changes no other            *)
(* membership.                                                             *)
LEMMA OneLeaseChanges ==
  ASSUME NEW k \in Keys, \A l \in Keys \ {k} : svc'.alloc.byKey[l] = svc.alloc.byKey[l], LeaseChange(k)
  PROVE  \A l \in Keys : LeaseChange(l)
<1> SUFFICES ASSUME NEW l \in Keys \ {k} PROVE LeaseChange(l)
  OBVIOUS
<1>1. svc'.alloc.byKey[l] = svc.alloc.byKey[l]
  OBVIOUS
<1> QED
  BY <1>1 DEF LeaseChange

(* A rolled-back assign leaves every lease as it was. *)
LEMMA RollbackRestores ==
  ASSUME NEW m, GoodService(m), NEW k \in Keys, NEW name \in Names, NEW roomKey \in PSKs,
         NEW existing \in BOOLEAN, CanAssign(m.alloc, k)
  PROVE  LET n == Assigned(m, k, name, roomKey, existing)
             r == RolledBack(n, k, n.pending[k])
         IN \A l \in Keys : r.alloc.byKey[l] = m.alloc.byKey[l]
<1> DEFINE n == Assigned(m, k, name, roomKey, existing)
           p == n.pending[k]
           r == RolledBack(n, k, p)
<1>1. GoodService(n) /\ p \in Pending
  BY AssignedGood
<1>2. Files(r) = Files(m)
  BY RollbackUndoes
<1> HIDE DEF n, p
<1>3. GoodService(r)
  BY <1>1, RolledBackGood
<1> HIDE DEF r
<1>4. Snapshot(r.alloc) = Snapshot(m.alloc)
  BY <1>2 DEF Files, StateOf
<1>5. r.alloc \in Allocator /\ Consistent(r.alloc) /\ m.alloc \in Allocator /\ Consistent(m.alloc)
  BY <1>3, ServiceFields DEF GoodService
<1>6. \A l \in Keys : r.alloc.byKey[l] = m.alloc.byKey[l]
  BY <1>4, <1>5, SnapshotDetermines
<1> QED
  BY <1>6 DEF n, p, r

(* The steps of a pairing connection change a membership only by letting   *)
(* a device in: a failed attempt puts back what there was.                 *)
LEMMA ConnMembership ==
  ASSUME TInv, AInv, PInv, AttemptsKnown, NEW c \in Conns, ConnStep(c), svc.running, ~hist'.raced
  PROVE  \A k \in Keys : LeaseChange(k)
<1>0. /\ svc \in Service /\ GoodService(svc) /\ AuthService(svc) /\ wg \in WireGuard /\ wg.up
      /\ svc.alloc \in Allocator /\ Consistent(svc.alloc) /\ hist \in Histories
  BY ServiceFields DEF TInv, GoodService, AInv, PInv
<1>1. ASSUME svc'.alloc = svc.alloc PROVE \A k \in Keys : LeaseChange(k)
  BY <1>1, LeasesKept
<1>2. CASE \/ Connect(c) \/ RequestFails(c) \/ AssignRefused(c) \/ PairSuperseded(c) \/ ReportKnown(c)
           \/ ReportListed(c) \/ ControlEnds(c)
           \/ \E k \in Keys, existingAuth \in BOOLEAN : Request(c, k, existingAuth)
  <2>1. svc' = svc
    BY <1>2 DEF Connect, RequestFails, AssignRefused, PairSuperseded, ReportKnown, ReportListed, ControlEnds, Request
  <2> QED
    BY <1>1, <2>1
<1>3. CASE ReportStats(c) \/ PairLeftToTimer(c) \/ PairAck(c)
  <2>1. CASE ReportStats(c)
    BY <1>0, <1>1, <2>1 DEF ReportStats, Service
  <2>2. CASE PairLeftToTimer(c)
    BY <1>0, <1>1, <2>2 DEF PairLeftToTimer, Service
  <2>3. CASE PairAck(c)
    BY <1>0, <1>1, <2>3 DEF PairAck, Acknowledged, Service
  <2> QED
    BY <1>3, <2>1, <2>2, <2>3
<1>4. ASSUME NEW name \in Names, NEW applyOK \in BOOLEAN, NEW saveOK \in BOOLEAN,
             AssignLease(c, name, applyOK, saveOK)
      PROVE  \A k \in Keys : LeaseChange(k)
  <2> DEFINE k == conns[c].key
             m == Assigned(svc, k, name, conns[c].roomKey, conns[c].existingAuth)
  <2>1. conns[c].pc = "vetted" /\ MayAssign(svc, k, conns[c].existingAuth)
    BY <1>4 DEF AssignLease
  <2>2. k \in Keys /\ conns[c].roomKey \in PSKs /\ conns[c].existingAuth \in BOOLEAN
    BY <2>1, ConnFields DEF TInv
  <2>3. CanAssign(svc.alloc, k) /\ (svc.joinEnabled \/ HasLease(svc.alloc, k))
    BY <2>1 DEF MayAssign
  <2>4. CASE applyOK /\ saveOK
    <3>1. svc' = m
      BY <1>4, <2>4 DEF AssignLease
    <3>2. svc'.alloc = Assign(svc.alloc, k, name)
      BY <1>0, <2>2, <2>3, <3>1, AssignedGood
    <3>3. /\ HasLease(svc'.alloc, k) /\ \A l \in Keys \ {k} : svc'.alloc.byKey[l] = svc.alloc.byKey[l]
          /\ HasLease(svc.alloc, k) => svc'.alloc.byKey[k].octet = svc.alloc.byKey[k].octet
      BY <1>0, <2>2, <2>3, <3>2, AssignFacts
    <3>4. LeaseChange(k)
      BY <2>3, <3>3 DEF LeaseChange, HasLease
    <3> QED
      BY <2>2, <3>3, <3>4, OneLeaseChanges
  <2>5. CASE ~(applyOK /\ saveOK)
    <3>1. svc' = RolledBack(m, k, m.pending[k])
      BY <1>4, <2>5 DEF AssignLease
    <3>2. \A l \in Keys : RolledBack(m, k, m.pending[k]).alloc.byKey[l] = svc.alloc.byKey[l]
      <4>1. GoodService(svc) /\ CanAssign(svc.alloc, k)
        BY <1>0, <2>3
      <4> HIDE DEF k
      <4> QED
        BY <2>2, <4>1, RollbackRestores
    <3> HIDE DEF m
    <3>3. \A l \in Keys : svc'.alloc.byKey[l] = svc.alloc.byKey[l]
      BY <3>1, <3>2
    <3> QED
      BY <3>3, LeasesKept DEF HasLease
  <2> QED
    BY <2>4, <2>5
<1>5. ASSUME NEW saveOK \in BOOLEAN, PairRolledBack(c, saveOK) PROVE \A k \in Keys : LeaseChange(k)
  <2> DEFINE k == conns[c].key
             p == svc.pending[k]
  <2>1. /\ conns[c].pc = "leased" /\ svc' = RolledBack(svc, k, p) /\ p.token = conns[c].token /\ ~conns[c].created
        /\ hist' = [hist EXCEPT !.unsaved = svc.fixedRoom /\ ~saveOK]
    BY <1>5 DEF PairRolledBack
  <2>2. k \in Keys
    BY <2>1, ConnFields DEF TInv
  <2>3. p.previous # NoLease /\ p # NoPending
    <3>1. /\ conns[c].token # 0
          /\ p.token = conns[c].token => (conns[c].created <=> p.previous = NoLease)
      BY <2>1 DEF AttemptsKnown
    <3>2. NoPending.token = 0
      BY DEF NoPending
    <3> QED
      BY <2>1, <3>1, <3>2, Zenon
  <2>4. ~hist.raced
    BY <1>0, <2>1 DEF Histories
  <2>5. PendingKept(svc, k)
    BY <2>2, <2>4 DEF PInv
  <2>6. \A l \in Keys \ {k} : svc'.alloc.byKey[l] = svc.alloc.byKey[l]
    BY <1>0, <2>1, <2>2, <2>3, <2>5, RollbackMatches
  <2>7. HasLease(svc.alloc, k) /\ p.previous.octet = svc.alloc.byKey[k].octet /\ p.previous.revision # 0
    BY <2>3, <2>5 DEF PendingKept
  <2>8. p.previous \in Lease /\ p.previous.publicKey = k
    BY <1>0, <2>2, <2>3, ServiceFields DEF Pending, AuthService
  <2>9. CanRestore(svc.alloc, p.previous)
    BY <1>0, <2>2, <2>7, <2>8 DEF CanRestore, Consistent, LeaseShape, IsMemberAddress
  <2>10. svc'.alloc = Restore(svc.alloc, p.previous)
    BY <1>0, <2>1, <2>3 DEF RolledBack, Service
  <2>11. svc'.alloc.byKey[k] = p.previous
    BY <1>0, <2>8, <2>9, <2>10, RestoreConsistent
  <2>12. LeaseChange(k)
    BY <2>3, <2>7, <2>11 DEF LeaseChange, HasLease
  <2> QED
    BY <2>2, <2>6, <2>12, OneLeaseChanges
<1> QED
  BY <1>2, <1>3, <1>4, <1>5 DEF ConnStep

(* A timer takes the lease it was set for, and no other. *)
LEMMA TimerMembership ==
  ASSUME TInv, TimerStep
  PROVE  \A k \in Keys : LeaseChange(k)
<1>0. svc \in Service /\ GoodService(svc) /\ svc.alloc \in Allocator /\ Consistent(svc.alloc)
  BY ServiceFields DEF TInv, GoodService
<1>1. PICK t \in clock : TimerExpires(t) \/ \E removeOK, saveOK \in BOOLEAN : TimerRuns(t, removeOK, saveOK)
  BY DEF TimerStep
<1>2. t.key \in Keys
  BY DEF TInv, Timers
<1>3. CASE svc'.alloc = svc.alloc
  BY <1>3, LeasesKept
<1>4. CASE TimerExpires(t)
  BY <1>3, <1>4 DEF TimerExpires
<1>5. ASSUME NEW removeOK \in BOOLEAN, NEW saveOK \in BOOLEAN, TimerRuns(t, removeOK, saveOK)
      PROVE  \A k \in Keys : LeaseChange(k)
  <2>1. CASE ~Reclaims(svc, t)
    <3>1. svc' = [svc EXCEPT !.timers[t.key] = 0]
      BY <1>5, <2>1 DEF TimerRuns
    <3> QED
      BY <1>0, <1>3, <3>1 DEF Service
  <2>2. CASE Reclaims(svc, t)
    <3>1. t.expired /\ clock' = clock \ {t} /\ svc' = Reclaimed(svc, t.key)
      BY <1>5, <2>2 DEF TimerRuns
    <3>2. svc'.alloc = Remove(svc.alloc, t.key)
      BY <1>0, <3>1 DEF Reclaimed, Service
    <3>3. ~HasLease(svc'.alloc, t.key) /\ \A l \in Keys \ {t.key} : svc'.alloc.byKey[l] = svc.alloc.byKey[l]
      BY <1>0, <1>2, <3>2, RemoveConsistent
    <3>4. svc.alloc.byKey[t.key].revision = t.revision /\ svc.states[t.key] # "configured"
      BY <2>2 DEF Reclaims
    <3>5. t \in clock \ clock'
      BY <3>1
    <3>6. LeaseChange(t.key)
      BY <3>1, <3>3, <3>4, <3>5 DEF LeaseChange, HasLease
    <3> QED
      BY <1>2, <3>3, <3>6, OneLeaseChanges
  <2> QED
    BY <2>1, <2>2
<1> QED
  BY <1>1, <1>4, <1>5

(* The host changes a membership only by removing the member. *)
LEMMA HostMembership ==
  ASSUME TInv, HostStep
  PROVE  \A k \in Keys : LeaseChange(k)
<1>0. svc \in Service /\ GoodService(svc) /\ svc.alloc \in Allocator /\ Consistent(svc.alloc) /\ hist \in Histories
  BY ServiceFields DEF TInv, GoodService
<1>1. CASE svc'.alloc = svc.alloc
  BY <1>1, LeasesKept
<1>2. ASSUME NEW enabled \in BOOLEAN, NEW saveOK \in BOOLEAN, SetJoinEnabled(enabled, saveOK)
      PROVE  svc'.alloc = svc.alloc
  BY <1>0, <1>2 DEF SetJoinEnabled, SaveChange, Service
<1>3. ASSUME NEW u \in UIDs, NEW saveOK \in BOOLEAN, UnblockUID(u, saveOK)
      PROVE  svc'.alloc = svc.alloc
  BY <1>0, <1>3 DEF UnblockUID, SaveChange, Service
<1>4. ASSUME NEW saveOK \in BOOLEAN, RotateKey(saveOK)
      PROVE  svc'.alloc = svc.alloc
  BY <1>0, <1>4 DEF RotateKey, Service
<1>5. ASSUME NEW online \in SUBSET Keys, NEW idle \in SUBSET Keys, UpdateMemberStats(online, idle)
      PROVE  svc'.alloc = svc.alloc
  BY <1>0, <1>5 DEF UpdateMemberStats, StatsApplied, Service
<1>6. ASSUME NEW k \in Keys, NEW name \in Names, NEW saveOK \in BOOLEAN, RenameMember(k, name, saveOK)
      PROVE  \A l \in Keys : LeaseChange(l)
  <2>1. HasLease(svc.alloc, k) /\ (svc' = [svc EXCEPT !.alloc = Assign(@, k, name)] \/ svc' = RenameUndone(svc))
    BY <1>6 DEF RenameMember, SaveChange
  <2>2. CASE svc' = [svc EXCEPT !.alloc = Assign(@, k, name)]
    <3>1. svc'.alloc = Assign(svc.alloc, k, name)
      BY <1>0, <2>2 DEF Service
    <3>2. \A l \in Keys : /\ HasLease(svc'.alloc, l) <=> HasLease(svc.alloc, l)
                          /\ HasLease(svc.alloc, l) => svc'.alloc.byKey[l].octet = svc.alloc.byKey[l].octet
      BY <1>0, <2>1, <3>1, AssignKnownConsistent
    <3> QED
      BY <3>2, LeasesKept
  <2>3. CASE svc' = RenameUndone(svc)
    <3>1. \A l \in Keys : svc'.alloc.byKey[l] = svc.alloc.byKey[l]
      BY <1>0, <2>3, RenameUndoneSame
    <3> QED
      BY <3>1, LeasesKept DEF HasLease
  <2> QED
    BY <2>1, <2>2, <2>3
<1>7. ASSUME NEW k \in Keys, NEW block \in BOOLEAN, NEW removeOK \in BOOLEAN, NEW saveOK \in BOOLEAN,
             RemoveMember(k, block, removeOK, saveOK)
      PROVE  \A l \in Keys : LeaseChange(l)
  <2>1. CASE ~(removeOK /\ saveOK)
    <3>1. svc' = RemoveUndone(svc, k)
      BY <1>7, <2>1 DEF RemoveMember
    <3> QED
      BY <1>0, <1>1, <3>1 DEF RemoveUndone, Service
  <2>2. CASE removeOK /\ saveOK
    <3>1. /\ svc' = Removed(svc, k, block)
          /\ hist' = [hist EXCEPT !.acked = @ \ {k}, !.unsaved = @ /\ ~svc.fixedRoom]
      BY <1>7, <2>2 DEF RemoveMember
    <3>2. svc'.alloc = Remove(svc.alloc, k)
      BY <1>0, <3>1 DEF Removed, Service
    <3>3. ~HasLease(svc'.alloc, k) /\ \A l \in Keys \ {k} : svc'.alloc.byKey[l] = svc.alloc.byKey[l]
      BY <1>0, <3>2, RemoveConsistent
    <3>4. k \notin hist'.acked
      BY <1>0, <3>1 DEF Histories
    <3>5. LeaseChange(k)
      BY <3>3, <3>4 DEF LeaseChange, HasLease
    <3> QED
      BY <3>3, <3>5, OneLeaseChanges
  <2> QED
    BY <2>1, <2>2
<1> QED
  BY <1>1, <1>2, <1>3, <1>4, <1>5, <1>6, <1>7 DEF HostStep

(* Membership of a running room: a device gets a lease only where joining  *)
(* is allowed, keeps its address, and loses the lease only to the host or  *)
(* to the timer set for this very lease.  An attempt that fails, times out *)
(* or cannot be saved, and a command that is undone, take nothing away.    *)
THEOREM RoomMembershipKept == Spec => MembershipKept
<1>1. TInv /\ AInv /\ PInv /\ AttemptsKnown /\ [Next]_vars =>
        [svc.running /\ svc'.running /\ ~hist'.raced => \A k \in Keys : LeaseChange(k)]_vars
  <2> SUFFICES ASSUME TInv, AInv, PInv, AttemptsKnown, Next, svc.running, svc'.running, ~hist'.raced
               PROVE  \A k \in Keys : LeaseChange(k)
    OBVIOUS
  <2>1. CASE LifeStep
    <3>1. ~svc.running \/ ~svc'.running
      <4>1. CASE Crash \/ CrashWhileSaving
        <5>1. svc' = FreshService
          BY <4>1 DEF Crash, CrashWhileSaving, SecretOnly, ProcessLost
        <5> QED
          BY <5>1 DEF FreshService, Cleared
      <4>2. CASE StopRoom
        BY <4>2, StoppedGood DEF StopRoom, TInv
      <4> QED
        BY <2>1, <4>1, <4>2 DEF LifeStep, CreateRoom, StartRoom, StartFails, StartRefused, StopNetwork
    <3> QED
      BY <3>1
  <2> QED
    BY <2>1, ConnMembership, TimerMembership, HostMembership DEF Next
<1>2. Init => PInv /\ AttemptsKnown
  <2>1. FreshService.running = FALSE
    BY DEF FreshService, Cleared
  <2> QED
    BY <2>1 DEF Init, PInv, PeersMatch, AttemptsKnown, ClosedConn
<1> QED
  BY <1>1, <1>2, InitTyped, InitAuth, NextTyped, NextAuth, NextPeers, NextAttempts, PTL DEF Spec, MembershipKept
=============================================================================
