------------------------------ MODULE RoomOps ------------------------------
(***************************************************************************)
(* The state of the host's room service (internal/room, type Service) and  *)
(* the state changes its critical sections make, as operators on three     *)
(* values:                                                                 *)
(*   m : the in-memory service (the fields of Service under Service.mu),   *)
(*   w : the WireGuard device (internal/wg): whether it is up, its peers,  *)
(*   the two files of a fixed room, room.json and room.secret.             *)
(* A room key is a number, 0 standing for "none".  The pre-shared key of a *)
(* device is derived from the room key, the host key and the device key,   *)
(* so the PSK of device k is represented by the room key it comes from.    *)
(* The nil allocator of a cleared service is the empty allocator: every    *)
(* guard on nil agrees with what an empty allocator answers.  Traffic and  *)
(* handshake statistics, ports and identities are left out.                *)
(***************************************************************************)
EXTENDS Leases

CONSTANTS UIDs,         \* node UIDs
          UidOf,        \* the UID of the node that owns a device key
          MaxRoomKeys   \* bound: room keys ever generated

ASSUME UidAssumption == UidOf \in [Keys -> UIDs]
ASSUME RoomKeyAssumption == MaxRoomKeys \in Nat

PSKs == 0 .. MaxRoomKeys
MemberStates == {"", "pairing", "configured", "online", "offline"}

(* pendingPair: what assign remembers for rollback; `existed` and `hadPSK` *)
(* of the code are previous # NoLease and previousPSK # 0.                 *)
NoPending == [token |-> 0, previous |-> NoLease, previousPSK |-> 0, state |-> ""]
Pending   == [token : Nat, previous : Lease \cup {NoLease}, previousPSK : PSKs, state : MemberStates]

(* memberUIDs and the timers map are keyed by device; 0 is "no timer". *)
Service == [running : BOOLEAN, fixedRoom : BOOLEAN, joinEnabled : BOOLEAN,
            roomKey : PSKs, alloc : Allocator,
            states : [Keys -> MemberStates], psks : [Keys -> PSKs],
            blocked : SUBSET UIDs, uidKnown : SUBSET Keys,
            pending : [Keys -> Pending], pairAttempt : Nat, timers : [Keys -> Nat]]

(* The service before the first room and after clearLocked, which resets   *)
(* everything but the attempt counter and the timers.                      *)
Cleared(pairAttempt, timers) ==
  [running |-> FALSE, fixedRoom |-> FALSE, joinEnabled |-> FALSE,
   roomKey |-> 0, alloc |-> EmptyAllocator,
   states |-> [k \in Keys |-> ""], psks |-> [k \in Keys |-> 0],
   blocked |-> {}, uidKnown |-> {},
   pending |-> [k \in Keys |-> NoPending], pairAttempt |-> pairAttempt, timers |-> timers]

FreshService == Cleared(0, [k \in Keys |-> 0])

ClearedService(m) == Cleared(m.pairAttempt, m.timers)

-----------------------------------------------------------------------------
(* WireGuard.  A peer without PSK is absent; octet 0 means that it has no  *)
(* allowed address.  Setting a peer's allowed address takes the address    *)
(* away from any other peer.  Calls on a device that is down only fail.    *)
NoPeer == [octet |-> 0, psk |-> 0]
WireGuard == [up : BOOLEAN, peers : [Keys -> [octet : Octets, psk : PSKs]]]
NetworkDown == [up |-> FALSE, peers |-> [k \in Keys |-> NoPeer]]
NetworkUp   == [up |-> TRUE, peers |-> [k \in Keys |-> NoPeer]]

SetPeer(w, k, item, psk) ==
  IF w.up
    THEN [w EXCEPT !.peers =
            [l \in Keys |-> IF l = k THEN [octet |-> item.octet, psk |-> psk]
                            ELSE IF w.peers[l].octet = item.octet THEN [w.peers[l] EXCEPT !.octet = 0]
                            ELSE w.peers[l]]]
    ELSE w

(* Mutant: the peer is left in place. *)
RemovePeerIgnored(w, k) == w

RemovePeer(w, k) == IF w.up THEN [w EXCEPT !.peers[k] = NoPeer] ELSE w

(* Start applies every restored lease; their addresses are distinct. *)
PeersOf(m) ==
  [k \in Keys |-> IF HasLease(m.alloc, k) /\ m.alloc.byKey[k].enabled
                    THEN [octet |-> m.alloc.byKey[k].octet, psk |-> m.psks[k]] ELSE NoPeer]

-----------------------------------------------------------------------------
(* What persistLocked writes: room.json and room.secret. *)
NoFile == [exists |-> FALSE, members |-> {}, joinEnabled |-> FALSE, blocked |-> {}]
NoSecret == [exists |-> FALSE, roomKey |-> 0, psks |-> [k \in Keys |-> 0]]

StateFile == [exists : BOOLEAN, members : SUBSET Lease, joinEnabled : BOOLEAN, blocked : SUBSET UIDs]
SecretFile == [exists : BOOLEAN, roomKey : PSKs, psks : [Keys -> PSKs]]

StateOf(m)  == [exists |-> TRUE, members |-> Snapshot(m.alloc), joinEnabled |-> m.joinEnabled, blocked |-> m.blocked]
SecretOf(m) == [exists |-> TRUE, roomKey |-> m.roomKey, psks |-> m.psks]

-----------------------------------------------------------------------------
(* Mutant: anybody is a member. *)
KnownMemberUnchecked(m, k) == m.running

(* knownMember, memberAuthKey: all stored leases that can exist are        *)
(* enabled; the flag is kept because a saved file may clear it.            *)
KnownMember(m, k) == m.running /\ HasLease(m.alloc, k) /\ m.alloc.byKey[k].enabled
HasAuthKey(m, k)  == KnownMember(m, k) /\ m.psks[k] # 0
BlockedUID(m, u)  == m.running /\ u \in m.blocked

(* assign: the conditions under which it gives (or confirms) a lease. *)
MayAssign(m, k, existingAuth) ==
  /\ m.running
  /\ m.joinEnabled \/ HasLease(m.alloc, k)
  /\ m.pending[k] = NoPending
  /\ existingAuth => HasLease(m.alloc, k) /\ m.alloc.byKey[k].enabled /\ m.psks[k] # 0
  /\ CanAssign(m.alloc, k)

(* assign: a member that authenticates with its PSK keeps it, any other    *)
(* device gets the PSK derived from the room key of its connection.        *)
Assigned(m, k, name, roomKey, existingAuth) ==
  [m EXCEPT !.alloc = Assign(m.alloc, k, name),
            !.pairAttempt = @ + 1,
            !.pending[k] = [token |-> m.pairAttempt + 1, previous |-> m.alloc.byKey[k],
                            previousPSK |-> m.psks[k], state |-> m.states[k]],
            !.psks[k] = IF existingAuth THEN @ ELSE roomKey,
            !.states[k] = "pairing"]

(* Mutant: the lease goes, although the device had it before the attempt. *)
RolledBackForgets(m, k, p) ==
  [m EXCEPT !.pending[k] = NoPending, !.alloc = Remove(@, k), !.psks[k] = p.previousPSK, !.states[k] = p.state]

(* rollbackPairLocked; an error of Restore is ignored. *)
RolledBack(m, k, p) ==
  [m EXCEPT !.pending[k] = NoPending,
            !.alloc = IF p.previous # NoLease THEN Restore(@, p.previous) ELSE Remove(@, k),
            !.psks[k] = p.previousPSK,
            !.states[k] = p.state]

RolledBackPeers(w, k, p) ==
  IF p.previous # NoLease /\ p.previousPSK # 0
    THEN SetPeer(w, k, p.previous, p.previousPSK)
    ELSE RemovePeer(w, k)

(* Mutant: the attempt stays pending. *)
AcknowledgedStillPending(m, k) == [m EXCEPT !.timers[k] = 0, !.states[k] = "configured"]

(* pairingAcknowledged. *)
Acknowledged(m, k) ==
  [m EXCEPT !.pending[k] = NoPending, !.timers[k] = 0, !.states[k] = "configured"]

(* The timer callback of pairingFailed: which leases it reclaims, and how. *)
Reclaims(m, t) ==
  /\ m.running
  /\ HasLease(m.alloc, t.key) /\ m.alloc.byKey[t.key].revision = t.revision
  /\ m.states[t.key] # "configured"

Reclaimed(m, k) ==
  [m EXCEPT !.timers[k] = 0, !.alloc = Remove(@, k), !.states[k] = "", !.psks[k] = 0]

(* Mutant: the device keeps a state the API does not know. *)
RemovedLeavesState(m, k, block) ==
  [m EXCEPT !.blocked = IF block THEN @ \cup {UidOf[k]} ELSE @,
            !.alloc = Remove(@, k), !.timers[k] = 0, !.states[k] = "removed", !.psks[k] = 0,
            !.uidKnown = @ \ {k}, !.pending[k] = NoPending]

(* removeMember, before it calls WireGuard, and its undo when WireGuard or *)
(* the save fails: the pending attempt and the timer are not put back.     *)
Removed(m, k, block) ==
  [m EXCEPT !.blocked = IF block THEN @ \cup {UidOf[k]} ELSE @,
            !.alloc = Remove(@, k), !.timers[k] = 0, !.states[k] = "", !.psks[k] = 0,
            !.uidKnown = @ \ {k}, !.pending[k] = NoPending]

RemoveUndone(m, k) ==
  [m EXCEPT !.timers[k] = 0, !.pending[k] = NoPending]

(* UpdateMemberStats: the leases with a recent handshake are online, the   *)
(* other ones that the statistics mention are configured.                  *)
StatsApplied(m, online, idle) ==
  [m EXCEPT !.states = [k \in Keys |-> IF ~HasLease(m.alloc, k) THEN m.states[k]
                                       ELSE IF k \in online THEN "online"
                                       ELSE IF k \in idle THEN "configured"
                                       ELSE m.states[k]]]

(* RenameMember's undo rebuilds the allocator from the leases it had. *)
RenameUndone(m) == [m EXCEPT !.alloc = NewAllocator(Snapshot(m.alloc))]

(* Create; the room key is a new one. *)
CreatedRoom(m, fixed, roomKey) ==
  [ClearedService(m) EXCEPT !.running = TRUE, !.fixedRoom = fixed, !.joinEnabled = TRUE, !.roomKey = roomKey]

(* Start: leases from room.json, PSKs from room.secret, a missing PSK is   *)
(* derived from the saved room key; nobody is known to be online.          *)
RestoredRoom(m, st, sec) ==
  LET a == NewAllocator(st.members)
  IN [ClearedService(m) EXCEPT
        !.running = TRUE, !.fixedRoom = TRUE, !.joinEnabled = st.joinEnabled,
        !.roomKey = sec.roomKey, !.alloc = a, !.blocked = st.blocked,
        !.states = [k \in Keys |-> IF HasLease(a, k) THEN "offline" ELSE ""],
        !.psks = [k \in Keys |-> IF HasLease(a, k) /\ a.byKey[k].enabled /\ sec.psks[k] = 0
                                   THEN sec.roomKey ELSE sec.psks[k]]]

(* Stop keeps the memory of a fixed room; every timer is forgotten. *)
StoppedRoom(m) ==
  LET s == [m EXCEPT !.running = FALSE, !.timers = [k \in Keys |-> 0]]
  IN IF m.fixedRoom THEN s ELSE ClearedService(s)
=============================================================================
