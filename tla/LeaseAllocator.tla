--------------------------- MODULE LeaseAllocator ---------------------------
(***************************************************************************)
(* The allocator of internal/lease as a state machine: every exported      *)
(* operation is one atomic action, as each holds Allocator.mu throughout.  *)
(* Besides the allocator the state holds what its callers keep between two *)
(* calls: `held`, the lease a caller last looked up for a key (the room    *)
(* service keeps one in pendingPair.previous or in a local variable) and   *)
(* may put back with Restore or name in RemoveIfRevision, and `saved`, the *)
(* leases of the last Snapshot that was written to room.json or kept by    *)
(* RenameMember and may be given to New.                                   *)
(***************************************************************************)
EXTENDS Leases

CONSTANT MaxRevision   \* bound of the model: no lease beyond this revision

VARIABLES alloc, held, saved

vars == <<alloc, held, saved>>

TypeOK ==
  /\ alloc \in Allocator
  /\ held \in [Keys -> Lease \cup {NoLease}]
  /\ saved \in SUBSET Lease

Init ==
  /\ alloc = EmptyAllocator
  /\ held = [k \in Keys |-> NoLease]
  /\ saved = {}

DoAssign(k, name) ==
  /\ CanAssign(alloc, k)
  /\ HasLease(alloc, k) \/ alloc.revision < MaxRevision
  /\ alloc' = Assign(alloc, k, name)
  /\ UNCHANGED <<held, saved>>

DoRemove(k) ==
  /\ HasLease(alloc, k)
  /\ alloc' = Remove(alloc, k)
  /\ UNCHANGED <<held, saved>>

LookUp(k) ==
  /\ HasLease(alloc, k)
  /\ held' = [held EXCEPT ![k] = alloc.byKey[k]]
  /\ UNCHANGED <<alloc, saved>>

DoRestore(k) ==
  /\ held[k] # NoLease
  /\ alloc' = Restore(alloc, held[k])
  /\ UNCHANGED <<held, saved>>

DoRemoveIfRevision(k) ==
  /\ held[k] # NoLease
  /\ alloc' = RemoveIfRevision(alloc, k, held[k].revision)
  /\ UNCHANGED <<held, saved>>

SaveSnapshot ==
  /\ saved' = Snapshot(alloc)
  /\ UNCHANGED <<alloc, held>>

DoNew ==
  /\ AcceptsInitial(saved)
  /\ alloc' = NewAllocator(saved)
  /\ UNCHANGED <<held, saved>>

KeyStep(k) ==
  \/ \E name \in Names : DoAssign(k, name)
  \/ DoRemove(k)
  \/ LookUp(k)
  \/ DoRestore(k)
  \/ DoRemoveIfRevision(k)

Next == (\E k \in Keys : KeyStep(k)) \/ SaveSnapshot \/ DoNew

Spec == Init /\ [][Next]_vars

-----------------------------------------------------------------------------
(* The allocator keeps its two indexes in step through every sequence of   *)
(* assignments, removals, restores and reloads: byKey and used agree, no   *)
(* address is leased twice, no revision exceeds the counter.               *)
AllocatorConsistent == Consistent(alloc)

(* Whatever a caller saved can always be loaded again: New never refuses   *)
(* a snapshot of the allocator (Start and RenameMember ignore or cannot    *)
(* recover from that error).                                               *)
SavedLoads == AcceptsInitial(saved)

(* A device keeps its address: no operation short of a reload moves a      *)
(* device that has a lease before and after it to another address, in      *)
(* particular not a Restore of an older lease.                             *)
AddressStable ==
  [][\A k \in Keys :
        HasLease(alloc, k) /\ HasLease(alloc', k) /\ alloc.byKey[k].octet # alloc'.byKey[k].octet
          => alloc' = NewAllocator(saved)]_vars

(* The allocator as an address pool: who owns which member address. *)
OwnerIn(items) ==
  [o \in MemberOctets |-> IF \E x \in items : x.octet = o
                            THEN (CHOOSE x \in items : x.octet = o).publicKey
                            ELSE NoLease]

Pool == INSTANCE AddressPool
          WITH Addresses <- MemberOctets, Free <- NoLease,
               owner <- OwnerIn(Snapshot(alloc)), saved <- OwnerIn(saved),
               remembered <- [k \in Keys |-> IF held[k] = NoLease THEN NoLease ELSE held[k].octet]

(* The allocator implements the address pool.  *)
ImplementsPool == Pool!PoolSpec
=============================================================================
