------------------------------- MODULE Leases -------------------------------
(***************************************************************************)
(* The address-lease allocator of internal/lease as pure operators on an   *)
(* allocator value: a record with the fields of the Go struct,             *)
(*   byKey    : the lease of each device key, or NoLease,                  *)
(*   used     : the last octets that are taken or reserved,                *)
(*   revision : the revision given to the newest lease.                    *)
(* An address 10.0.23.o is represented by its last octet o; the code's     *)
(* pool is FirstOctet = 2 .. LastOctet = 254, and 0, 1 and 255 (network,   *)
(* host and broadcast) are reserved.  Device keys are the non-zero ones:   *)
(* every operation of the code refuses the zero key.                       *)
(***************************************************************************)
EXTENDS Naturals, FiniteSetsExt

CONSTANTS Keys,        \* device public keys
          Names,       \* device names
          FirstOctet,  \* lowest member octet (2 in the code)
          LastOctet,   \* highest member octet (254 in the code)
          NoLease      \* "key not in byKey"

ASSUME OctetAssumption ==
  FirstOctet \in Nat /\ LastOctet \in Nat /\ 1 <= FirstOctet /\ FirstOctet <= LastOctet

MemberOctets == FirstOctet .. LastOctet
Octets       == 0 .. (LastOctet + 1)
Reserved     == Octets \ MemberOctets

(* A lease as a caller may hand it in: its address need not be a member's. *)
Lease == [publicKey : Keys, octet : Octets, name : Names,
          enabled : BOOLEAN, revision : Nat]

ASSUME NoLeaseAssumption == NoLease \notin Lease /\ NoLease \notin Keys

Allocator == [byKey : [Keys -> Lease \cup {NoLease}],
              used : SUBSET Octets,
              revision : Nat]

HasLease(a, k) == a.byKey[k] # NoLease

(* memberOctet: whether the address of a lease is a member address. *)
IsMemberAddress(item) == item.octet \in MemberOctets

(* Snapshot: every lease (the order of the Go slice is not used). *)
Snapshot(a) == {a.byKey[k] : k \in Keys} \ {NoLease}

-----------------------------------------------------------------------------
(* New: an allocator holding the given leases; refused (ErrInvalid) when   *)
(* an address is not a member's or two leases share a key or an address.   *)
AcceptsInitial(items) ==
  /\ \A x \in items : IsMemberAddress(x)
  /\ \A x, y \in items : x # y => x.publicKey # y.publicKey /\ x.octet # y.octet

NewAllocator(items) ==
  [byKey    |-> [k \in Keys |-> IF \E x \in items : x.publicKey = k
                                  THEN CHOOSE x \in items : x.publicKey = k
                                  ELSE NoLease],
   used     |-> Reserved \cup {x.octet : x \in items},
   revision |-> Max({0} \cup {x.revision : x \in items})]

EmptyAllocator == NewAllocator({})

(* Assign: an existing lease is kept and only renamed; a new device gets   *)
(* the lowest free address and the next revision; ErrFull when none left.  *)
FreeOctets(a) == MemberOctets \ a.used

CanAssign(a, k) == HasLease(a, k) \/ FreeOctets(a) # {}

(* Mutant: the search starts at the top. *)
AssignNewHighest(a, k, name) ==
  LET octet == Max(FreeOctets(a))
  IN [byKey    |-> [a.byKey EXCEPT ![k] = [publicKey |-> k, octet |-> octet, name |-> name,
                                           enabled |-> TRUE, revision |-> a.revision + 1]],
      used     |-> a.used \cup {octet},
      revision |-> a.revision + 1]

AssignNew(a, k, name) ==
  LET item == [publicKey |-> k, octet |-> Min(FreeOctets(a)), name |-> name,
               enabled |-> TRUE, revision |-> a.revision + 1]
  IN [byKey    |-> [a.byKey EXCEPT ![k] = item],
      used     |-> a.used \cup {item.octet},
      revision |-> a.revision + 1]

Assign(a, k, name) ==
  IF HasLease(a, k) THEN [a EXCEPT !.byKey[k].name = name] ELSE AssignNew(a, k, name)

(* Mutant: the octet stays in use. *)
RemoveKeepsOctet(a, k) == [a EXCEPT !.byKey[k] = NoLease]

(* Remove frees the address; removing an unknown key changes nothing. *)
Remove(a, k) ==
  IF HasLease(a, k)
    THEN [a EXCEPT !.byKey[k] = NoLease, !.used = @ \ {a.byKey[k].octet}]
    ELSE a

RemoveIfRevision(a, k, revision) ==
  IF HasLease(a, k) /\ a.byKey[k].revision = revision THEN Remove(a, k) ELSE a

(* Mutant: the address may have a new owner. *)
CanRestoreTaken(a, item) ==
  /\ IsMemberAddress(item) /\ item.revision # 0
  /\ HasLease(a, item.publicKey) => a.byKey[item.publicKey].octet = item.octet

(* Restore puts a lease back at its own address: refused when the key now  *)
(* has another address or the address now belongs to another key.          *)
CanRestore(a, item) ==
  /\ IsMemberAddress(item) /\ item.revision # 0
  /\ HasLease(a, item.publicKey) => a.byKey[item.publicKey].octet = item.octet
  /\ item.octet \in a.used => HasLease(a, item.publicKey)

Restore(a, item) ==
  IF CanRestore(a, item)
    THEN [byKey    |-> [a.byKey EXCEPT ![item.publicKey] = item],
          used     |-> a.used \cup {item.octet},
          revision |-> IF item.revision > a.revision THEN item.revision ELSE a.revision]
    ELSE a

-----------------------------------------------------------------------------
(* Every address is held by at most one key and the octets marked used are *)
(* exactly the reserved ones and the held ones, so that a lease can never  *)
(* be handed out twice nor an address leak.                                *)
LeaseShape(a) ==
  \A k \in Keys : HasLease(a, k) =>
     /\ a.byKey[k].publicKey = k
     /\ IsMemberAddress(a.byKey[k])
     /\ a.byKey[k].revision \in 1 .. a.revision

DistinctAddresses(a) ==
  \A k, l \in Keys :
     k # l /\ HasLease(a, k) /\ HasLease(a, l) => a.byKey[k].octet # a.byKey[l].octet

UsedIsHeld(a) ==
  a.used = Reserved \cup {x.octet : x \in Snapshot(a)}

Consistent(a) == LeaseShape(a) /\ DistinctAddresses(a) /\ UsedIsHeld(a)
=============================================================================
