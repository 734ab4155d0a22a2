---------------------------- MODULE LeasesProofs ----------------------------
(***************************************************************************)
(* What the operators of the lease allocator (Leases) and of the room      *)
(* service (RoomOps: its critical sections, the WireGuard calls and the    *)
(* two files) return and preserve, for every set of devices, names and     *)
(* UIDs and every address range.                                           *)
(***************************************************************************)
EXTENDS RoomOps, WellFoundedInduction, TLAPS

(* Every non-empty set of naturals has a least element. *)
LEMMA MinOfNaturals ==
  ASSUME NEW S \in SUBSET Nat, S # {}
  PROVE  Min(S) \in S /\ \A y \in S : Min(S) <= y
<1> DEFINE Less == {ss \in Nat \X Nat : ss[1] < ss[2]}
<1>1. IsWellFoundedOn(Less, Nat)
  BY NatLessThanWellFounded, Zenon DEF OpToRel
<1>2. PICK x \in S : \A y \in S : ~(<<y, x>> \in Less)
  <2> HIDE DEF Less
  <2> QED BY <1>1, WFMin
<1>3. ASSUME NEW y \in S PROVE x <= y
  <2>1. x \in Nat /\ y \in Nat
    OBVIOUS
  <2>2. <<y, x>> \in Nat \X Nat /\ <<y, x>>[1] = y /\ <<y, x>>[2] = x
    BY <2>1
  <2>3. ~(y < x)
    BY <1>2, <2>2
  <2> QED
    BY <2>1, <2>3
<1> QED
  BY <1>3 DEF Min

(* Every non-empty bounded set of naturals has a greatest element. *)
LEMMA MaxOfNaturals ==
  ASSUME NEW S \in SUBSET Nat, S # {}, NEW b \in Nat, \A y \in S : y <= b
  PROVE  Max(S) \in S /\ \A y \in S : Max(S) >= y
<1> DEFINE Bounds == {n \in Nat : \A y \in S : y <= n}
<1>1. Bounds \in SUBSET Nat /\ b \in Bounds
  OBVIOUS
<1>2. PICK m \in Bounds : \A n \in Bounds : m <= n
  <2>1. Bounds # {}
    BY <1>1
  <2> QED
    BY <1>1, <2>1, MinOfNaturals
<1>3. m \in S
  <2>1. CASE m = 0
    <3>1. PICK y \in S : TRUE
      OBVIOUS
    <3>2. y \in Nat /\ y <= m
      BY <1>2, <3>1
    <3>3. y = m
      BY <2>1, <3>2
    <3> QED
      BY <3>3
  <2>2. CASE m # 0
    <3>1. m - 1 \in Nat /\ ~(m <= m - 1)
      BY <2>2, <1>2
    <3>2. m - 1 \notin Bounds
      BY <1>2, <3>1
    <3>3. PICK y \in S : ~(y <= m - 1)
      BY <3>1, <3>2
    <3>4. y <= m /\ y \in Nat /\ m \in Nat
      BY <1>2
    <3>5. y = m
      BY <3>3, <3>4
    <3> QED
      BY <3>5
  <2> QED
    BY <2>1, <2>2
<1>4. \A y \in S : m >= y
  BY <1>2
<1> QED
  BY <1>3, <1>4 DEF Max

(* Facts about the address range used throughout. *)
LEMMA OctetFacts ==
  /\ MemberOctets \subseteq Nat /\ MemberOctets \subseteq Octets
  /\ Reserved \subseteq Octets /\ Reserved \cap MemberOctets = {}
BY OctetAssumption DEF MemberOctets, Octets, Reserved

(* The fields of an allocator have their types. *)
LEMMA AllocatorFields ==
  ASSUME NEW a \in Allocator
  PROVE  /\ a.byKey \in [Keys -> Lease \cup {NoLease}]
         /\ a.used \in SUBSET Octets
         /\ a.revision \in Nat
         /\ \A k \in Keys : HasLease(a, k) => a.byKey[k] \in Lease
BY DEF Allocator, HasLease

(* A lease found under a key is in the snapshot, and conversely. *)
LEMMA SnapshotMembers ==
  ASSUME NEW a \in Allocator
  PROVE  /\ Snapshot(a) \subseteq Lease
         /\ \A k \in Keys : HasLease(a, k) => a.byKey[k] \in Snapshot(a)
         /\ \A x \in Snapshot(a) : \E k \in Keys : HasLease(a, k) /\ a.byKey[k] = x
BY DEF Allocator, HasLease, Snapshot

(* In a consistent allocator an octet is used iff it is reserved or leased *)
(* to somebody.                                                            *)
LEMMA UsedCharacterised ==
  ASSUME NEW a \in Allocator, Consistent(a), NEW o
  PROVE  o \in a.used <=> (o \in Reserved \/ \E k \in Keys : HasLease(a, k) /\ a.byKey[k].octet = o)
BY SnapshotMembers DEF Consistent, UsedIsHeld

(* Conversely, that characterisation establishes UsedIsHeld. *)
LEMMA UsedFromCharacterisation ==
  ASSUME NEW a \in Allocator,
         \A o : o \in a.used <=> (o \in Reserved \/ \E k \in Keys : HasLease(a, k) /\ a.byKey[k].octet = o)
  PROVE  UsedIsHeld(a)
BY SnapshotMembers DEF UsedIsHeld

(* New builds a consistent allocator holding exactly the given leases, if  *)
(* their revisions are positive and bounded.                               *)
LEMMA NewAllocatorConsistent ==
  ASSUME NEW items \in SUBSET Lease, AcceptsInitial(items),
         \A x \in items : x.revision # 0,
         NEW b \in Nat, \A x \in items : x.revision <= b
  PROVE  /\ NewAllocator(items) \in Allocator
         /\ Consistent(NewAllocator(items))
         /\ Snapshot(NewAllocator(items)) = items
<1> DEFINE a == NewAllocator(items)
           revs == {0} \cup {x.revision : x \in items}
<1>1. Max(revs) \in revs /\ \A y \in revs : Max(revs) >= y
  <2>1. revs \in SUBSET Nat /\ revs # {}
    BY DEF Lease
  <2>2. \A y \in revs : y <= b
    OBVIOUS
  <2> HIDE DEF revs
  <2> QED
    BY <2>1, <2>2, MaxOfNaturals
<1>2. a.revision = Max(revs) /\ a.revision \in Nat /\ \A x \in items : x.revision \in 1 .. a.revision
  <2>1. a.revision = Max(revs)
    BY DEF NewAllocator
  <2>2. revs \in SUBSET Nat
    BY DEF Lease
  <2>3. a.revision \in Nat
    BY <1>1, <2>1, <2>2
  <2>4. ASSUME NEW x \in items PROVE x.revision \in 1 .. a.revision
    <3>1. x.revision \in revs /\ x.revision \in Nat /\ x.revision # 0
      BY DEF Lease
    <3>2. a.revision >= x.revision
      BY <1>1, <2>1, <3>1
    <3> HIDE DEF a, revs
    <3> QED
      BY <2>3, <3>1, <3>2
  <2> QED
    BY <2>1, <2>3, <2>4
<1>3. \A x \in items : a.byKey[x.publicKey] = x
  <2> SUFFICES ASSUME NEW x \in items PROVE a.byKey[x.publicKey] = x
    OBVIOUS
  <2>1. x.publicKey \in Keys
    BY DEF Lease
  <2>2. \A y \in items : y.publicKey = x.publicKey => y = x
    BY DEF AcceptsInitial
  <2> QED
    BY <2>1, <2>2 DEF NewAllocator
<1>4. \A k \in Keys : IF \E x \in items : x.publicKey = k
                        THEN a.byKey[k] \in items /\ a.byKey[k].publicKey = k
                        ELSE a.byKey[k] = NoLease
  BY <1>3 DEF NewAllocator
<1>5. a \in Allocator
  <2>1. a.byKey \in [Keys -> Lease \cup {NoLease}]
    <3>1. a.byKey = [k \in Keys |-> a.byKey[k]]
      BY DEF NewAllocator
    <3>2. \A k \in Keys : a.byKey[k] \in Lease \cup {NoLease}
      BY <1>4
    <3> HIDE DEF a
    <3> QED
      BY <3>1, <3>2
  <2>2. a.used \in SUBSET Octets
    BY OctetFacts DEF NewAllocator, Lease
  <2>3. a = [byKey |-> a.byKey, used |-> a.used, revision |-> a.revision]
    BY DEF NewAllocator
  <2> HIDE DEF a
  <2> QED
    BY <1>2, <2>1, <2>2, <2>3 DEF Allocator
<1>6. \A k \in Keys : HasLease(a, k) <=> \E x \in items : x.publicKey = k
  BY <1>4, NoLeaseAssumption DEF HasLease
<1>7. \A k \in Keys : HasLease(a, k) => a.byKey[k] \in items /\ a.byKey[k].publicKey = k
  BY <1>4, <1>6
<1>8. Snapshot(a) = items
  <2>1. Snapshot(a) \subseteq items
    BY <1>4 DEF Snapshot
  <2>2. items \subseteq Snapshot(a)
    <3> SUFFICES ASSUME NEW x \in items PROVE x \in Snapshot(a)
      OBVIOUS
    <3>1. x.publicKey \in Keys /\ x # NoLease
      BY NoLeaseAssumption DEF Lease
    <3> HIDE DEF a
    <3> QED
      BY <1>3, <3>1 DEF Snapshot
  <2> QED
    BY <2>1, <2>2
<1>9. LeaseShape(a)
  <2> SUFFICES ASSUME NEW k \in Keys, HasLease(a, k)
               PROVE  a.byKey[k].publicKey = k /\ IsMemberAddress(a.byKey[k]) /\ a.byKey[k].revision \in 1 .. a.revision
    BY DEF LeaseShape
  <2>1. a.byKey[k] \in items /\ a.byKey[k].publicKey = k
    BY <1>7
  <2> HIDE DEF a
  <2> QED
    BY <2>1, <1>2 DEF AcceptsInitial
<1>10. DistinctAddresses(a)
  <2> HIDE DEF a
  <2> SUFFICES ASSUME NEW k \in Keys, NEW l \in Keys, k # l, HasLease(a, k), HasLease(a, l)
               PROVE  a.byKey[k].octet # a.byKey[l].octet
    BY DEF DistinctAddresses
  <2>1. a.byKey[k] \in items /\ a.byKey[l] \in items /\ a.byKey[k] # a.byKey[l]
    BY <1>7
  <2> QED
    BY <2>1 DEF AcceptsInitial
<1>11. UsedIsHeld(a)
  <2>1. a.used = Reserved \cup {x.octet : x \in items}
    BY DEF NewAllocator
  <2> QED
    BY <2>1, <1>8 DEF UsedIsHeld
<1> QED
  BY <1>5, <1>8, <1>9, <1>10, <1>11 DEF Consistent

(* An allocator without leases is consistent. *)
LEMMA EmptyAllocatorConsistent ==
  EmptyAllocator \in Allocator /\ Consistent(EmptyAllocator) /\ Snapshot(EmptyAllocator) = {}
<1>1. {} \in SUBSET Lease /\ AcceptsInitial({})
  BY DEF AcceptsInitial
<1> QED
  BY <1>1, NewAllocatorConsistent DEF EmptyAllocator

(* Assigning to a device without a lease leases it the lowest free         *)
(* address, nobody else's lease changes, and the allocator is consistent.  *)
LEMMA AssignNewConsistent ==
  ASSUME NEW a \in Allocator, Consistent(a), NEW k \in Keys, NEW name \in Names,
         ~HasLease(a, k), FreeOctets(a) # {}
  PROVE  LET c == AssignNew(a, k, name)
         IN /\ c \in Allocator /\ Consistent(c)
            /\ HasLease(c, k) /\ c.byKey[k].octet \in FreeOctets(a)
            /\ \A o \in FreeOctets(a) : c.byKey[k].octet <= o
            /\ \A l \in Keys \ {k} : c.byKey[l] = a.byKey[l]
<1> DEFINE m == Min(FreeOctets(a))
           item == [publicKey |-> k, octet |-> m, name |-> name, enabled |-> TRUE, revision |-> a.revision + 1]
           c == AssignNew(a, k, name)
<1>1. m \in FreeOctets(a) /\ \A o \in FreeOctets(a) : m <= o
  <2>1. FreeOctets(a) \in SUBSET Nat
    BY OctetFacts DEF FreeOctets
  <2> QED
    BY <2>1, MinOfNaturals
<1>2. m \in MemberOctets /\ m \notin a.used /\ m \in Octets
  BY <1>1, OctetFacts DEF FreeOctets
<1> HIDE DEF m
<1>3. item \in Lease /\ item # NoLease /\ item.octet = m /\ item.publicKey = k /\ item.revision = a.revision + 1
  <2>1. a.revision \in Nat
    BY AllocatorFields
  <2>2. a.revision + 1 \in Nat
    BY <2>1
  <2>3. item \in Lease
    BY <1>2, <2>2 DEF Lease
  <2> QED
    BY <2>3, NoLeaseAssumption
<1>4. c = [byKey |-> [a.byKey EXCEPT ![k] = item], used |-> a.used \cup {m}, revision |-> a.revision + 1]
  BY DEF AssignNew, m
<1> HIDE DEF c, item
<1>5. c.byKey = [a.byKey EXCEPT ![k] = item] /\ c.used = a.used \cup {m} /\ c.revision = a.revision + 1
  BY <1>4
<1>6. c \in Allocator
  BY <1>2, <1>3, <1>4, AllocatorFields DEF Allocator
<1>7. c.byKey[k] = item /\ \A l \in Keys \ {k} : c.byKey[l] = a.byKey[l]
  BY <1>5, AllocatorFields
<1>8. HasLease(c, k) /\ \A l \in Keys \ {k} : HasLease(c, l) <=> HasLease(a, l)
  BY <1>3, <1>7 DEF HasLease
<1>9. LeaseShape(c)
  <2> SUFFICES ASSUME NEW l \in Keys, HasLease(c, l)
               PROVE  c.byKey[l].publicKey = l /\ IsMemberAddress(c.byKey[l]) /\ c.byKey[l].revision \in 1 .. c.revision
    BY DEF LeaseShape
  <2>1. CASE l = k
    BY <2>1, <1>2, <1>3, <1>5, <1>7, AllocatorFields DEF IsMemberAddress
  <2>2. CASE l # k
    <3>1. HasLease(a, l) /\ c.byKey[l] = a.byKey[l]
      BY <2>2, <1>7, <1>8
    <3>2. a.byKey[l].publicKey = l /\ IsMemberAddress(a.byKey[l]) /\ a.byKey[l].revision \in 1 .. a.revision
      BY <3>1 DEF Consistent, LeaseShape
    <3> QED
      BY <3>1, <3>2, <1>5, AllocatorFields
  <2> QED
    BY <2>1, <2>2
<1>10. \A l \in Keys : HasLease(a, l) => a.byKey[l].octet # m
  BY <1>2, UsedCharacterised
<1>11. DistinctAddresses(c)
  BY <1>3, <1>7, <1>8, <1>10 DEF DistinctAddresses, Consistent
<1>12. UsedIsHeld(c)
  <2>1. ASSUME NEW o
        PROVE  o \in c.used <=> (o \in Reserved \/ \E l \in Keys : HasLease(c, l) /\ c.byKey[l].octet = o)
    <3>1. o \in a.used <=> (o \in Reserved \/ \E l \in Keys : HasLease(a, l) /\ a.byKey[l].octet = o)
      BY UsedCharacterised
    <3>2. o \in c.used <=> (o \in a.used \/ o = m)
      BY <1>5
    <3>3. (\E l \in Keys : HasLease(c, l) /\ c.byKey[l].octet = o)
             <=> (o = m \/ \E l \in Keys : HasLease(a, l) /\ a.byKey[l].octet = o)
      BY <1>3, <1>7, <1>8
    <3> QED
      BY <3>1, <3>2, <3>3
  <2> QED
    BY <2>1, <1>6, UsedFromCharacterisation
<1> QED
  BY <1>1, <1>3, <1>6, <1>7, <1>8, <1>9, <1>11, <1>12 DEF Consistent, c

(* Assigning to a device that has a lease changes only the name in it. *)
LEMMA AssignKnownConsistent ==
  ASSUME NEW a \in Allocator, Consistent(a), NEW k \in Keys, NEW name \in Names, HasLease(a, k)
  PROVE  LET c == Assign(a, k, name)
         IN /\ c \in Allocator /\ Consistent(c)
            /\ \A l \in Keys : HasLease(c, l) <=> HasLease(a, l)
            /\ \A l \in Keys : HasLease(a, l) => c.byKey[l].octet = a.byKey[l].octet
<1> DEFINE item == [a.byKey[k] EXCEPT !.name = name]
           c == Assign(a, k, name)
<1>1. a.byKey[k] \in Lease
  BY AllocatorFields
<1>2. /\ item \in Lease /\ item # NoLease /\ item.octet = a.byKey[k].octet
      /\ item.publicKey = a.byKey[k].publicKey /\ item.revision = a.byKey[k].revision
  BY <1>1, NoLeaseAssumption DEF Lease
<1>3. c = [a EXCEPT !.byKey = [a.byKey EXCEPT ![k] = item]]
  BY DEF Assign
<1> HIDE DEF c, item
<1>4. c \in Allocator /\ c.byKey = [a.byKey EXCEPT ![k] = item] /\ c.used = a.used /\ c.revision = a.revision
  BY <1>2, <1>3, AllocatorFields DEF Allocator
<1>5. c.byKey[k] = item /\ \A l \in Keys \ {k} : c.byKey[l] = a.byKey[l]
  BY <1>4, AllocatorFields
<1>6. \A l \in Keys : HasLease(c, l) <=> HasLease(a, l)
  BY <1>2, <1>5 DEF HasLease
<1>7. \A l \in Keys : HasLease(a, l) => /\ c.byKey[l].octet = a.byKey[l].octet
                                        /\ c.byKey[l].publicKey = a.byKey[l].publicKey
                                        /\ c.byKey[l].revision = a.byKey[l].revision
  BY <1>2, <1>5
<1>8. LeaseShape(c) /\ DistinctAddresses(c)
  BY <1>4, <1>6, <1>7 DEF Consistent, LeaseShape, DistinctAddresses, IsMemberAddress
<1>9. UsedIsHeld(c)
  <2>1. \A o : o \in c.used <=> (o \in Reserved \/ \E l \in Keys : HasLease(c, l) /\ c.byKey[l].octet = o)
    BY <1>4, <1>6, <1>7, UsedCharacterised
  <2> QED
    BY <2>1, <1>4, UsedFromCharacterisation
<1> QED
  BY <1>4, <1>6, <1>7, <1>8, <1>9 DEF Consistent, c

(* Removing a lease frees exactly its address and touches no other lease. *)
LEMMA RemoveConsistent ==
  ASSUME NEW a \in Allocator, Consistent(a), NEW k \in Keys
  PROVE  LET c == Remove(a, k)
         IN /\ c \in Allocator /\ Consistent(c)
            /\ ~HasLease(c, k)
            /\ \A l \in Keys \ {k} : c.byKey[l] = a.byKey[l]
<1> DEFINE c == Remove(a, k)
<1>1. CASE ~HasLease(a, k)
  BY <1>1 DEF Remove
<1>2. CASE HasLease(a, k)
  <2> DEFINE m == a.byKey[k].octet
  <2>1. c = [a EXCEPT !.byKey = [a.byKey EXCEPT ![k] = NoLease], !.used = a.used \ {m}]
    BY <1>2 DEF Remove
  <2> HIDE DEF c, m
  <2>2. c \in Allocator /\ c.byKey = [a.byKey EXCEPT ![k] = NoLease] /\ c.used = a.used \ {m} /\ c.revision = a.revision
    BY <2>1, AllocatorFields DEF Allocator
  <2>3. c.byKey[k] = NoLease /\ \A l \in Keys \ {k} : c.byKey[l] = a.byKey[l]
    BY <2>2, AllocatorFields
  <2>4. ~HasLease(c, k) /\ \A l \in Keys \ {k} : HasLease(c, l) <=> HasLease(a, l)
    BY <2>3 DEF HasLease
  <2>5. LeaseShape(c) /\ DistinctAddresses(c)
    BY <2>2, <2>3, <2>4 DEF Consistent, LeaseShape, DistinctAddresses
  <2>6. m \notin Reserved /\ \A l \in Keys \ {k} : HasLease(a, l) => a.byKey[l].octet # m
    BY <1>2, OctetFacts DEF Consistent, LeaseShape, DistinctAddresses, IsMemberAddress, m
  <2>7. UsedIsHeld(c)
    <3>1. ASSUME NEW o
          PROVE  o \in c.used <=> (o \in Reserved \/ \E l \in Keys : HasLease(c, l) /\ c.byKey[l].octet = o)
      <4>1. o \in a.used <=> (o \in Reserved \/ \E l \in Keys : HasLease(a, l) /\ a.byKey[l].octet = o)
        BY UsedCharacterised
      <4>2. o \in c.used <=> (o \in a.used /\ o # m)
        BY <2>2
      <4>3. (\E l \in Keys : HasLease(c, l) /\ c.byKey[l].octet = o)
               <=> (o # m /\ \E l \in Keys : HasLease(a, l) /\ a.byKey[l].octet = o)
        BY <2>3, <2>4, <2>6 DEF m
      <4> QED
        BY <4>1, <4>2, <4>3, <2>6
    <3> QED
      BY <3>1, <2>2, UsedFromCharacterisation
  <2> QED
    BY <2>2, <2>3, <2>4, <2>5, <2>7 DEF Consistent, c
<1> QED
  BY <1>1, <1>2

(* A restore that is not refused puts the lease back at its address, which *)
(* belonged to nobody else, and touches no other lease.                    *)
LEMMA RestoreConsistent ==
  ASSUME NEW a \in Allocator, Consistent(a), NEW item \in Lease, CanRestore(a, item)
  PROVE  LET c == Restore(a, item)
         IN /\ c \in Allocator /\ Consistent(c)
            /\ c.byKey[item.publicKey] = item
            /\ \A l \in Keys \ {item.publicKey} : c.byKey[l] = a.byKey[l]
            /\ \A l \in Keys \ {item.publicKey} : HasLease(a, l) => a.byKey[l].octet # item.octet
<1> DEFINE k == item.publicKey
           m == item.octet
           r == IF item.revision > a.revision THEN item.revision ELSE a.revision
           c == Restore(a, item)
<1>1. /\ k \in Keys /\ item # NoLease /\ m \in MemberOctets /\ m \in Octets
      /\ item.revision \in Nat /\ item.revision # 0
  BY NoLeaseAssumption, OctetFacts DEF Lease, CanRestore, IsMemberAddress
<1>2. r \in Nat /\ item.revision \in 1 .. r /\ a.revision <= r
  BY <1>1, AllocatorFields
<1>3. c = [byKey |-> [a.byKey EXCEPT ![k] = item], used |-> a.used \cup {m}, revision |-> r]
  BY DEF Restore
<1> HIDE DEF c, r
<1>4. c.byKey = [a.byKey EXCEPT ![k] = item] /\ c.used = a.used \cup {m} /\ c.revision = r
  BY <1>3
<1>5. c \in Allocator
  BY <1>1, <1>2, <1>3, AllocatorFields DEF Allocator
<1>6. c.byKey[k] = item /\ \A l \in Keys \ {k} : c.byKey[l] = a.byKey[l]
  BY <1>1, <1>4, AllocatorFields
<1>7. HasLease(c, k) /\ \A l \in Keys \ {k} : HasLease(c, l) <=> HasLease(a, l)
  BY <1>1, <1>6 DEF HasLease
<1>8. \A l \in Keys \ {k} : HasLease(a, l) => a.byKey[l].octet # m
  <2> SUFFICES ASSUME NEW l \in Keys \ {k}, HasLease(a, l), a.byKey[l].octet = m
               PROVE  FALSE
    OBVIOUS
  <2>1. m \in a.used
    BY UsedCharacterised
  <2>2. HasLease(a, k) /\ a.byKey[k].octet = m
    BY <2>1 DEF CanRestore
  <2> QED
    BY <1>1, <2>2 DEF Consistent, DistinctAddresses
<1>9. LeaseShape(c)
  <2> SUFFICES ASSUME NEW l \in Keys, HasLease(c, l)
               PROVE  c.byKey[l].publicKey = l /\ IsMemberAddress(c.byKey[l]) /\ c.byKey[l].revision \in 1 .. c.revision
    BY DEF LeaseShape
  <2>1. CASE l = k
    BY <2>1, <1>1, <1>2, <1>4, <1>6 DEF IsMemberAddress
  <2>2. CASE l # k
    <3>1. HasLease(a, l) /\ c.byKey[l] = a.byKey[l]
      BY <2>2, <1>6, <1>7
    <3>2. a.byKey[l].publicKey = l /\ IsMemberAddress(a.byKey[l]) /\ a.byKey[l].revision \in 1 .. a.revision
      BY <3>1 DEF Consistent, LeaseShape
    <3> QED
      BY <3>1, <3>2, <1>2, <1>4, AllocatorFields
  <2> QED
    BY <2>1, <2>2
<1>10. DistinctAddresses(c)
  <2> SUFFICES ASSUME NEW j \in Keys, NEW l \in Keys, j # l, HasLease(c, j), HasLease(c, l)
               PROVE  c.byKey[j].octet # c.byKey[l].octet
    BY DEF DistinctAddresses
  <2>1. CASE j # k /\ l # k
    BY <2>1, <1>6, <1>7 DEF DistinctAddresses, Consistent
  <2>2. CASE j = k
    BY <2>2, <1>6, <1>7, <1>8
  <2>3. CASE l = k
    BY <2>3, <1>6, <1>7, <1>8
  <2> QED
    BY <2>1, <2>2, <2>3
<1>11. UsedIsHeld(c)
  <2>1. ASSUME NEW o
        PROVE  o \in c.used <=> (o \in Reserved \/ \E l \in Keys : HasLease(c, l) /\ c.byKey[l].octet = o)
    <3>1. o \in a.used <=> (o \in Reserved \/ \E l \in Keys : HasLease(a, l) /\ a.byKey[l].octet = o)
      BY UsedCharacterised
    <3>2. o \in c.used <=> (o \in a.used \/ o = m)
      BY <1>4
    <3>3. HasLease(a, k) => a.byKey[k].octet = m
      BY DEF CanRestore
    <3>4. (\E l \in Keys : HasLease(c, l) /\ c.byKey[l].octet = o)
             <=> (o = m \/ \E l \in Keys : HasLease(a, l) /\ a.byKey[l].octet = o)
      BY <1>1, <1>6, <1>7, <3>3
    <3> QED
      BY <3>1, <3>2, <3>4
  <2> QED
    BY <2>1, <1>5, UsedFromCharacterisation
<1> QED
  BY <1>5, <1>6, <1>8, <1>9, <1>10, <1>11 DEF Consistent, c

(* A snapshot of a consistent allocator can be loaded again. *)
LEMMA SnapshotLoads ==
  ASSUME NEW a \in Allocator, Consistent(a)
  PROVE  /\ AcceptsInitial(Snapshot(a))
         /\ \A x \in Snapshot(a) : x.revision # 0 /\ x.revision <= a.revision
<1>1. \A x \in Snapshot(a) : \E k \in Keys : HasLease(a, k) /\ a.byKey[k] = x
  BY SnapshotMembers
<1>2. \A x \in Snapshot(a) : IsMemberAddress(x) /\ x.revision \in 1 .. a.revision
  BY <1>1 DEF Consistent, LeaseShape
<1>3. ASSUME NEW x \in Snapshot(a), NEW y \in Snapshot(a), x # y
      PROVE  x.publicKey # y.publicKey /\ x.octet # y.octet
  <2>1. PICK k \in Keys : HasLease(a, k) /\ a.byKey[k] = x
    BY <1>1
  <2>2. PICK l \in Keys : HasLease(a, l) /\ a.byKey[l] = y
    BY <1>1
  <2>3. k # l
    BY <2>1, <2>2, <1>3
  <2> QED
    BY <2>1, <2>2, <2>3 DEF Consistent, LeaseShape, DistinctAddresses
<1>4. AcceptsInitial(Snapshot(a))
  BY <1>2, <1>3 DEF AcceptsInitial
<1>5. \A x \in Snapshot(a) : x.revision # 0 /\ x.revision <= a.revision
  BY <1>2, AllocatorFields
<1> QED
  BY <1>4, <1>5

-----------------------------------------------------------------------------
(* The operators of RoomOps.                                               *)

(* What every operator of the service keeps: the types of its fields and a *)
(* consistent allocator.                                                   *)
GoodService(m) == m \in Service /\ Consistent(m.alloc)

(* The fields of a service have their types. *)
LEMMA ServiceFields ==
  ASSUME NEW m \in Service
  PROVE  /\ m.running \in BOOLEAN /\ m.fixedRoom \in BOOLEAN /\ m.joinEnabled \in BOOLEAN
         /\ m.roomKey \in PSKs /\ m.alloc \in Allocator
         /\ m.states \in [Keys -> MemberStates] /\ m.psks \in [Keys -> PSKs]
         /\ m.blocked \in SUBSET UIDs /\ m.uidKnown \in SUBSET Keys
         /\ m.pending \in [Keys -> Pending] /\ m.pairAttempt \in Nat /\ m.timers \in [Keys -> Nat]
BY DEF Service

(* The absent attempt is one. *)
LEMMA NoPendingTyped == NoPending \in Pending
BY RoomKeyAssumption DEF NoPending, Pending, PSKs, MemberStates

(* clearLocked leaves a well-formed service that does not run. *)
LEMMA ClearedGood ==
  ASSUME NEW n \in Nat, NEW timers \in [Keys -> Nat]
  PROVE  GoodService(Cleared(n, timers)) /\ Cleared(n, timers).running = FALSE
BY EmptyAllocatorConsistent, NoPendingTyped, RoomKeyAssumption
   DEF GoodService, Cleared, Service, PSKs, MemberStates

(* Assign keeps the allocator consistent, for a known and for a new        *)
(* device.                                                                 *)
LEMMA AssignGood ==
  ASSUME NEW a \in Allocator, Consistent(a), NEW k \in Keys, NEW name \in Names, CanAssign(a, k)
  PROVE  /\ Assign(a, k, name) \in Allocator /\ Consistent(Assign(a, k, name))
         /\ HasLease(Assign(a, k, name), k) /\ Assign(a, k, name).byKey[k] \in Lease
<1>1. CASE HasLease(a, k)
  BY <1>1, AssignKnownConsistent, AllocatorFields
<1>2. CASE ~HasLease(a, k)
  <2>1. Assign(a, k, name) = AssignNew(a, k, name) /\ FreeOctets(a) # {}
    BY <1>2 DEF Assign, CanAssign
  <2> QED
    BY <1>2, <2>1, AssignNewConsistent, AllocatorFields
<1> QED
  BY <1>1, <1>2

(* Changing a function at one point keeps its type. *)
LEMMA PointUpdate ==
  ASSUME NEW S, NEW T, NEW f \in [S -> T], NEW x \in S, NEW v \in T
  PROVE  [f EXCEPT ![x] = v] \in [S -> T]
OBVIOUS

(* assign keeps the service well formed, remembers the previous lease and  *)
(* pre-shared key for rollback under a new token, and touches no other     *)
(* device.                                                                 *)
LEMMA AssignedGood ==
  ASSUME NEW m, GoodService(m), NEW k \in Keys, NEW name \in Names, NEW roomKey \in PSKs,
         NEW existing \in BOOLEAN, CanAssign(m.alloc, k)
  PROVE  LET n == Assigned(m, k, name, roomKey, existing)
         IN /\ GoodService(n)
            /\ n.pending[k] \in Pending /\ n.pending[k].token = n.pairAttempt
            /\ n.pending[k].previous = m.alloc.byKey[k] /\ n.pending[k].previousPSK = m.psks[k]
            /\ \A l \in Keys \ {k} : n.pending[l] = m.pending[l]
            /\ n.alloc = Assign(m.alloc, k, name)
            /\ \A l \in Keys \ {k} : n.psks[l] = m.psks[l]
            /\ n.running = m.running /\ n.fixedRoom = m.fixedRoom
            /\ n.joinEnabled = m.joinEnabled /\ n.blocked = m.blocked /\ n.roomKey = m.roomKey
<1> DEFINE p == [token |-> m.pairAttempt + 1, previous |-> m.alloc.byKey[k],
                 previousPSK |-> m.psks[k], state |-> m.states[k]]
           psk == IF existing THEN m.psks[k] ELSE roomKey
           a == Assign(m.alloc, k, name)
           attempt == m.pairAttempt + 1
           pending == [m.pending EXCEPT ![k] = p]
           psks == [m.psks EXCEPT ![k] = psk]
           states == [m.states EXCEPT ![k] = "pairing"]
           n == Assigned(m, k, name, roomKey, existing)
<1>0. m \in Service /\ Consistent(m.alloc)
  BY DEF GoodService
<1>1. p \in Pending /\ p.token = attempt /\ p.previous = m.alloc.byKey[k] /\ p.previousPSK = m.psks[k]
  BY <1>0, ServiceFields, AllocatorFields DEF Pending
<1>2. a \in Allocator /\ Consistent(a)
  BY <1>0, ServiceFields, AssignGood
<1>3. n = [m EXCEPT !.alloc = a, !.pairAttempt = attempt, !.pending = pending,
                    !.psks = psks, !.states = states]
  BY <1>0 DEF Assigned, Service
<1>4. psk \in PSKs /\ "pairing" \in MemberStates /\ attempt \in Nat
  <2>1. m.psks[k] \in PSKs /\ m.pairAttempt \in Nat
    BY <1>0, ServiceFields
  <2>2. psk \in PSKs
    BY <2>1, Zenon
  <2> QED
    BY <2>1, <2>2 DEF MemberStates
<1> HIDE DEF p, psk
<1>5. /\ states \in [Keys -> MemberStates]
      /\ psks \in [Keys -> PSKs] /\ \A l \in Keys \ {k} : psks[l] = m.psks[l]
      /\ pending \in [Keys -> Pending] /\ pending[k] = p /\ \A l \in Keys \ {k} : pending[l] = m.pending[l]
  BY <1>0, <1>1, <1>4, ServiceFields, PointUpdate
<1> HIDE DEF a, attempt, pending, psks, states, n
<1>6. n \in Service /\ n.alloc = a /\ n.pairAttempt = attempt /\ n.pending = pending /\ n.psks = psks
  BY <1>0, <1>2, <1>3, <1>4, <1>5 DEF Service
<1>7. /\ n.running = m.running /\ n.fixedRoom = m.fixedRoom
      /\ n.joinEnabled = m.joinEnabled /\ n.blocked = m.blocked /\ n.roomKey = m.roomKey
  BY <1>0, <1>3 DEF Service
<1> QED
  BY <1>1, <1>2, <1>5, <1>6, <1>7 DEF GoodService, n, a

(* rollbackPairLocked keeps the service well formed and ends the attempt,  *)
(* whether Restore succeeds, is refused or the lease is removed.           *)
LEMMA RolledBackGood ==
  ASSUME NEW m, GoodService(m), NEW k \in Keys, NEW p \in Pending
  PROVE  LET n == RolledBack(m, k, p)
         IN /\ GoodService(n)
            /\ n.pending = [m.pending EXCEPT ![k] = NoPending]
            /\ n.alloc = IF p.previous # NoLease THEN Restore(m.alloc, p.previous) ELSE Remove(m.alloc, k)
            /\ n.psks = [m.psks EXCEPT ![k] = p.previousPSK]
            /\ n.running = m.running /\ n.fixedRoom = m.fixedRoom
            /\ n.joinEnabled = m.joinEnabled /\ n.blocked = m.blocked /\ n.roomKey = m.roomKey
<1> DEFINE a == IF p.previous # NoLease THEN Restore(m.alloc, p.previous) ELSE Remove(m.alloc, k)
           pending == [m.pending EXCEPT ![k] = NoPending]
           psks == [m.psks EXCEPT ![k] = p.previousPSK]
           states == [m.states EXCEPT ![k] = p.state]
           n == RolledBack(m, k, p)
<1>0. m \in Service /\ Consistent(m.alloc) /\ m.alloc \in Allocator
  BY ServiceFields DEF GoodService
<1>1. a \in Allocator /\ Consistent(a)
  <2>1. p.previous \in Lease \cup {NoLease}
    BY DEF Pending
  <2>2. CASE p.previous # NoLease /\ CanRestore(m.alloc, p.previous)
    BY <1>0, <2>1, <2>2, RestoreConsistent
  <2>3. CASE p.previous # NoLease /\ ~CanRestore(m.alloc, p.previous)
    BY <1>0, <2>3 DEF Restore
  <2>4. CASE p.previous = NoLease
    BY <1>0, <2>4, RemoveConsistent
  <2> QED
    BY <2>2, <2>3, <2>4
<1>2. n = [m EXCEPT !.pending = pending, !.alloc = a, !.psks = psks, !.states = states]
  BY <1>0 DEF RolledBack, Service
<1>3. p.previousPSK \in PSKs /\ p.state \in MemberStates
  BY DEF Pending
<1>4. pending \in [Keys -> Pending] /\ psks \in [Keys -> PSKs] /\ states \in [Keys -> MemberStates]
  BY <1>0, <1>3, NoPendingTyped, ServiceFields, PointUpdate
<1> HIDE DEF a, pending, psks, states, n
<1>5. n \in Service /\ n.pending = pending /\ n.alloc = a /\ n.psks = psks
  BY <1>0, <1>1, <1>2, <1>4 DEF Service
<1>6. /\ n.running = m.running /\ n.fixedRoom = m.fixedRoom
      /\ n.joinEnabled = m.joinEnabled /\ n.blocked = m.blocked /\ n.roomKey = m.roomKey
  BY <1>0, <1>2 DEF Service
<1> QED
  BY <1>1, <1>5, <1>6 DEF GoodService, n, a, pending, psks

(* pairingAcknowledged and the undo of removeMember end the attempt and    *)
(* change nothing that the files hold.                                     *)
LEMMA AcknowledgedGood ==
  ASSUME NEW m, GoodService(m), NEW k \in Keys
  PROVE  LET n == Acknowledged(m, k)
             u == RemoveUndone(m, k)
         IN /\ GoodService(n) /\ GoodService(u)
            /\ n.pending = [m.pending EXCEPT ![k] = NoPending] /\ u.pending = n.pending
            /\ n.running = m.running /\ StateOf(n) = StateOf(m) /\ SecretOf(n) = SecretOf(m)
            /\ u.running = m.running /\ StateOf(u) = StateOf(m) /\ SecretOf(u) = SecretOf(m)
            /\ n.fixedRoom = m.fixedRoom /\ u.fixedRoom = m.fixedRoom
<1> DEFINE pending == [m.pending EXCEPT ![k] = NoPending]
           timers == [m.timers EXCEPT ![k] = 0]
           states == [m.states EXCEPT ![k] = "configured"]
           n == Acknowledged(m, k)
           u == RemoveUndone(m, k)
<1>0. m \in Service /\ Consistent(m.alloc)
  BY DEF GoodService
<1>1. "configured" \in MemberStates
  BY DEF MemberStates
<1>2. pending \in [Keys -> Pending] /\ timers \in [Keys -> Nat] /\ states \in [Keys -> MemberStates]
  BY <1>0, <1>1, NoPendingTyped, ServiceFields, PointUpdate
<1>3. /\ n = [m EXCEPT !.pending = pending, !.timers = timers, !.states = states]
      /\ u = [m EXCEPT !.timers = timers, !.pending = pending]
  BY <1>0 DEF Acknowledged, RemoveUndone, Service
<1> HIDE DEF pending, timers, states, n, u
<1>4. n \in Service /\ u \in Service
  BY <1>0, <1>2, <1>3 DEF Service
<1>5. /\ n.pending = pending /\ n.alloc = m.alloc /\ n.running = m.running
      /\ n.joinEnabled = m.joinEnabled /\ n.blocked = m.blocked /\ n.roomKey = m.roomKey
      /\ n.psks = m.psks /\ n.fixedRoom = m.fixedRoom
  BY <1>0, <1>3 DEF Service
<1>6. /\ u.pending = pending /\ u.alloc = m.alloc /\ u.running = m.running
      /\ u.joinEnabled = m.joinEnabled /\ u.blocked = m.blocked /\ u.roomKey = m.roomKey
      /\ u.psks = m.psks /\ u.fixedRoom = m.fixedRoom
  BY <1>0, <1>3 DEF Service
<1>7. StateOf(n) = StateOf(m) /\ SecretOf(n) = SecretOf(m) /\ StateOf(u) = StateOf(m) /\ SecretOf(u) = SecretOf(m)
  BY <1>5, <1>6 DEF StateOf, SecretOf
<1> QED
  BY <1>0, <1>4, <1>5, <1>6, <1>7 DEF GoodService, n, u, pending

(* The callback of a pairing timer keeps the service well formed and       *)
(* leaves a pending attempt pending.                                       *)
LEMMA ReclaimedGood ==
  ASSUME NEW m, GoodService(m), NEW k \in Keys
  PROVE  LET n == Reclaimed(m, k)
         IN GoodService(n) /\ n.pending = m.pending /\ n.running = m.running /\ n.fixedRoom = m.fixedRoom
<1> DEFINE a == Remove(m.alloc, k)
           timers == [m.timers EXCEPT ![k] = 0]
           states == [m.states EXCEPT ![k] = ""]
           psks == [m.psks EXCEPT ![k] = 0]
           n == Reclaimed(m, k)
<1>0. m \in Service /\ Consistent(m.alloc)
  BY DEF GoodService
<1>1. a \in Allocator /\ Consistent(a)
  BY <1>0, RemoveConsistent, ServiceFields
<1>2. "" \in MemberStates /\ 0 \in PSKs
  BY RoomKeyAssumption DEF MemberStates, PSKs
<1>3. timers \in [Keys -> Nat] /\ states \in [Keys -> MemberStates] /\ psks \in [Keys -> PSKs]
  BY <1>0, <1>2, ServiceFields, PointUpdate
<1>4. n = [m EXCEPT !.timers = timers, !.alloc = a, !.states = states, !.psks = psks]
  BY <1>0 DEF Reclaimed, Service
<1> HIDE DEF a, timers, states, psks, n
<1>5. n \in Service /\ n.alloc = a /\ n.pending = m.pending /\ n.running = m.running /\ n.fixedRoom = m.fixedRoom
  BY <1>0, <1>1, <1>3, <1>4 DEF Service
<1> QED
  BY <1>1, <1>5 DEF GoodService, n

(* removeMember keeps the service well formed and ends the attempt. *)
LEMMA RemovedGood ==
  ASSUME NEW m, GoodService(m), NEW k \in Keys, NEW block \in BOOLEAN
  PROVE  LET n == Removed(m, k, block)
         IN /\ GoodService(n)
            /\ n.pending = [m.pending EXCEPT ![k] = NoPending]
            /\ n.running = m.running /\ n.fixedRoom = m.fixedRoom
<1> DEFINE a == Remove(m.alloc, k)
           blocked == IF block THEN m.blocked \cup {UidOf[k]} ELSE m.blocked
           timers == [m.timers EXCEPT ![k] = 0]
           states == [m.states EXCEPT ![k] = ""]
           psks == [m.psks EXCEPT ![k] = 0]
           known == m.uidKnown \ {k}
           pending == [m.pending EXCEPT ![k] = NoPending]
           n == Removed(m, k, block)
<1>0. m \in Service /\ Consistent(m.alloc)
  BY DEF GoodService
<1>1. a \in Allocator /\ Consistent(a)
  BY <1>0, RemoveConsistent, ServiceFields
<1>2. blocked \in SUBSET UIDs /\ known \in SUBSET Keys
  BY <1>0, UidAssumption, ServiceFields
<1>3. "" \in MemberStates /\ 0 \in PSKs
  BY RoomKeyAssumption DEF MemberStates, PSKs
<1>4. /\ timers \in [Keys -> Nat] /\ states \in [Keys -> MemberStates] /\ psks \in [Keys -> PSKs]
      /\ pending \in [Keys -> Pending]
  BY <1>0, <1>3, NoPendingTyped, ServiceFields, PointUpdate
<1>5. n = [m EXCEPT !.blocked = blocked, !.alloc = a, !.timers = timers, !.states = states,
                    !.psks = psks, !.uidKnown = known, !.pending = pending]
  BY <1>0 DEF Removed, Service
<1> HIDE DEF a, blocked, timers, states, psks, known, pending, n
<1>6. n \in Service /\ n.alloc = a /\ n.pending = pending /\ n.running = m.running /\ n.fixedRoom = m.fixedRoom
  BY <1>0, <1>1, <1>2, <1>4, <1>5 DEF Service
<1> QED
  BY <1>1, <1>6 DEF GoodService, n, pending

(* UpdateMemberStats keeps the service well formed. *)
LEMMA StatsGood ==
  ASSUME NEW m, GoodService(m), NEW online \in SUBSET Keys, NEW idle \in SUBSET Keys
  PROVE  GoodService(StatsApplied(m, online, idle))
BY ServiceFields DEF GoodService, StatsApplied, Service, MemberStates

(* The allocator that a failed RenameMember rebuilds from its own snapshot *)
(* is accepted and holds the same leases.                                  *)
LEMMA RenameUndoneGood ==
  ASSUME NEW m, GoodService(m)
  PROVE  /\ GoodService(RenameUndone(m))
         /\ Snapshot(RenameUndone(m).alloc) = Snapshot(m.alloc)
<1>1. m.alloc \in Allocator /\ Consistent(m.alloc)
  BY ServiceFields DEF GoodService
<1>2. /\ NewAllocator(Snapshot(m.alloc)) \in Allocator /\ Consistent(NewAllocator(Snapshot(m.alloc)))
      /\ Snapshot(NewAllocator(Snapshot(m.alloc))) = Snapshot(m.alloc)
  BY <1>1, SnapshotLoads, SnapshotMembers, AllocatorFields, NewAllocatorConsistent
<1> QED
  BY <1>2 DEF GoodService, RenameUndone, Service

(* Create yields a well-formed service. *)
LEMMA CreatedGood ==
  ASSUME NEW m, GoodService(m), NEW fixed \in BOOLEAN, NEW roomKey \in PSKs
  PROVE  GoodService(CreatedRoom(m, fixed, roomKey))
BY ClearedGood, ServiceFields DEF GoodService, CreatedRoom, ClearedService, Service

(* Stop yields a well-formed service that does not run. *)
LEMMA StoppedGood ==
  ASSUME NEW m, GoodService(m)
  PROVE  GoodService(StoppedRoom(m)) /\ ~StoppedRoom(m).running
<1> DEFINE s == [m EXCEPT !.running = FALSE, !.timers = [k \in Keys |-> 0]]
<1>1. GoodService(s) /\ ~s.running
  BY DEF GoodService, Service
<1>2. GoodService(ClearedService(s)) /\ ~ClearedService(s).running
  BY <1>1, ClearedGood, ServiceFields DEF GoodService, ClearedService
<1> QED
  BY <1>1, <1>2 DEF StoppedRoom

(* Saved leases that Start accepts, with positive and bounded revisions. *)
Loads(items) ==
  /\ AcceptsInitial(items)
  /\ \A x \in items : x.revision # 0
  /\ \E b \in Nat : \A x \in items : x.revision <= b

(* Start yields a well-formed service with the leases of room.json. *)
LEMMA RestoredGood ==
  ASSUME NEW m, GoodService(m), NEW st \in StateFile, NEW sec \in SecretFile, Loads(st.members)
  PROVE  /\ GoodService(RestoredRoom(m, st, sec))
         /\ Snapshot(RestoredRoom(m, st, sec).alloc) = st.members
<1> DEFINE a == NewAllocator(st.members)
           states == [k \in Keys |-> IF HasLease(a, k) THEN "offline" ELSE ""]
           psks == [k \in Keys |-> IF HasLease(a, k) /\ a.byKey[k].enabled /\ sec.psks[k] = 0
                                     THEN sec.roomKey ELSE sec.psks[k]]
           s == ClearedService(m)
<1>1. /\ st.members \in SUBSET Lease /\ st.joinEnabled \in BOOLEAN /\ st.blocked \in SUBSET UIDs
      /\ sec.roomKey \in PSKs /\ sec.psks \in [Keys -> PSKs]
  BY DEF StateFile, SecretFile
<1>2. a \in Allocator /\ Consistent(a) /\ Snapshot(a) = st.members
  BY <1>1, NewAllocatorConsistent DEF Loads
<1>3. states \in [Keys -> MemberStates] /\ psks \in [Keys -> PSKs]
  BY <1>1 DEF MemberStates
<1>4. GoodService(s)
  BY ClearedGood, ServiceFields DEF GoodService, ClearedService
<1>5. RestoredRoom(m, st, sec) =
        [s EXCEPT !.running = TRUE, !.fixedRoom = TRUE, !.joinEnabled = st.joinEnabled,
                  !.roomKey = sec.roomKey, !.alloc = a, !.blocked = st.blocked,
                  !.states = states, !.psks = psks]
  BY DEF RestoredRoom
<1> HIDE DEF a, states, psks, s
<1>6. RestoredRoom(m, st, sec) \in Service
  <2> DEFINE r == [s EXCEPT !.running = TRUE, !.fixedRoom = TRUE, !.joinEnabled = st.joinEnabled,
                            !.roomKey = sec.roomKey, !.blocked = st.blocked]
  <2>1. s \in Service
    BY <1>4 DEF GoodService
  <2>2. r \in Service
    BY <1>1, <2>1 DEF Service
  <2>3. RestoredRoom(m, st, sec) = [r EXCEPT !.alloc = a, !.states = states, !.psks = psks]
    BY <1>5, <2>1 DEF Service
  <2> HIDE DEF r
  <2> QED
    BY <1>2, <1>3, <2>2, <2>3 DEF Service
<1>7. RestoredRoom(m, st, sec).alloc = a
  BY <1>4, <1>5 DEF GoodService, Service
<1> QED
  BY <1>2, <1>6, <1>7 DEF GoodService

-----------------------------------------------------------------------------
(* The WireGuard calls keep the type of the device. *)
LEMMA PeersTyped ==
  ASSUME NEW w \in WireGuard, NEW k \in Keys, NEW item \in Lease, NEW psk \in PSKs
  PROVE  SetPeer(w, k, item, psk) \in WireGuard /\ RemovePeer(w, k) \in WireGuard
<1> DEFINE Peer == [octet : Octets, psk : PSKs]
<1>1. NoPeer \in Peer /\ 0 \in Octets /\ item.octet \in Octets
  BY OctetAssumption, RoomKeyAssumption DEF NoPeer, PSKs, Octets, Lease
<1>2. w.peers \in [Keys -> Peer] /\ w.up \in BOOLEAN
  BY DEF WireGuard
<1>3. [l \in Keys |-> IF l = k THEN [octet |-> item.octet, psk |-> psk]
                      ELSE IF w.peers[l].octet = item.octet THEN [w.peers[l] EXCEPT !.octet = 0]
                      ELSE w.peers[l]] \in [Keys -> Peer]
  BY <1>1, <1>2
<1>4. SetPeer(w, k, item, psk) \in WireGuard
  BY <1>3 DEF SetPeer, WireGuard
<1>5. RemovePeer(w, k) \in WireGuard
  BY <1>1, <1>2 DEF RemovePeer, WireGuard
<1> QED
  BY <1>4, <1>5

(* RemovePeer alone needs no lease. *)
LEMMA RemovePeerTyped ==
  ASSUME NEW w \in WireGuard, NEW k \in Keys
  PROVE  RemovePeer(w, k) \in WireGuard
<1>1. NoPeer \in [octet : Octets, psk : PSKs]
  BY OctetAssumption, RoomKeyAssumption DEF NoPeer, PSKs, Octets
<1> QED
  BY <1>1 DEF RemovePeer, WireGuard

(* The WireGuard calls of a rollback keep the type of the device. *)
LEMMA RolledBackPeersTyped ==
  ASSUME NEW w \in WireGuard, NEW k \in Keys, NEW p \in Pending
  PROVE  RolledBackPeers(w, k, p) \in WireGuard
<1>1. p.previous \in Lease \cup {NoLease} /\ p.previousPSK \in PSKs
  BY DEF Pending
<1> QED
  BY <1>1, PeersTyped, RemovePeerTyped DEF RolledBackPeers

(* The devices that Create, Start and Stop leave behind are devices. *)
LEMMA NetworksTyped ==
  /\ NetworkUp \in WireGuard /\ NetworkDown \in WireGuard
  /\ \A m \in Service : [NetworkUp EXCEPT !.peers = PeersOf(m)] \in WireGuard
<1>1. NoPeer \in [octet : Octets, psk : PSKs]
  BY OctetAssumption, RoomKeyAssumption DEF NoPeer, PSKs, Octets
<1>2. ASSUME NEW m \in Service PROVE PeersOf(m) \in [Keys -> [octet : Octets, psk : PSKs]]
  <2>1. ASSUME NEW k \in Keys, HasLease(m.alloc, k)
        PROVE  [octet |-> m.alloc.byKey[k].octet, psk |-> m.psks[k]] \in [octet : Octets, psk : PSKs]
    BY <2>1, ServiceFields, AllocatorFields DEF Lease
  <2> QED
    BY <1>1, <2>1 DEF PeersOf
<1> QED
  BY <1>1, <1>2 DEF NetworkUp, NetworkDown, WireGuard

-----------------------------------------------------------------------------
(* The fields of the service after a change of the named ones only. *)
LEMMA PendingAfter ==
  ASSUME NEW m \in Service, NEW k \in Keys
  PROVE  \A l \in Keys : [m.pending EXCEPT ![k] = NoPending][l] \in {NoPending, m.pending[l]}
BY ServiceFields

(* Allocators with the same leases have the same snapshot. *)
LEMMA SameLeases ==
  ASSUME NEW a \in Allocator, NEW b \in Allocator, \A k \in Keys : b.byKey[k] = a.byKey[k]
  PROVE  Snapshot(b) = Snapshot(a)
BY DEF Snapshot

(* Conversely, consistent allocators with the same snapshot have the same  *)
(* leases.                                                                 *)
LEMMA SnapshotDetermines ==
  ASSUME NEW a \in Allocator, NEW b \in Allocator, Consistent(a), Consistent(b), Snapshot(b) = Snapshot(a),
         NEW k \in Keys
  PROVE  b.byKey[k] = a.byKey[k]
<1>1. ASSUME NEW c \in Allocator, NEW d \in Allocator, Consistent(c), Consistent(d), Snapshot(d) = Snapshot(c),
             HasLease(c, k)
      PROVE  d.byKey[k] = c.byKey[k]
  <2>1. PICK l \in Keys : HasLease(d, l) /\ d.byKey[l] = c.byKey[k]
    BY <1>1, SnapshotMembers
  <2>2. d.byKey[l].publicKey = l /\ c.byKey[k].publicKey = k
    BY <1>1, <2>1 DEF Consistent, LeaseShape
  <2> QED
    BY <2>1, <2>2
<1>2. CASE HasLease(a, k)
  BY <1>1, <1>2
<1>3. CASE HasLease(b, k)
  BY <1>1, <1>3
<1> QED
  BY <1>2, <1>3 DEF HasLease

(* Assign gives the device an enabled lease, keeps the address of a known  *)
(* one and touches no other lease.                                         *)
LEMMA AssignFacts ==
  ASSUME NEW a \in Allocator, Consistent(a), NEW k \in Keys, NEW name \in Names, CanAssign(a, k)
  PROVE  LET b == Assign(a, k, name)
         IN /\ HasLease(b, k)
            /\ \A l \in Keys \ {k} : b.byKey[l] = a.byKey[l]
            /\ HasLease(a, k) => /\ b.byKey[k].octet = a.byKey[k].octet
                                 /\ b.byKey[k].enabled = a.byKey[k].enabled
            /\ ~HasLease(a, k) => b.byKey[k].enabled
<1> DEFINE b == Assign(a, k, name)
<1>1. CASE HasLease(a, k)
  <2>1. b = [a EXCEPT !.byKey[k].name = name]
    BY <1>1 DEF Assign
  <2>2. a.byKey[k] \in Lease /\ a.byKey \in [Keys -> Lease \cup {NoLease}]
    BY <1>1, AllocatorFields
  <2>3. b.byKey = [a.byKey EXCEPT ![k] = [a.byKey[k] EXCEPT !.name = name]]
    BY <2>1 DEF Allocator
  <2> HIDE DEF b
  <2>4. b.byKey[k].octet = a.byKey[k].octet /\ b.byKey[k].enabled = a.byKey[k].enabled
    BY <2>2, <2>3 DEF Lease
  <2>5. \A l \in Keys \ {k} : b.byKey[l] = a.byKey[l]
    BY <2>2, <2>3
  <2>6. HasLease(b, k)
    BY AssignGood DEF b
  <2> QED
    BY <1>1, <2>4, <2>5, <2>6 DEF b
<1>2. CASE ~HasLease(a, k)
  <2>1. b = AssignNew(a, k, name) /\ FreeOctets(a) # {}
    BY <1>2 DEF Assign, CanAssign
  <2>2. HasLease(b, k) /\ \A l \in Keys \ {k} : b.byKey[l] = a.byKey[l]
    BY <1>2, <2>1, AssignNewConsistent
  <2>3. b.byKey[k].enabled
    BY <2>1 DEF AssignNew, Allocator
  <2> QED
    BY <1>2, <2>2, <2>3
<1> QED
  BY <1>1, <1>2

(* The allocator that RenameMember rebuilds holds the same leases. *)
LEMMA RenameUndoneSame ==
  ASSUME NEW m, GoodService(m), NEW k \in Keys
  PROVE  RenameUndone(m).alloc.byKey[k] = m.alloc.byKey[k]
<1> DEFINE u == RenameUndone(m)
           a == m.alloc
           b == u.alloc
<1>1. a \in Allocator /\ Consistent(a) /\ b \in Allocator /\ Consistent(b) /\ Snapshot(b) = Snapshot(a)
  BY RenameUndoneGood, ServiceFields DEF GoodService
<1> HIDE DEF a, b
<1>2. ASSUME NEW x \in Allocator, NEW y \in Allocator, Consistent(x), Consistent(y), Snapshot(x) = Snapshot(y),
             HasLease(x, k)
      PROVE  y.byKey[k] = x.byKey[k]
  <2>1. x.byKey[k] \in Snapshot(y) /\ x.byKey[k].publicKey = k
    BY <1>2, SnapshotMembers DEF Consistent, LeaseShape
  <2>2. PICK l \in Keys : HasLease(y, l) /\ y.byKey[l] = x.byKey[k]
    BY <2>1, SnapshotMembers
  <2>3. l = k
    BY <1>2, <2>1, <2>2 DEF Consistent, LeaseShape
  <2> QED
    BY <2>2, <2>3
<1>3. b.byKey[k] = a.byKey[k]
  BY <1>1, <1>2 DEF HasLease
<1> QED
  BY <1>3 DEF a, b

(* The peer that m calls for does not depend on the other devices. *)
LEMMA PeerFields ==
  ASSUME NEW m, NEW n, NEW k \in Keys, HasLease(n.alloc, k) <=> HasLease(m.alloc, k),
         HasLease(n.alloc, k) => /\ n.alloc.byKey[k].octet = m.alloc.byKey[k].octet
                                 /\ n.alloc.byKey[k].enabled = m.alloc.byKey[k].enabled
                                 /\ n.psks[k] = m.psks[k]
  PROVE  PeersOf(n)[k] = PeersOf(m)[k]
BY DEF PeersOf

(* Setting the peer of a device whose lease has the address does not take  *)
(* the address from another peer.                                          *)
LEMMA SetPeerMatches ==
  ASSUME NEW n, GoodService(n), NEW w \in WireGuard, w.up, NEW k \in Keys, NEW item,
         HasLease(n.alloc, k), n.alloc.byKey[k].enabled, item.octet = n.alloc.byKey[k].octet,
         \A l \in Keys \ {k} : w.peers[l] = PeersOf(n)[l]
  PROVE  SetPeer(w, k, item, n.psks[k]).up /\ SetPeer(w, k, item, n.psks[k]).peers = PeersOf(n)
<1> DEFINE a == n.alloc
           peers == [l \in Keys |-> IF l = k THEN [octet |-> item.octet, psk |-> n.psks[k]]
                                    ELSE IF w.peers[l].octet = item.octet THEN [w.peers[l] EXCEPT !.octet = 0]
                                    ELSE w.peers[l]]
<1>1. a \in Allocator /\ Consistent(a)
  BY ServiceFields DEF GoodService
<1>2. item.octet \in Nat /\ item.octet # 0
  BY <1>1, OctetAssumption DEF Consistent, LeaseShape, IsMemberAddress, MemberOctets
<1>3. ASSUME NEW l \in Keys, l # k PROVE w.peers[l].octet # item.octet
  <2>1. CASE HasLease(a, l) /\ a.byKey[l].enabled
    <3>1. w.peers[l] = [octet |-> a.byKey[l].octet, psk |-> n.psks[l]]
      BY <1>3, <2>1 DEF PeersOf
    <3> QED
      BY <1>1, <1>3, <2>1, <3>1 DEF Consistent, DistinctAddresses
  <2>2. CASE ~(HasLease(a, l) /\ a.byKey[l].enabled)
    <3>1. w.peers[l] = NoPeer
      BY <1>3, <2>2 DEF PeersOf
    <3> QED
      BY <1>2, <3>1 DEF NoPeer
  <2> QED
    BY <2>1, <2>2
<1>4. PeersOf(n)[k] = [octet |-> item.octet, psk |-> n.psks[k]]
  BY DEF PeersOf
<1>5. \A l \in Keys : peers[l] = PeersOf(n)[l]
  BY <1>3, <1>4
<1>6. peers = PeersOf(n)
  BY <1>5 DEF PeersOf
<1>7. SetPeer(w, k, item, n.psks[k]) = [w EXCEPT !.peers = peers]
  BY DEF SetPeer
<1> HIDE DEF peers
<1> QED
  BY <1>6, <1>7 DEF WireGuard

(* Removing the peer of a device without lease makes the peers match. *)
LEMMA RemovePeerMatches ==
  ASSUME NEW n, NEW w \in WireGuard, w.up, NEW k \in Keys, ~HasLease(n.alloc, k),
         \A l \in Keys \ {k} : w.peers[l] = PeersOf(n)[l]
  PROVE  RemovePeer(w, k).up /\ RemovePeer(w, k).peers = PeersOf(n)
<1> DEFINE peers == [w.peers EXCEPT ![k] = NoPeer]
<1>1. w.peers \in [Keys -> [octet : Octets, psk : PSKs]] /\ PeersOf(n)[k] = NoPeer
  BY DEF WireGuard, PeersOf
<1>2. \A l \in Keys : peers[l] = PeersOf(n)[l]
  BY <1>1
<1>3. peers = PeersOf(n)
  BY <1>1, <1>2 DEF PeersOf
<1>4. RemovePeer(w, k) = [w EXCEPT !.peers = peers]
  BY DEF RemovePeer, WireGuard
<1> HIDE DEF peers
<1> QED
  BY <1>3, <1>4 DEF WireGuard

(* The WireGuard calls do not take the device down. *)
LEMMA PeerCallsUp ==
  ASSUME NEW w \in WireGuard, w.up, NEW k \in Keys, NEW item, NEW psk
  PROVE  SetPeer(w, k, item, psk).up /\ RemovePeer(w, k).up
<1>1. \A peers : [w EXCEPT !.peers = peers].up
  BY DEF WireGuard
<1>2. RemovePeer(w, k) = [w EXCEPT !.peers = [w.peers EXCEPT ![k] = NoPeer]]
  BY DEF RemovePeer, WireGuard
<1>3. SetPeer(w, k, item, psk).up
  BY <1>1, Zenon DEF SetPeer
<1> QED
  BY <1>1, <1>2, <1>3

(* A rollback does not take the device down. *)
LEMMA RolledBackPeersUp ==
  ASSUME NEW w \in WireGuard, w.up, NEW k \in Keys, NEW p
  PROVE  RolledBackPeers(w, k, p).up
BY PeerCallsUp DEF RolledBackPeers
=============================================================================
