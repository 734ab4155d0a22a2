----------------------------- MODULE DataProofs -----------------------------
(***************************************************************************)
(* The three data structures of MCData, each for every value of its        *)
(* constants: the lease allocator as a state machine, the whitelist tree,  *)
(* and the room's files.                                                   *)
(***************************************************************************)
EXTENDS LeaseAllocator, IPTree, RoomFiles, LeasesProofs

(* A lease in a caller's hands once was a lease of the allocator. *)
HeldShape ==
  \A k \in Keys : held[k] # NoLease =>
     held[k].publicKey = k /\ IsMemberAddress(held[k]) /\ held[k].revision # 0

(* So was every saved lease; their revisions are positive and bounded. *)
SavedShape ==
  /\ AcceptsInitial(saved)
  /\ \A x \in saved : x.revision # 0
  /\ \E b \in Nat : \A x \in saved : x.revision <= b

(* The inductive invariant: consistency of the allocator alone is not      *)
(* inductive, since Restore and New bring back what callers kept.          *)
IInv == TypeOK /\ AllocatorConsistent /\ HeldShape /\ SavedShape

(* The empty allocator, with nothing looked up or saved, satisfies it. *)
LEMMA InitIInv == Init => IInv
<1> SUFFICES ASSUME Init PROVE IInv
  OBVIOUS
<1>1. alloc \in Allocator /\ Consistent(alloc)
  BY EmptyAllocatorConsistent DEF Init
<1>2. TypeOK
  BY <1>1 DEF Init, TypeOK
<1>3. HeldShape
  BY DEF Init, HeldShape
<1>4. SavedShape
  <2>1. 0 \in Nat /\ \A x \in {} : x.revision <= 0
    OBVIOUS
  <2> QED
    BY <2>1 DEF Init, SavedShape, AcceptsInitial
<1> QED
  BY <1>1, <1>2, <1>3, <1>4 DEF IInv, AllocatorConsistent

(* Every step preserves the inductive invariant. *)
LEMMA NextIInv == IInv /\ [Next]_vars => IInv'
<1> SUFFICES ASSUME IInv, [Next]_vars PROVE IInv'
  OBVIOUS
<1> USE DEF IInv
<1>0. alloc \in Allocator /\ Consistent(alloc) /\ held \in [Keys -> Lease \cup {NoLease}] /\ saved \in SUBSET Lease
  BY DEF TypeOK, AllocatorConsistent
<1> DEFINE Good == alloc' \in Allocator /\ Consistent(alloc')
<1>1. ASSUME NEW k \in Keys, NEW nm \in Names, DoAssign(k, nm) PROVE Good /\ UNCHANGED <<held, saved>>
  <2>1. alloc' = Assign(alloc, k, nm) /\ UNCHANGED <<held, saved>> /\ CanAssign(alloc, k)
    BY <1>1 DEF DoAssign
  <2>2. CASE HasLease(alloc, k)
    BY <1>0, <2>1, <2>2, AssignKnownConsistent
  <2>3. CASE ~HasLease(alloc, k)
    <3>1. FreeOctets(alloc) # {} /\ alloc' = AssignNew(alloc, k, nm)
      BY <2>1, <2>3 DEF CanAssign, Assign
    <3> QED
      BY <1>0, <2>1, <2>3, <3>1, AssignNewConsistent
  <2> QED
    BY <2>2, <2>3
<1>2. ASSUME NEW k \in Keys, DoRemove(k) PROVE Good /\ UNCHANGED <<held, saved>>
  BY <1>0, <1>2, RemoveConsistent DEF DoRemove
<1>3. ASSUME NEW k \in Keys, DoRestore(k) PROVE Good /\ UNCHANGED <<held, saved>>
  <2>1. held[k] \in Lease /\ alloc' = Restore(alloc, held[k]) /\ UNCHANGED <<held, saved>>
    BY <1>0, <1>3 DEF DoRestore
  <2>2. CASE CanRestore(alloc, held[k])
    BY <1>0, <2>1, <2>2, RestoreConsistent
  <2>3. CASE ~CanRestore(alloc, held[k])
    BY <1>0, <2>1, <2>3 DEF Restore
  <2> QED
    BY <2>2, <2>3
<1>4. ASSUME NEW k \in Keys, DoRemoveIfRevision(k) PROVE Good /\ UNCHANGED <<held, saved>>
  <2>1. alloc' = alloc \/ alloc' = Remove(alloc, k)
    BY <1>4 DEF DoRemoveIfRevision, RemoveIfRevision
  <2> QED
    BY <1>0, <1>4, <2>1, RemoveConsistent DEF DoRemoveIfRevision
<1>5. CASE DoNew
  <2>1. PICK b \in Nat : \A x \in saved : x.revision <= b
    BY DEF SavedShape
  <2>2. Good
    BY <1>0, <1>5, <2>1, NewAllocatorConsistent DEF DoNew, SavedShape
  <2> QED
    BY <2>2, <1>0, <1>5 DEF DoNew, TypeOK, HeldShape, SavedShape, AllocatorConsistent
<1>6. ASSUME NEW k \in Keys, LookUp(k) PROVE IInv'
  <2>1. alloc.byKey[k] \in Lease /\ alloc.byKey[k].publicKey = k /\ IsMemberAddress(alloc.byKey[k]) /\ alloc.byKey[k].revision # 0
    BY <1>0, <1>6, AllocatorFields DEF LookUp, Consistent, LeaseShape
  <2>2. held' = [held EXCEPT ![k] = alloc.byKey[k]] /\ UNCHANGED <<alloc, saved>>
    BY <1>6 DEF LookUp
  <2>3. held' \in [Keys -> Lease \cup {NoLease}] /\ HeldShape'
    BY <1>0, <2>1, <2>2 DEF HeldShape
  <2> QED
    BY <1>0, <2>2, <2>3 DEF TypeOK, SavedShape, AllocatorConsistent
<1>7. CASE SaveSnapshot
  <2>1. Snapshot(alloc) \in SUBSET Lease /\ alloc.revision \in Nat
    BY <1>0, SnapshotMembers, AllocatorFields
  <2>2. saved' = Snapshot(alloc) /\ UNCHANGED <<alloc, held>>
    BY <1>7 DEF SaveSnapshot
  <2>3. SavedShape'
    BY <1>0, <2>1, <2>2, SnapshotLoads DEF SavedShape
  <2> QED
    BY <1>0, <2>1, <2>2, <2>3 DEF TypeOK, HeldShape, AllocatorConsistent
<1>8. CASE UNCHANGED vars
  BY <1>8 DEF vars, TypeOK, HeldShape, SavedShape, AllocatorConsistent
<1>9. ASSUME Good, UNCHANGED <<held, saved>> PROVE IInv'
  BY <1>0, <1>9 DEF TypeOK, HeldShape, SavedShape, AllocatorConsistent
<1> HIDE DEF Good, IInv
<1>10. ASSUME NEW k \in Keys, KeyStep(k) PROVE IInv'
  BY <1>10, <1>1, <1>2, <1>3, <1>4, <1>6, <1>9 DEF KeyStep
<1> QED
  BY <1>5, <1>7, <1>8, <1>10 DEF Next

(* The inductive invariant holds throughout every behaviour. *)
LEMMA InvariantIInv == Spec => []IInv
BY InitIInv, NextIInv, PTL DEF Spec

(* Every variable keeps its type. *)
THEOREM TypeCorrect == Spec => []TypeOK
BY InvariantIInv, PTL DEF IInv

(* The two indexes of the allocator agree and no address is leased twice,  *)
(* for every pool size.                                                    *)
THEOREM AllocatorIsConsistent == Spec => []AllocatorConsistent
BY InvariantIInv, PTL DEF IInv

(* New never refuses what was saved from the allocator. *)
THEOREM SavedAlwaysLoads == Spec => []SavedLoads
<1>1. IInv => SavedLoads
  BY DEF IInv, SavedShape, SavedLoads
<1> QED
  BY <1>1, InvariantIInv, PTL

(* A device that has a lease before and after a step other than a reload   *)
(* keeps its address.                                                      *)
THEOREM AddressIsStable == Spec => AddressStable
<1> DEFINE Stable == \A k \in Keys :
              HasLease(alloc, k) /\ HasLease(alloc', k) /\ alloc.byKey[k].octet # alloc'.byKey[k].octet
                => alloc' = NewAllocator(saved)
<1>1. IInv /\ [Next]_vars => [Stable]_vars
  <2> SUFFICES ASSUME IInv, Next, NEW k \in Keys, HasLease(alloc, k), HasLease(alloc', k),
                      alloc' # NewAllocator(saved)
               PROVE  alloc.byKey[k].octet = alloc'.byKey[k].octet
    BY DEF vars
  <2>0. alloc \in Allocator /\ Consistent(alloc) /\ held \in [Keys -> Lease \cup {NoLease}]
    BY DEF IInv, TypeOK, AllocatorConsistent
  <2>1. ASSUME NEW l \in Keys, NEW nm \in Names, DoAssign(l, nm)
        PROVE  alloc.byKey[k].octet = alloc'.byKey[k].octet
    <3>1. CASE HasLease(alloc, l)
      BY <2>0, <2>1, <3>1, AssignKnownConsistent DEF DoAssign
    <3>2. CASE ~HasLease(alloc, l)
      <4>1. FreeOctets(alloc) # {} /\ alloc' = AssignNew(alloc, l, nm) /\ k # l
        BY <2>1, <3>2 DEF DoAssign, CanAssign, Assign
      <4> QED
        BY <2>0, <3>2, <4>1, AssignNewConsistent
    <3> QED
      BY <3>1, <3>2
  <2>2. ASSUME NEW l \in Keys, alloc' = alloc \/ alloc' = Remove(alloc, l)
        PROVE  alloc.byKey[k].octet = alloc'.byKey[k].octet
    BY <2>0, <2>2, RemoveConsistent
  <2>3. ASSUME NEW l \in Keys, DoRestore(l)
        PROVE  alloc.byKey[k].octet = alloc'.byKey[k].octet
    <3>1. held[l] \in Lease /\ held[l].publicKey = l /\ alloc' = Restore(alloc, held[l])
      BY <2>0, <2>3 DEF DoRestore, IInv, HeldShape
    <3>2. CASE CanRestore(alloc, held[l]) /\ k = l
      <4>1. alloc'.byKey[l] = held[l]
        BY <2>0, <3>1, <3>2, RestoreConsistent
      <4>2. alloc.byKey[l].octet = held[l].octet
        BY <3>1, <3>2 DEF CanRestore
      <4> QED
        BY <3>2, <4>1, <4>2
    <3>3. CASE CanRestore(alloc, held[l]) /\ k # l
      BY <2>0, <3>1, <3>3, RestoreConsistent
    <3>4. CASE ~CanRestore(alloc, held[l])
      BY <3>1, <3>4 DEF Restore
    <3> QED
      BY <3>2, <3>3, <3>4
  <2>4. ASSUME NEW l \in Keys, KeyStep(l) PROVE alloc.byKey[k].octet = alloc'.byKey[k].octet
    BY <2>1, <2>2, <2>3, <2>4 DEF KeyStep, DoRemove, LookUp, DoRemoveIfRevision, RemoveIfRevision
  <2>5. ~DoNew /\ (SaveSnapshot => alloc' = alloc)
    BY DEF DoNew, SaveSnapshot
  <2> QED
    BY <2>4, <2>5 DEF Next
<1>2. Spec => [][Stable]_vars
  BY <1>1, InvariantIInv, PTL DEF Spec
<1> QED
  BY <1>2 DEF AddressStable

-----------------------------------------------------------------------------
(* The refinement mapping: in a consistent allocator the owner of an       *)
(* address is the key whose lease has it.                                  *)
LEMMA OwnerCharacterised ==
  ASSUME NEW a \in Allocator, Consistent(a), NEW o \in MemberOctets
  PROVE  /\ OwnerIn(Snapshot(a))[o] \in Keys \cup {NoLease}
         /\ \A k \in Keys : OwnerIn(Snapshot(a))[o] = k <=> HasLease(a, k) /\ a.byKey[k].octet = o
         /\ OwnerIn(Snapshot(a))[o] = NoLease <=> \A k \in Keys : HasLease(a, k) => a.byKey[k].octet # o
<1> DEFINE owned == OwnerIn(Snapshot(a))[o]
<1>1. CASE \E k \in Keys : HasLease(a, k) /\ a.byKey[k].octet = o
  <2>1. PICK k \in Keys : HasLease(a, k) /\ a.byKey[k].octet = o
    BY <1>1
  <2>2. a.byKey[k] \in Snapshot(a)
    BY <2>1, SnapshotMembers
  <2>3. \A x \in Snapshot(a) : x.octet = o => x = a.byKey[k]
    BY <2>1, SnapshotMembers DEF Consistent, DistinctAddresses
  <2>4. owned = a.byKey[k].publicKey
    BY <2>1, <2>2, <2>3 DEF OwnerIn
  <2>5. owned = k
    BY <2>1, <2>4 DEF Consistent, LeaseShape
  <2>6. \A l \in Keys : HasLease(a, l) /\ a.byKey[l].octet = o => l = k
    BY <2>1 DEF Consistent, DistinctAddresses
  <2> QED
    BY <2>1, <2>5, <2>6, NoLeaseAssumption
<1>2. CASE ~\E k \in Keys : HasLease(a, k) /\ a.byKey[k].octet = o
  <2>1. owned = NoLease
    BY <1>2, SnapshotMembers DEF OwnerIn
  <2> QED
    BY <1>2, <2>1, NoLeaseAssumption
<1> QED
  BY <1>1, <1>2

(* Two consistent allocators that differ in one lease differ, as pools, in *)
(* the owner of its address.                                               *)
LEMMA OwnerDiffers ==
  ASSUME NEW a \in Allocator, Consistent(a), NEW c \in Allocator, Consistent(c),
         NEW k \in Keys, ~HasLease(a, k), HasLease(c, k),
         \A l \in Keys \ {k} : c.byKey[l] = a.byKey[l]
  PROVE  LET o == c.byKey[k].octet
             ownA == OwnerIn(Snapshot(a))
             ownC == OwnerIn(Snapshot(c))
         IN /\ o \in MemberOctets
            /\ ownC = [ownA EXCEPT ![o] = k]
            /\ ownA = [ownC EXCEPT ![o] = NoLease]
            /\ ownA[o] = NoLease /\ ownC[o] = k
            /\ \A p \in MemberOctets : ownA[p] # k
<1> DEFINE o == c.byKey[k].octet
           ownA == OwnerIn(Snapshot(a))
           ownC == OwnerIn(Snapshot(c))
<1>1. o \in MemberOctets
  BY DEF Consistent, LeaseShape, IsMemberAddress
<1>2. \A l \in Keys \ {k} : HasLease(c, l) <=> HasLease(a, l)
  BY DEF HasLease
<1>3. \A l \in Keys : HasLease(a, l) => l # k /\ a.byKey[l].octet # o
  BY <1>2 DEF Consistent, DistinctAddresses
<1>4. ownA[o] = NoLease /\ ownC[o] = k /\ \A p \in MemberOctets : ownA[p] # k
  BY <1>1, <1>3, OwnerCharacterised
<1>5. ASSUME NEW p \in MemberOctets, p # o PROVE ownC[p] = ownA[p]
  <2>1. \A l \in Keys : HasLease(c, l) /\ c.byKey[l].octet = p <=> HasLease(a, l) /\ a.byKey[l].octet = p
    BY <1>2, <1>3, <1>5
  <2>2. ownC[p] \in Keys \cup {NoLease} /\ ownA[p] \in Keys \cup {NoLease}
    BY OwnerCharacterised
  <2>3. \A l \in Keys : ownC[p] = l <=> ownA[p] = l
    <3>1. \A l \in Keys : ownC[p] = l <=> HasLease(c, l) /\ c.byKey[l].octet = p
      BY OwnerCharacterised
    <3>2. \A l \in Keys : ownA[p] = l <=> HasLease(a, l) /\ a.byKey[l].octet = p
      BY OwnerCharacterised
    <3> HIDE DEF ownA, ownC
    <3> QED
      BY <2>1, <3>1, <3>2
  <2> HIDE DEF ownA, ownC
  <2> QED
    BY <2>2, <2>3
<1>6. /\ ownA = [p \in MemberOctets |-> ownA[p]]
      /\ ownC = [p \in MemberOctets |-> ownC[p]]
  BY DEF OwnerIn
<1> HIDE DEF ownA, ownC
<1>7. ownC = [ownA EXCEPT ![o] = k] /\ ownA = [ownC EXCEPT ![o] = NoLease]
  BY <1>1, <1>4, <1>5, <1>6
<1> QED
  BY <1>1, <1>4, <1>7 DEF ownA, ownC

(* Two consistent allocators with the same addresses are the same pool. *)
LEMMA OwnerSame ==
  ASSUME NEW a \in Allocator, Consistent(a), NEW c \in Allocator, Consistent(c),
         \A l \in Keys : HasLease(c, l) <=> HasLease(a, l),
         \A l \in Keys : HasLease(a, l) => c.byKey[l].octet = a.byKey[l].octet
  PROVE  OwnerIn(Snapshot(c)) = OwnerIn(Snapshot(a))
<1> DEFINE ownA == OwnerIn(Snapshot(a))
           ownC == OwnerIn(Snapshot(c))
<1>1. ASSUME NEW p \in MemberOctets PROVE ownC[p] = ownA[p]
  <2>1. \A l \in Keys : ownC[p] = l <=> HasLease(c, l) /\ c.byKey[l].octet = p
    BY OwnerCharacterised
  <2>2. \A l \in Keys : ownA[p] = l <=> HasLease(a, l) /\ a.byKey[l].octet = p
    BY OwnerCharacterised
  <2>3. ownC[p] \in Keys \cup {NoLease} /\ ownA[p] \in Keys \cup {NoLease}
    BY OwnerCharacterised
  <2> HIDE DEF ownA, ownC
  <2> QED
    BY <2>1, <2>2, <2>3
<1>2. ownA = [p \in MemberOctets |-> ownA[p]] /\ ownC = [p \in MemberOctets |-> ownC[p]]
  BY DEF OwnerIn
<1> HIDE DEF ownA, ownC
<1>3. ownC = ownA
  BY <1>1, <1>2
<1> QED
  BY <1>3 DEF ownA, ownC

(* The allocator implements the address pool: every operation is one       *)
(* operation of the pool or leaves it alone.                               *)
THEOREM ImplementsAddressPool == Spec => ImplementsPool
<1> DEFINE own(a) == OwnerIn(Snapshot(a))
           rem == [k \in Keys |-> IF held[k] = NoLease THEN NoLease ELSE held[k].octet]
<1>1. Init => Pool!PoolInit
  <2> SUFFICES ASSUME Init PROVE Pool!PoolInit
    OBVIOUS
  <2>1. Snapshot(alloc) = {}
    BY EmptyAllocatorConsistent DEF Init
  <2> QED
    BY <2>1 DEF Init, Pool!PoolInit, OwnerIn
<1>2. IInv /\ IInv' /\ [Next]_vars => [Pool!PoolNext]_(Pool!poolVars)
  <2> SUFFICES ASSUME IInv, IInv', [Next]_vars PROVE Pool!PoolNext \/ UNCHANGED Pool!poolVars
    OBVIOUS
  <2>0. /\ alloc \in Allocator /\ Consistent(alloc) /\ alloc' \in Allocator /\ Consistent(alloc')
        /\ held \in [Keys -> Lease \cup {NoLease}] /\ saved \in SUBSET Lease
    BY DEF IInv, TypeOK, AllocatorConsistent
  <2>1. ASSUME own(alloc') = own(alloc), UNCHANGED <<held, saved>> PROVE UNCHANGED Pool!poolVars
    BY <2>1 DEF Pool!poolVars
  <2>2. ASSUME NEW k \in Keys, NEW nm \in Names, DoAssign(k, nm)
        PROVE  Pool!PoolNext \/ UNCHANGED Pool!poolVars
    <3>1. UNCHANGED <<held, saved>> /\ alloc' = Assign(alloc, k, nm) /\ CanAssign(alloc, k)
      BY <2>2 DEF DoAssign
    <3>2. CASE HasLease(alloc, k)
      <4>1. own(alloc') = own(alloc)
        BY <2>0, <3>1, <3>2, AssignKnownConsistent, OwnerSame
      <4> QED
        BY <2>1, <3>1, <4>1
    <3>3. CASE ~HasLease(alloc, k)
      <4> DEFINE o == alloc'.byKey[k].octet
      <4>1. FreeOctets(alloc) # {} /\ alloc' = AssignNew(alloc, k, nm)
        BY <3>1, <3>3 DEF CanAssign, Assign
      <4>2. /\ HasLease(alloc', k) /\ o \in FreeOctets(alloc)
            /\ \A p \in FreeOctets(alloc) : o <= p
            /\ \A l \in Keys \ {k} : alloc'.byKey[l] = alloc.byKey[l]
        BY <2>0, <3>3, <4>1, AssignNewConsistent
      <4>3. /\ o \in MemberOctets /\ own(alloc') = [own(alloc) EXCEPT ![o] = k]
            /\ own(alloc)[o] = NoLease /\ \A p \in MemberOctets : own(alloc)[p] # k
        BY <2>0, <3>3, <4>2, OwnerDiffers
      <4>4. ASSUME NEW p \in MemberOctets, p < o PROVE own(alloc)[p] # NoLease
        <5>1. p \notin FreeOctets(alloc)
          <6> HIDE DEF o
          <6>1. o \in Nat /\ p \in Nat
            BY <4>3, OctetFacts
          <6>2. ~(o <= p)
            BY <4>4, <6>1
          <6> QED
            BY <4>2, <6>2
        <5>2. p \in alloc.used /\ p \notin Reserved
          BY <5>1, OctetFacts DEF FreeOctets
        <5> QED
          BY <2>0, <5>2, UsedCharacterised, OwnerCharacterised
      <4> HIDE DEF o, own
      <4>5. Pool!Take(k, o)
        BY <3>1, <4>3, <4>4 DEF Pool!Take, Pool!Owns, own
      <4> QED
        BY <4>3, <4>5 DEF Pool!PoolNext
    <3> QED
      BY <3>2, <3>3
  <2>3. ASSUME NEW k \in Keys, alloc' = Remove(alloc, k), UNCHANGED <<held, saved>>
        PROVE  Pool!PoolNext \/ UNCHANGED Pool!poolVars
    <3>1. CASE HasLease(alloc, k)
      <4> DEFINE o == alloc.byKey[k].octet
      <4>1. ~HasLease(alloc', k) /\ \A l \in Keys \ {k} : alloc.byKey[l] = alloc'.byKey[l]
        BY <2>0, <2>3, RemoveConsistent
      <4>2. o \in MemberOctets /\ own(alloc') = [own(alloc) EXCEPT ![o] = NoLease] /\ own(alloc)[o] = k
        BY <2>0, <3>1, <4>1, OwnerDiffers
      <4> HIDE DEF o, own
      <4>3. Pool!Release(k, o)
        BY <2>3, <4>2 DEF Pool!Release, own
      <4> QED
        BY <4>2, <4>3 DEF Pool!PoolNext
    <3>2. CASE ~HasLease(alloc, k)
      BY <2>1, <2>3, <3>2 DEF Remove
    <3> QED
      BY <3>1, <3>2
  <2>4. ASSUME NEW k \in Keys, DoRestore(k)
        PROVE  Pool!PoolNext \/ UNCHANGED Pool!poolVars
    <3> DEFINE o == held[k].octet
    <3>1. /\ held[k] \in Lease /\ held[k] # NoLease /\ held[k].publicKey = k
          /\ alloc' = Restore(alloc, held[k]) /\ UNCHANGED <<held, saved>>
      BY <2>0, <2>4 DEF DoRestore, IInv, HeldShape
    <3>2. CASE ~CanRestore(alloc, held[k])
      BY <2>1, <3>1, <3>2 DEF Restore
    <3>3. CASE CanRestore(alloc, held[k]) /\ HasLease(alloc, k)
      <4>1. /\ alloc'.byKey[k] = held[k] /\ alloc.byKey[k].octet = o
            /\ \A l \in Keys \ {k} : alloc'.byKey[l] = alloc.byKey[l]
        BY <2>0, <3>1, <3>3, RestoreConsistent DEF CanRestore
      <4>2. own(alloc') = own(alloc)
        BY <2>0, <3>1, <3>3, <4>1, OwnerSame DEF HasLease
      <4> QED
        BY <2>1, <3>1, <4>2
    <3>4. CASE CanRestore(alloc, held[k]) /\ ~HasLease(alloc, k)
      <4>1. /\ alloc'.byKey[k] = held[k] /\ HasLease(alloc', k)
            /\ \A l \in Keys \ {k} : alloc'.byKey[l] = alloc.byKey[l]
        BY <2>0, <3>1, <3>4, RestoreConsistent DEF HasLease
      <4>2. /\ o \in MemberOctets /\ own(alloc') = [own(alloc) EXCEPT ![o] = k]
            /\ own(alloc)[o] = NoLease /\ \A p \in MemberOctets : own(alloc)[p] # k
        BY <2>0, <3>4, <4>1, OwnerDiffers
      <4>3. rem[k] = o
        BY <3>1
      <4> HIDE DEF o, own
      <4>4. Pool!GiveBack(k, o)
        BY <3>1, <4>2, <4>3 DEF Pool!GiveBack, Pool!Owns, own
      <4> QED
        BY <4>2, <4>4 DEF Pool!PoolNext
    <3> QED
      BY <3>2, <3>3, <3>4
  <2>5. ASSUME NEW k \in Keys, LookUp(k)
        PROVE  Pool!PoolNext \/ UNCHANGED Pool!poolVars
    <3>1. /\ HasLease(alloc, k) /\ alloc.byKey[k] # NoLease
          /\ held' = [held EXCEPT ![k] = alloc.byKey[k]] /\ UNCHANGED <<alloc, saved>>
      BY <2>5 DEF LookUp, HasLease
    <3>2. PICK o \in MemberOctets : o = alloc.byKey[k].octet
      BY <2>0, <3>1 DEF Consistent, LeaseShape, IsMemberAddress
    <3>3. own(alloc)[o] = k
      BY <2>0, <3>1, <3>2, OwnerCharacterised
    <3>4. rem' = [rem EXCEPT ![k] = o]
      BY <2>0, <3>1, <3>2
    <3>5. Pool!Look(k, o)
      BY <3>1, <3>3, <3>4 DEF Pool!Look
    <3> QED
      BY <3>5 DEF Pool!PoolNext
  <2>6. ASSUME SaveSnapshot PROVE Pool!PoolNext \/ UNCHANGED Pool!poolVars
    <3>1. Pool!Save
      BY <2>6 DEF SaveSnapshot, Pool!Save
    <3> QED
      BY <3>1 DEF Pool!PoolNext
  <2>7. ASSUME DoNew PROVE Pool!PoolNext \/ UNCHANGED Pool!poolVars
    <3>1. PICK b \in Nat : \A x \in saved : x.revision <= b
      BY DEF IInv, SavedShape
    <3>2. Snapshot(alloc') = saved
      BY <2>0, <2>7, <3>1, NewAllocatorConsistent DEF DoNew, IInv, SavedShape
    <3>3. Pool!Reload
      BY <2>7, <3>2 DEF DoNew, Pool!Reload
    <3> QED
      BY <3>3 DEF Pool!PoolNext
  <2>8. ASSUME UNCHANGED vars PROVE UNCHANGED Pool!poolVars
    BY <2>8 DEF vars, Pool!poolVars
  <2>9. ASSUME NEW k \in Keys, DoRemoveIfRevision(k)
        PROVE  Pool!PoolNext \/ UNCHANGED Pool!poolVars
    <3>1. (alloc' = alloc \/ alloc' = Remove(alloc, k)) /\ UNCHANGED <<held, saved>>
      BY <2>9 DEF DoRemoveIfRevision, RemoveIfRevision
    <3>2. CASE alloc' = alloc
      BY <3>1, <3>2 DEF Pool!poolVars
    <3>3. CASE alloc' = Remove(alloc, k)
      BY <2>3, <3>1, <3>3
    <3> QED
      BY <3>1, <3>2, <3>3
  <2>10. ASSUME NEW k \in Keys, KeyStep(k)
         PROVE  Pool!PoolNext \/ UNCHANGED Pool!poolVars
    BY <2>2, <2>3, <2>4, <2>5, <2>9, <2>10 DEF KeyStep, DoRemove
  <2> QED
    BY <2>6, <2>7, <2>8, <2>10 DEF Next
<1>3. Spec => Pool!PoolInit /\ [][Pool!PoolNext]_(Pool!poolVars)
  BY <1>1, <1>2, InvariantIInv, PTL DEF Spec
<1> QED
  BY <1>3 DEF ImplementsPool, Pool!PoolSpec

-----------------------------------------------------------------------------
(* The whitelist: it is right for every address space and every sequence   *)
(* of entries and lookups.                                                 *)

(* Two ranges that do not meet.                                            *)
Apart(n, m) == n.max < m.min \/ m.max < n.min

(* While an entry is added, the tree and the entry together cover what was *)
(* added, and the entry meets no node outside the subtree that is left to  *)
(* be searched; while an address is looked up, no node outside it holds    *)
(* the address.                                                            *)
Adding ==
    op.do = "add" =>
      /\ op.node.min <= op.node.max
      /\ \A a \in IP : a \in listed <=> (a \in Span(op.node) \/ \E n \in tree : a \in Span(n))
Searching ==
    /\ cur \subseteq tree
    /\ op.do = "add" => \A n \in tree \ cur : Apart(n, op.node)
    /\ op.do = "load" => \A n \in tree \ cur : op.node.min \notin Span(n)
    /\ op.do \in {"idle", "loaded"} => cur = {}
Covering ==
    op.do # "add" => \A a \in IP : a \in listed <=> \E n \in tree : a \in Span(n)

TreeInv == TreeTypeOK /\ Disjoint /\ Adding /\ Searching /\ Covering /\ LookupRight

(* The invariant of the tree holds of the empty one. *)
LEMMA TreeInvInit == TreeInit => TreeInv
BY MaxIPAssumption
   DEF TreeInit, TreeInv, TreeTypeOK, Disjoint, Adding, Searching, Covering, LookupRight, Idle, Op, Node, IP

(* Every entry begins by asking for a range of addresses.                  *)
LEMMA BeginsPreserves ==
  ASSUME TreeInv, NEW n \in Node, AddBegins(n)
  PROVE  TreeInv'
<1>1. tree \subseteq Node /\ op \in Op /\ op.do = "idle" /\ n.min <= n.max
  BY DEF TreeInv, TreeTypeOK, AddBegins
<1>2. op'.do = "add" /\ op'.node = n /\ tree' = tree /\ cur' = tree /\ op' \in Op
  BY <1>1 DEF AddBegins, Op
<1>3. listed' = listed \cup (n.min .. n.max)
  BY DEF AddBegins, Span
<1>a. n.min .. n.max \subseteq IP
  BY MaxIPAssumption DEF Node, IP
<1>4. TreeTypeOK'
  BY <1>1, <1>2, <1>3, <1>a DEF TreeInv, TreeTypeOK
<1>5. Adding'
  BY <1>1, <1>2, <1>3 DEF TreeInv, Covering, Adding, Span
<1>6. QED
  BY <1>1, <1>2, <1>4, <1>5 DEF TreeInv, Disjoint, Searching, Covering, LookupRight

(* The three ways down: what is left out of the search is apart from the   *)
(* range, as the ranges of the tree are.                                   *)
LEMMA InsidePreserves ==
  ASSUME TreeInv, NEW n \in cur, AddInside(n)
  PROVE  TreeInv'
<1>1. /\ tree \subseteq Node /\ n \in tree /\ op \in Op /\ op.do = "add"
      /\ op' = Idle /\ cur' = {} /\ tree' = tree /\ listed' = listed
      /\ op.node.min >= n.min /\ op.node.max <= n.max
  BY DEF TreeInv, TreeTypeOK, Searching, AddInside
<1>2. TreeTypeOK'
  BY <1>1, MaxIPAssumption DEF TreeInv, TreeTypeOK, Idle, Op, Node, IP
<1>3. Covering'
  <2>1. \A a \in IP : a \in Span(op.node) => a \in Span(n)
    BY <1>1, MaxIPAssumption DEF Span, Op, Node, IP
  <2>2. QED
    BY <1>1, <2>1 DEF TreeInv, Adding, Covering
<1>4. QED
  BY <1>1, <1>2, <1>3 DEF TreeInv, Disjoint, Adding, Searching, LookupRight, Idle

(* A range that is added goes down to the side it lies on. *)
LEMMA DescendPreserves ==
  ASSUME TreeInv, NEW n \in cur, AddRight(n) \/ AddLeft(n)
  PROVE  TreeInv'
<1>1. /\ tree \subseteq Node /\ cur \subseteq tree /\ op \in Op /\ op.do = "add"
      /\ op' = op /\ tree' = tree /\ listed' = listed /\ cur' \subseteq cur
      /\ op.node \in Node /\ op.node.min <= op.node.max
  BY DEF TreeInv, TreeTypeOK, Searching, Adding, AddRight, AddLeft, Right, Left, Op
<1>2. \A m \in tree \ cur' : Apart(m, op.node)
  <2> SUFFICES ASSUME NEW m \in tree, m \notin cur'
               PROVE  Apart(m, op.node)
    OBVIOUS
  <2>1. CASE m \notin cur
    BY <1>1, <2>1 DEF TreeInv, Searching
  <2>2. CASE m \in cur
    <3>1. /\ m \in Node /\ n \in Node /\ n.min <= n.max /\ m.min <= m.max
          /\ n = m \/ n.max < m.min \/ m.max < n.min
      BY <1>1 DEF TreeInv, Disjoint
    <3>2. \/ op.node.min > n.max /\ ~(m.min > n.min)
          \/ op.node.max < n.min /\ ~(m.min < n.min)
      BY <2>2 DEF AddRight, AddLeft, Right, Left
    <3>3. QED
      BY <1>1, <3>1, <3>2, MaxIPAssumption DEF Apart, Node, IP
  <2>3. QED
    BY <2>1, <2>2
<1>3. QED
  BY <1>1, <1>2 DEF TreeInv, TreeTypeOK, Disjoint, Adding, Searching, Covering, LookupRight

(* A node that overlaps the range: their union is a range, and covers the  *)
(* addresses of both.                                                      *)
LEMMA UnionCovers ==
  ASSUME NEW n \in Node, NEW m \in Node, n.min <= n.max, m.min <= m.max, ~Apart(n, m)
  PROVE  /\ Union(n, m) \in Node /\ Union(n, m).min <= Union(n, m).max
         /\ \A a \in IP : a \in Span(Union(n, m)) <=> (a \in Span(n) \/ a \in Span(m))
BY MaxIPAssumption DEF Union, Apart, Span, Node, IP

(* A node that overlaps is joined with the new range, which is added anew. *)
LEMMA MergePreserves ==
  ASSUME TreeInv, NEW n \in cur, AddMerges(n)
  PROVE  TreeInv'
<1> DEFINE u == Union(n, op.node)
<1>1. /\ tree \subseteq Node /\ n \in tree /\ n \in Node /\ op \in Op /\ op.do = "add"
      /\ op.node \in Node /\ op.node.min <= op.node.max /\ n.min <= n.max
      /\ tree' = tree \ {n} /\ cur' = tree' /\ listed' = listed
      /\ op' = [op EXCEPT !.node = u]
  BY DEF TreeInv, TreeTypeOK, Disjoint, Searching, Adding, AddMerges, Op
<1>2. ~Apart(n, op.node)
  BY <1>1 DEF AddMerges, Apart
<1>3. /\ u \in Node /\ u.min <= u.max
      /\ \A a \in IP : a \in Span(u) <=> (a \in Span(n) \/ a \in Span(op.node))
  BY <1>1, <1>2, UnionCovers
<1> HIDE DEF u
<1>4. op' \in Op /\ op'.do = "add" /\ op'.node = u
  BY <1>1, <1>3 DEF Op
<1>5. TreeTypeOK' /\ Disjoint' /\ Searching' /\ Covering' /\ LookupRight'
  BY <1>1, <1>4 DEF TreeInv, TreeTypeOK, Disjoint, Searching, Covering, LookupRight
<1>6. Adding'
  <2>1. \A a \in IP : (\E m \in tree : a \in Span(m)) <=>
                        (a \in Span(n) \/ \E m \in tree' : a \in Span(m))
    BY <1>1
  <2>2. QED
    BY <1>1, <1>3, <1>4, <2>1 DEF TreeInv, Adding
<1>7. QED
  BY <1>5, <1>6 DEF TreeInv

(* A range that overlaps no node gets one of its own. *)
LEMMA PutPreserves ==
  ASSUME TreeInv, AddPuts
  PROVE  TreeInv'
<1> DEFINE new == op.node
<1>1. /\ tree \subseteq Node /\ op \in Op /\ op.do = "add" /\ new \in Node /\ new.min <= new.max
      /\ \A m \in tree : Apart(m, new)
      /\ op' = Idle /\ cur = {} /\ cur' = cur /\ listed' = listed
      /\ tree' = {m \in tree : m.min # new.min} \cup {new}
  BY DEF TreeInv, TreeTypeOK, Searching, Adding, AddPuts, Op
<1> HIDE DEF new
<1>2. tree' = tree \cup {new}
  <2>1. \A m \in tree : m.min <= m.max /\ m \in Node
    BY <1>1 DEF TreeInv, Disjoint
  <2>2. \A m \in tree : m.min # new.min
    BY <1>1, <2>1, MaxIPAssumption DEF Apart, Node, IP
  <2>3. QED
    BY <1>1, <2>2
<1>3. TreeTypeOK'
  BY <1>1, <1>2, MaxIPAssumption DEF TreeInv, TreeTypeOK, Idle, Op, Node, IP
<1>4. Disjoint'
  BY <1>1, <1>2 DEF TreeInv, Disjoint, Apart
<1>5. Covering'
  BY <1>1, <1>2 DEF TreeInv, Adding, Covering, new
<1>6. QED
  BY <1>1, <1>3, <1>4, <1>5 DEF TreeInv, Adding, Searching, LookupRight, Idle

(* A lookup hits a range or goes down to the side its address lies on. *)
LEMMA LoadPreserves ==
  ASSUME TreeInv, NEW n \in cur, LoadHits(n) \/ LoadDescends(n)
  PROVE  TreeInv'
<1>1. /\ tree \subseteq Node /\ cur \subseteq tree /\ n \in tree /\ n \in Node
      /\ op \in Op /\ op.do = "load" /\ op.node \in Node /\ op.node.min \in IP
      /\ tree' = tree /\ listed' = listed
  BY DEF TreeInv, TreeTypeOK, Searching, LoadHits, LoadDescends, Op, Node
<1>2. CASE LoadHits(n)
  <2>1. op'.do = "loaded" /\ op'.hit = TRUE /\ op'.node = op.node /\ op' \in Op /\ cur' = {}
    BY <1>1, <1>2 DEF LoadHits, Op
  <2>2. op.node.min \in Span(n)
    BY <1>1, <1>2, MaxIPAssumption DEF LoadHits, Span, Node, IP
  <2>3. op.node.min \in listed
    BY <1>1, <2>2 DEF TreeInv, Covering
  <2>4. QED
    BY <1>1, <2>1, <2>3 DEF TreeInv, TreeTypeOK, Disjoint, Adding, Searching, Covering, LookupRight
<1>3. CASE LoadDescends(n)
  <2>1. op' = op /\ cur' \subseteq cur
    BY <1>3 DEF LoadDescends, Left, Right
  <2>2. \A m \in tree \ cur' : op.node.min \notin Span(m)
    <3> SUFFICES ASSUME NEW m \in tree, m \notin cur'
                 PROVE  op.node.min \notin Span(m)
      OBVIOUS
    <3>1. CASE m \notin cur
      BY <1>1, <3>1 DEF TreeInv, Searching
    <3>2. CASE m \in cur
      <4>1. /\ m \in Node /\ n.min <= n.max /\ m.min <= m.max
            /\ n = m \/ n.max < m.min \/ m.max < n.min
        BY <1>1 DEF TreeInv, Disjoint
      <4>2. /\ ~(op.node.min >= n.min /\ op.node.min <= n.max)
            /\ IF op.node.min < n.min THEN ~(m.min < n.min) ELSE ~(m.min > n.min)
        BY <1>3, <3>2 DEF LoadDescends, Left, Right
      <4>3. QED
        BY <1>1, <4>1, <4>2, MaxIPAssumption DEF Span, Node, IP
    <3>3. QED
      BY <3>1, <3>2
  <2>3. QED
    BY <1>1, <2>1, <2>2 DEF TreeInv, TreeTypeOK, Disjoint, Adding, Searching, Covering, LookupRight
<1>4. QED
  BY <1>2, <1>3

(* A lookup begins, misses or returns. *)
LEMMA LookupPreserves ==
  ASSUME TreeInv, LoadBegins \/ LoadMisses \/ Return
  PROVE  TreeInv'
<1>1. tree \subseteq Node /\ op \in Op /\ tree' = tree /\ listed' = listed
  BY DEF TreeInv, TreeTypeOK, LoadBegins, LoadMisses, Return
<1>2. CASE LoadBegins
  <2>a. PICK a \in IP : op' = [op EXCEPT !.do = "load", !.node = [min |-> a, max |-> a]]
    BY <1>2 DEF LoadBegins
  <2>b. [min |-> a, max |-> a] \in Node
    BY DEF Node
  <2>1. op'.do = "load" /\ op' \in Op /\ cur' = tree /\ op.do = "idle"
    BY <1>1, <1>2, <2>a, <2>b DEF LoadBegins, Op
  <2>2. QED
    BY <1>1, <2>1 DEF TreeInv, TreeTypeOK, Disjoint, Adding, Searching, Covering, LookupRight
<1>3. CASE LoadMisses
  <2>1. /\ op.do = "load" /\ op'.do = "loaded" /\ op'.hit = FALSE /\ op'.node = op.node
        /\ op' \in Op /\ cur = {} /\ cur' = cur /\ op.node.min \in IP
    BY <1>1, <1>3 DEF LoadMisses, Op, Node
  <2>2. op.node.min \notin listed
    BY <2>1 DEF TreeInv, Searching, Covering
  <2>3. QED
    BY <1>1, <2>1, <2>2 DEF TreeInv, TreeTypeOK, Disjoint, Adding, Searching, Covering, LookupRight
<1>4. CASE Return
  <2>1. op.do = "loaded" /\ op' = Idle /\ cur' = cur /\ Idle \in Op
    BY <1>4, MaxIPAssumption DEF Return, Idle, Op, Node, IP
  <2>2. QED
    BY <1>1, <2>1 DEF TreeInv, TreeTypeOK, Disjoint, Adding, Searching, Covering, LookupRight, Idle
<1>5. QED
  BY <1>2, <1>3, <1>4

(* Every step of the tree keeps its invariant. *)
LEMMA TreeInvNext == TreeInv /\ [TreeNext]_treeVars => TreeInv'
<1> SUFFICES ASSUME TreeInv, [TreeNext]_treeVars PROVE TreeInv'
  OBVIOUS
<1>1. CASE AddAddress
  <2>1. \A a \in IP : [min |-> a, max |-> a] \in Node
    BY DEF Node
  <2>2. QED
    BY <1>1, <2>1, BeginsPreserves DEF AddAddress
<1>2. CASE AddRange
  BY <1>2, BeginsPreserves DEF AddRange
<1>3. CASE AddNetwork
  BY <1>3, BlockAssumption, BeginsPreserves DEF AddNetwork
<1>4. CASE AddPuts
  BY <1>4, PutPreserves
<1>5. CASE LoadBegins \/ LoadMisses \/ Return
  BY <1>5, LookupPreserves
<1>6. ASSUME NEW n \in cur,
             \/ AddInside(n) \/ AddRight(n) \/ AddLeft(n) \/ AddMerges(n)
             \/ LoadHits(n) \/ LoadDescends(n)
      PROVE  TreeInv'
  BY <1>6, InsidePreserves, DescendPreserves, MergePreserves, LoadPreserves
<1>7. CASE UNCHANGED treeVars
  BY <1>7 DEF treeVars, TreeInv, TreeTypeOK, Disjoint, Adding, Searching, Covering, LookupRight
<1>8. QED
  BY <1>1, <1>2, <1>3, <1>4, <1>5, <1>6, <1>7 DEF TreeNext

(* The invariant of the tree holds in every state. *)
LEMMA TreeInvHolds == TreeSpec => []TreeInv
BY TreeInvInit, TreeInvNext, PTL DEF TreeSpec

(* The ranges of the tree are disjoint in every reachable state.           *)
THEOREM RangesDisjoint == TreeSpec => []Disjoint
<1>1. TreeInv => Disjoint
  BY DEF TreeInv
<1>2. QED
  BY <1>1, TreeInvHolds, PTL

(* The tree covers exactly the addresses that were added.                  *)
THEOREM TreeCoversListed == TreeSpec => []CoversListed
<1>1. TreeInv => CoversListed
  <2> SUFFICES ASSUME TreeInv, op.do # "add"
               PROVE  listed = UNION {Span(n) : n \in tree}
    BY DEF CoversListed
  <2>1. listed \subseteq IP /\ tree \subseteq Node
    BY DEF TreeInv, TreeTypeOK
  <2>2. \A n \in tree : Span(n) \subseteq IP
    BY <2>1, MaxIPAssumption DEF Span, Node, IP
  <2>3. \A a \in IP : a \in listed <=> \E n \in tree : a \in Span(n)
    BY DEF TreeInv, Covering
  <2>4. QED
    BY <2>1, <2>2, <2>3
<1>2. QED
  BY <1>1, TreeInvHolds, PTL

(* A lookup finds an address if and only if it was added.                  *)
THEOREM LookupIsRight == TreeSpec => []LookupRight
<1>1. TreeInv => LookupRight
  BY DEF TreeInv
<1>2. QED
  BY <1>1, TreeInvHolds, PTL

-----------------------------------------------------------------------------
(* The room's files survive any number of saves, failures, crashes, power  *)
(* failures and damages to room.json.                                      *)

Contents == 0 .. MaxVersion + 2

FilesTypeOK ==
    /\ name \in [Files -> Contents] /\ disk \in [Files -> Contents]
    /\ step \in {"idle"} \cup Files /\ version \in 0 .. MaxVersion
    /\ temp \in Contents /\ old \in Contents /\ lastSaved \in 0 .. MaxVersion
    /\ durable \in BOOLEAN /\ power \in BOOLEAN

(* Save found worth a backup what it holds, so no backup is ever Damaged;  *)
(* it may be Foreign.                                                      *)
Held ==
    /\ step = "bak" => validate(old)
    /\ step \in Files => version # None
    /\ temp # None => step \in Files /\ validate(temp) /\ (step = "main" => temp = version)
    /\ name["bak"] # Damaged /\ disk["bak"] # Damaged

(* A name is never given up: what is on the disk has a name.               *)
Named == \A f \in Files : name[f] = None => disk[f] = None

(* A damaged file has a backup, in memory and on the disk.                 *)
Backed ==
    /\ name["main"] \in {Damaged, Foreign} => disk["main"] = name["main"]
    /\ disk["main"] \in {Damaged, Foreign} => validate(disk["bak"])
    /\ durable => disk["main"] # None
    /\ ~power => name["main"] = lastSaved

FilesInv == FilesTypeOK /\ Held /\ Named /\ Backed

(* The invariant of the files holds of an empty directory. *)
LEMMA FilesInvInit == FilesInit => FilesInv
<1> SUFFICES ASSUME FilesInit PROVE FilesInv
  OBVIOUS
<1>1. name = [f \in Files |-> None] /\ disk = [f \in Files |-> None]
  BY DEF FilesInit
<1>a. 0 \in Contents /\ 0 \in 0 .. MaxVersion
  BY FilesAssumption DEF Contents
<1>b. [f \in Files |-> None] \in [Files -> Contents]
  BY <1>a DEF None
<1>2. FilesTypeOK
  BY <1>1, <1>a, <1>b DEF FilesInit, FilesTypeOK, None
<1>3. Held /\ Named /\ Backed
  BY <1>1, FilesAssumption DEF FilesInit, Held, Named, Backed, Files, None, Damaged, Foreign
<1>4. QED
  BY <1>2, <1>3 DEF FilesInv

(* Every step of a save, a load and a crash keeps the invariant of the     *)
(* files.                                                                  *)
LEMMA FilesInvNext == FilesInv /\ [FilesNext]_fileVars => FilesInv'
<1> SUFFICES ASSUME FilesInv, [FilesNext]_fileVars PROVE FilesInv'
  OBVIOUS
<1> USE FilesAssumption DEF None, Damaged, Foreign, Files, Contents
<1>1. CASE Save
  BY <1>1 DEF Save, FilesInv, FilesTypeOK, Held, Named, Backed, validate, loadOne
<1>2. ASSUME NEW f \in Files, WriteTemp(f) PROVE FilesInv'
  BY <1>2 DEF WriteTemp, FilesInv, FilesTypeOK, Held, Named, Backed, validate, loadOne
<1>3. ASSUME NEW f \in Files, Rename(f) PROVE FilesInv'
  <2>1. name' = [name EXCEPT ![f] = temp] /\ validate(temp) /\ temp \in Contents /\ disk' = disk
    BY <1>3 DEF Rename, FilesInv, FilesTypeOK, Held
  <2>2. FilesTypeOK' /\ Held' /\ Named'
    BY <1>3, <2>1 DEF Rename, FilesInv, FilesTypeOK, Held, Named, validate, loadOne
  <2>3. Backed'
    <3>1. CASE f = "bak"
      BY <1>3, <2>1, <3>1 DEF Rename, FilesInv, FilesTypeOK, Backed, validate, loadOne
    <3>2. CASE f = "main"
      <4>1. temp = version
        BY <1>3, <3>2 DEF Rename, FilesInv, Held
      <4>2. QED
        BY <1>3, <2>1, <3>2, <4>1 DEF Rename, FilesInv, FilesTypeOK, Backed, validate, loadOne
    <3>3. QED
      BY <3>1, <3>2
  <2>4. QED
    BY <2>2, <2>3 DEF FilesInv
<1>4. CASE WriteFails
  BY <1>4 DEF WriteFails, FilesInv, FilesTypeOK, Held, Named, Backed, validate, loadOne
<1>5. CASE Crash
  BY <1>5 DEF Crash, FilesInv, FilesTypeOK, Held, Named, Backed, validate, loadOne
<1>6. ASSUME NEW f \in Files, Flush(f) PROVE FilesInv'
  BY <1>6 DEF Flush, FilesInv, FilesTypeOK, Held, Named, Backed, validate, loadOne
<1>7. CASE PowerLoss
  BY <1>7 DEF PowerLoss, FilesInv, FilesTypeOK, Held, Named, Backed, validate, loadOne
<1>8. CASE Damage
  BY <1>8 DEF Damage, FilesInv, FilesTypeOK, Held, Named, Backed, validate, loadOne
<1>9. CASE UNCHANGED fileVars
  BY <1>9 DEF fileVars, FilesInv, FilesTypeOK, Held, Named, Backed, validate, loadOne
<1>10. QED
  BY <1>1, <1>2, <1>3, <1>4, <1>5, <1>6, <1>7, <1>8, <1>9 DEF FilesNext

(* The invariant of the files holds in every state. *)
LEMMA FilesInvHolds == FilesSpec => []FilesInv
BY FilesInvInit, FilesInvNext, PTL DEF FilesSpec

(* A room that has reached the disk can be loaded, unless the backup is    *)
(* one that validate accepted and Load refuses.                            *)
THEOREM RoomAlwaysLoads == FilesSpec => []RoomSurvives
<1>1. FilesInv => RoomSurvives
  BY FilesAssumption
     DEF FilesInv, FilesTypeOK, Held, Named, Backed, RoomSurvives, Load, loadOne, validate, None, Damaged, Foreign, Files, Contents
<1>2. QED
  BY <1>1, FilesInvHolds, PTL

(* Crashes and failing writes never take the room back.                    *)
THEOREM NewestLoads == FilesSpec => []LoadsNewest
<1>1. FilesInv => LoadsNewest
  BY FilesAssumption
     DEF FilesInv, FilesTypeOK, Backed, LoadsNewest, Load, loadOne, validate, None, Damaged, Foreign, Files, Contents
<1>2. QED
  BY <1>1, FilesInvHolds, PTL
=============================================================================
