---------------------------- MODULE AddressPool ----------------------------
(***************************************************************************)
(* What the lease allocator promises its callers, without revisions,       *)
(* names or bookkeeping: a pool of addresses, each free or owned by one    *)
(* device key.  A new device gets the lowest free address, an address can  *)
(* be given back only to the device it was seen with and only while it is  *)
(* free, and the pool can be rebuilt only from a saved assignment.         *)
(***************************************************************************)
EXTENDS Naturals

CONSTANTS Keys, Addresses, Free

VARIABLES owner,       \* owner[o]: the key that owns address o, or Free
          saved,       \* the saved assignment, of the same type
          remembered   \* remembered[k]: an address k was seen with, or Free

poolVars == <<owner, saved, remembered>>

PoolType ==
  /\ owner \in [Addresses -> Keys \cup {Free}]
  /\ saved \in [Addresses -> Keys \cup {Free}]
  /\ remembered \in [Keys -> Addresses \cup {Free}]

Owns(k) == \E o \in Addresses : owner[o] = k

PoolInit ==
  /\ owner = [o \in Addresses |-> Free]
  /\ saved = [o \in Addresses |-> Free]
  /\ remembered = [k \in Keys |-> Free]

(* A device without an address gets the lowest free one. *)
Take(k, o) ==
  /\ ~Owns(k) /\ owner[o] = Free
  /\ \A p \in Addresses : p < o => owner[p] # Free
  /\ owner' = [owner EXCEPT ![o] = k]
  /\ UNCHANGED <<saved, remembered>>

(* A device's address goes back to the pool. *)
Release(k, o) ==
  /\ owner[o] = k
  /\ owner' = [owner EXCEPT ![o] = Free]
  /\ UNCHANGED <<saved, remembered>>

(* Somebody looks up a device's address. *)
Look(k, o) ==
  /\ owner[o] = k
  /\ remembered' = [remembered EXCEPT ![k] = o]
  /\ UNCHANGED <<owner, saved>>

(* A device without an address gets back the one it was seen with, if that *)
(* address is still free.                                                  *)
GiveBack(k, o) ==
  /\ ~Owns(k) /\ owner[o] = Free /\ remembered[k] = o
  /\ owner' = [owner EXCEPT ![o] = k]
  /\ UNCHANGED <<saved, remembered>>

Save   == saved' = owner /\ UNCHANGED <<owner, remembered>>
Reload == owner' = saved /\ UNCHANGED <<saved, remembered>>

PoolNext ==
  \/ \E k \in Keys, o \in Addresses :
        Take(k, o) \/ Release(k, o) \/ Look(k, o) \/ GiveBack(k, o)
  \/ Save
  \/ Reload

PoolSpec == PoolInit /\ [][PoolNext]_poolVars
=============================================================================
