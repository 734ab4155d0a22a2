------------------------------- MODULE MCData -------------------------------
(***************************************************************************)
(* The three data structures whose theorems are proved, for TLC: the lease *)
(* allocator, the whitelist tree and the room's files.  They share no      *)
(* state: the initial state chooses one and only that one moves, the       *)
(* others stay where they begin.                                           *)
(***************************************************************************)
EXTENDS LeaseAllocator, IPTree, RoomFiles, TLC

CONSTANTS k1, k2, k3, n1

(* Three devices compete for two addresses: the pool fills up.             *)
KeySymmetry == Permutations({k1, k2, k3})

VARIABLE part   \* the structure that moves

DataInit ==
    /\ part \in {"allocator", "tree", "files"}
    /\ Init /\ TreeInit /\ FilesInit

DataNext ==
    \/ part = "allocator" /\ Next /\ UNCHANGED <<part, treeVars, fileVars>>
    \/ part = "tree" /\ TreeNext /\ UNCHANGED <<part, vars, fileVars>>
    \/ part = "files" /\ FilesNext /\ UNCHANGED <<part, vars, treeVars>>

DataSpec == DataInit /\ [][DataNext]_<<part, vars, treeVars, fileVars>>
=============================================================================
