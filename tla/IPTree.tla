------------------------------- MODULE IPTree -------------------------------
(***************************************************************************)
(* The whitelist of a tunnel (openp2pengine/iptree.go): a search tree of   *)
(* address ranges, keyed by their first address.  A range that is added    *)
(* takes in every range it meets on its way down and starts again at the   *)
(* root; a lookup goes down once.  Both rely on the ranges of the tree     *)
(* being disjoint.  The balanced tree is its set of nodes: which of the    *)
(* nodes still to be searched is the root is left open, so all shapes are  *)
(* covered.  Each operation holds the tree's lock.                         *)
(***************************************************************************)
EXTENDS Integers

CONSTANTS
    MaxIP,       \* 2^32 - 1 in the code
    BlockSizes   \* sizes of networks: 1, 2, 4, ... in the code

ASSUME MaxIPAssumption == MaxIP \in Nat

IP == 0 .. MaxIP
Node == [min : IP, max : IP]

VARIABLES
    tree,    \* the nodes
    op,      \* the operation that holds the lock
    cur,     \* the nodes of the subtree it has still to search
    listed   \* history: the addresses of all entries added

treeVars == <<tree, op, cur, listed>>

Span(n) == n.min .. n.max
Idle == [do |-> "idle", node |-> [min |-> 0, max |-> 0], hit |-> FALSE]
Op == [do : {"idle", "add", "load", "loaded"}, node : Node, hit : BOOLEAN]

TreeInit == tree = {} /\ op = Idle /\ cur = {} /\ listed = {}

(* A child is the part of a subtree on one side of its root.               *)
Right(n) == {m \in cur : m.min > n.min}
Left(n) == {m \in cur : m.min < n.min}

-----------------------------------------------------------------------------
(* An entry of the list is one address, a first and a last address, or a   *)
(* network whose host part has 2^k addresses (calculateMaxIP).             *)
Block(size, x) == [min |-> (x \div size) * size, max |-> (x \div size) * size + size - 1]

(* The addresses are a whole number of networks of each size.              *)
ASSUME BlockAssumption == \A size \in BlockSizes, x \in IP : Block(size, x) \in Node

(* AddIntIP refuses a range that ends before it begins.                    *)
AddBegins(n) ==
    /\ op.do = "idle" /\ n.min <= n.max
    /\ op' = [op EXCEPT !.do = "add", !.node = n] /\ cur' = tree
    /\ listed' = listed \cup Span(n) /\ UNCHANGED tree

AddAddress == \E a \in IP : AddBegins([min |-> a, max |-> a])
AddRange == \E n \in Node : AddBegins(n)
AddNetwork == \E x \in IP, size \in BlockSizes : AddBegins(Block(size, x))

(* A node that holds the new range: nothing to do.                         *)
AddInside(n) ==
    /\ op.do = "add" /\ op.node.min >= n.min /\ op.node.max <= n.max
    /\ op' = Idle /\ cur' = {} /\ UNCHANGED <<tree, listed>>

AddRight(n) ==
    /\ op.do = "add" /\ op.node.min > n.max
    /\ cur' = Right(n) /\ UNCHANGED <<tree, op, listed>>

AddLeft(n) ==
    /\ op.do = "add" /\ op.node.max < n.min
    /\ cur' = Left(n) /\ UNCHANGED <<tree, op, listed>>

Union(n, m) ==
    [min |-> IF n.min < m.min THEN n.min ELSE m.min,
     max |-> IF n.max > m.max THEN n.max ELSE m.max]

(* A node that overlaps is removed and joined with the new range, and the  *)
(* search starts again at the root.                                        *)
AddMerges(n) ==
    /\ op.do = "add" /\ ~(op.node.min >= n.min /\ op.node.max <= n.max)
    /\ ~(op.node.min > n.max) /\ ~(op.node.max < n.min)
    /\ tree' = tree \ {n} /\ op' = [op EXCEPT !.node = Union(n, op.node)]
    /\ cur' = tree' /\ UNCHANGED listed

(* Put replaces a node with the same key.                                  *)
AddPuts ==
    /\ op.do = "add" /\ cur = {}
    /\ tree' = {m \in tree : m.min # op.node.min} \cup {op.node}
    /\ op' = Idle /\ UNCHANGED <<cur, listed>>

-----------------------------------------------------------------------------
(* Load looks an address up.                                               *)
LoadBegins ==
    /\ op.do = "idle"
    /\ \E a \in IP : op' = [op EXCEPT !.do = "load", !.node = [min |-> a, max |-> a]]
    /\ cur' = tree /\ UNCHANGED <<tree, listed>>

LoadHits(n) ==
    /\ op.do = "load" /\ op.node.min >= n.min /\ op.node.min <= n.max
    /\ op' = [op EXCEPT !.do = "loaded", !.hit = TRUE]
    /\ cur' = {} /\ UNCHANGED <<tree, listed>>

(* Mutant: the children are swapped. *)
LoadDescendsWrong(n) ==
    /\ op.do = "load" /\ ~(op.node.min >= n.min /\ op.node.min <= n.max)
    /\ cur' = (IF op.node.min < n.min THEN Right(n) ELSE Left(n))
    /\ UNCHANGED <<tree, op, listed>>

LoadDescends(n) ==
    /\ op.do = "load" /\ ~(op.node.min >= n.min /\ op.node.min <= n.max)
    /\ cur' = (IF op.node.min < n.min THEN Left(n) ELSE Right(n))
    /\ UNCHANGED <<tree, op, listed>>

LoadMisses ==
    /\ op.do = "load" /\ cur = {} /\ op' = [op EXCEPT !.do = "loaded", !.hit = FALSE]
    /\ UNCHANGED <<tree, cur, listed>>

Return == op.do = "loaded" /\ op' = Idle /\ UNCHANGED <<tree, cur, listed>>

TreeNext ==
    \/ AddAddress \/ AddRange \/ AddNetwork \/ AddPuts
    \/ LoadBegins \/ LoadMisses \/ Return
    \/ \E n \in cur :
          \/ AddInside(n) \/ AddRight(n) \/ AddLeft(n) \/ AddMerges(n)
          \/ LoadHits(n) \/ LoadDescends(n)

TreeSpec == TreeInit /\ [][TreeNext]_treeVars

-----------------------------------------------------------------------------
TreeTypeOK ==
    /\ tree \subseteq Node /\ op \in Op /\ cur \subseteq Node /\ listed \subseteq IP

(* The ranges of the tree do not overlap, and none is empty: what adding   *)
(* and looking up rely on when they take one side of a node only.          *)
Disjoint ==
    /\ \A n \in tree : n.min <= n.max
    /\ \A n, m \in tree : n = m \/ n.max < m.min \/ m.max < n.min

(* Between operations the tree covers exactly the addresses that were      *)
(* added, whatever the order and however they overlap.                     *)
CoversListed == op.do # "add" => listed = UNION {Span(n) : n \in tree}

(* A lookup finds an address if and only if it was added.                  *)
LookupRight == op.do = "loaded" => (op.hit <=> op.node.min \in listed)
=============================================================================
