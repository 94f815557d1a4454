------------------------------ MODULE TreeMath ------------------------------
(***************************************************************************)
(* The index arithmetic of OpenMLS's array representation of a tree        *)
(* (binary_tree/array_representation/treemath.rs): leaf l is node 2l,      *)
(* parent p is node 2p + 1, and the shape follows from the bits of the     *)
(* node's index.  Nodes are TreeNodeIndex::u32 here; sizes are TreeSize.   *)
(***************************************************************************)
EXTENDS Integers, Sequences, SequencesExt, Bitwise

LeafNode(l) == 2 * l
ParentNode(p) == 2 * p + 1
IsLeaf(v) == v % 2 = 0
LeafIndex(v) == v \div 2

-----------------------------------------------------------------------------
(* TreeSize *)

log2(x) == IF x = 0 THEN 0 ELSE CHOOSE k \in 0..31 : 2^k <= x /\ x < 2^(k + 1)

NewTreeSize(nodes) == 2^(log2(nodes) + 1) - 1

LeafCount(size) == size \div 2 + 1
ParentCount(size) == size \div 2
LeafIsLeft(size, l) == l < LeafCount(size) \div 2
Inc(size) == 2 * size + 1

Dec(size) == IF size >= 2 THEN (size + 1) \div 2 - 1 ELSE 0
IsNodeInTree(v, size) == v < size

-----------------------------------------------------------------------------
(* Relations of nodes *)

level(v) ==
    IF v & 1 = 0 THEN 0
    ELSE CHOOSE k \in 1..31 : /\ \A j \in 0..(k - 1) : shiftR(v, j) & 1 = 1
                              /\ shiftR(v, k) & 1 = 0

root(size) == 2^log2(size) - 1

left(v) == v ^^ (2^(level(v) - 1))

right(v) == v ^^ (3 * 2^(level(v) - 1))

parent(v) ==
    LET k == level(v)
        b == shiftR(v, k + 1) & 1
    IN  (v | (2^k)) ^^ (b * 2^(k + 1))

sibling(v) == IF v < parent(v) THEN right(parent(v)) ELSE left(parent(v))

-----------------------------------------------------------------------------
(* Paths *)

RECURSIVE PathTo(_, _)
PathTo(v, r) == IF v = r THEN <<>> ELSE <<parent(v)>> \o PathTo(parent(v), r)

direct_path(l, size) == PathTo(LeafNode(l), root(size))

Siblings(path) == [i \in DOMAIN path |-> sibling(path[i])]

copath(l, size) == Siblings(<<LeafNode(l)>> \o Front(direct_path(l, size)))

(* For two different leaves; the early returns of the code compare the      *)
(* levels, which are both 0 for leaves.                                     *)
lowest_common_ancestor(l, m) ==
    LET k == CHOOSE k \in 1..31 : /\ shiftR(LeafNode(l), k) = shiftR(LeafNode(m), k)
                                  /\ shiftR(LeafNode(l), k - 1) # shiftR(LeafNode(m), k - 1)
    IN  shiftR(LeafNode(l), k) * 2^k + 2^(k - 1) - 1

SharedEnd(p, q) ==
    LET x == Reverse(p)
        y == Reverse(q)
        agree == {n \in 0..Len(x) : n <= Len(y) /\ SubSeq(x, 1, n) = SubSeq(y, 1, n)}
    IN  Reverse(SubSeq(x, 1, CHOOSE n \in agree : \A o \in agree : o <= n))

common_direct_path(l, m, size) == SharedEnd(direct_path(l, size), direct_path(m, size))
=============================================================================
