----------------------------- MODULE MCTreeKEM -----------------------------
(***************************************************************************)
(* TreeKEM for TLC, and the arithmetic of TreeMath compared with the tree  *)
(* it stands for: the perfect binary tree whose nodes are numbered from    *)
(* left to right.                                                          *)
(***************************************************************************)
EXTENDS TreeKEM

CONSTANTS c1, c2, c3, c4, c5

Four == {c1, c2, c3, c4}
Symmetry == Permutations({c2, c3, c4})

(* A founder that the others join one by one. *)
Growing == [founders |-> <<c1>>, committers |-> Four, movers |-> Four,
            epochs |-> 3, proposals |-> 1, externalRemoves |-> 0]

(* Commits of several proposals, and joiners that remove a leaf. *)
Bundles == [founders |-> <<c1>>, committers |-> Four, movers |-> Four,
            epochs |-> 2, proposals |-> 3, externalRemoves |-> 1]

(* Five leaves: the least that lets a node below the root have unmerged ones. *)
FiveLeaves == [founders |-> <<c1, c2, c3, c4, c5>>, committers |-> {c1, c3, c5}, movers |-> {c4},
               epochs |-> 3, proposals |-> 1, externalRemoves |-> 0]

AllScenarios == {Growing, Bundles, FiveLeaves}
-----------------------------------------------------------------------------
(* The reference. *)
RECURSIVE Edges(_, _)
Edges(lo, hi) ==
    IF lo = hi THEN {}
    ELSE LET mid == (lo + hi) \div 2
             l == (lo + mid - 1) \div 2
             r == (mid + 1 + hi) \div 2
         IN  {<<mid, l>>, <<mid, r>>} \cup Edges(lo, mid - 1) \cup Edges(mid + 1, hi)

RECURSIVE Reach(_, _)
Reach(edges, v) == {v} \cup UNION {Reach(edges, x[2]) : x \in {x \in edges : x[1] = v}}

(* The arithmetic describes the trees of the members: left, right, parent   *)
(* and root give the edges of the reference, growing and shrinking undo     *)
(* each other, and shrinking drops exactly the right half.                  *)
Shape(s, edges, below) ==
    /\ UNION {{<<v, left(v)>>, <<v, right(v)>>} : v \in {v \in 0..(s - 1) : ~IsLeaf(v)}} = edges
    /\ \A x \in edges : parent(x[2]) = x[1] /\ sibling(sibling(x[2])) = x[2]
    /\ below[root(s)] = 0..(s - 1)
    /\ LeafCount(s) + ParentCount(s) = s /\ Dec(Inc(s)) = s
    /\ \A l \in 0..(LeafCount(s) - 1) :
          LeafIsLeft(s, l) <=> (s > 1 /\ IsNodeInTree(LeafNode(l), Dec(s)))

(* The direct path of a leaf is everything above it, from the bottom up,    *)
(* and the subtrees of its copath hold every other leaf exactly once.       *)
Paths(s, l, below, above) ==
    LET leaf == LeafNode(l)
        path == direct_path(l, s)
        co == copath(l, s)
    IN  /\ ToSet(path) = above[leaf] /\ Len(path) = Cardinality(above[leaf])
        /\ \A i \in 1..(Len(path) - 1) : path[i] \in below[path[i + 1]]
        /\ s > 1 =>
             /\ Len(path) = Len(co) /\ ToSet(co) \subseteq 0..(s - 1)
             /\ UNION {below[co[i]] : i \in DOMAIN co} = 0..(s - 1) \ (above[leaf] \cup {leaf})
             /\ \A i, j \in DOMAIN co : i # j => below[co[i]] \cap below[co[j]] = {}

(* Two leaves meet at the lowest node above both, and share the path from   *)
(* there to the root.                                                       *)
Meet(s, k, l, below, above) ==
    LET common == above[LeafNode(k)] \cap above[LeafNode(l)]
        lca == lowest_common_ancestor(k, l)
        path == common_direct_path(k, l, s)
    IN  /\ lca \in common /\ \A v \in common : lca \in below[v]
        /\ ToSet(path) = common /\ path[1] = lca

(* The bit arithmetic of treemath.rs agrees with the reference on every     *)
(* tree and every pair of leaves, so that a secret sent to a copath reaches *)
(* everybody and is found by everybody (left, right, parent, root,          *)
(* TreeSize, direct_path, copath, lowest_common_ancestor).                  *)
ASSUME TreeMathIsSound ==
    \A s \in Sizes :
        LET edges == Edges(0, s - 1)
            below == [v \in 0..(s - 1) |-> Reach(edges, v)]
            above == [v \in 0..(s - 1) |-> {u \in 0..(s - 1) : u # v /\ v \in below[u]}]
            leaves == 0..(LeafCount(s) - 1)
        IN  /\ Shape(s, edges, below)
            /\ \A k \in leaves :
                  /\ Paths(s, k, below, above)
                  /\ \A l \in leaves \ {k} : Meet(s, k, l, below, above)
=============================================================================
