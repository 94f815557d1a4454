---------------------------- MODULE RatchetTree ----------------------------
(***************************************************************************)
(* The ratchet tree of OpenMLS: the vectors of ABinaryTree, the AbDiff     *)
(* that overlays them, and the TreeSyncDiff operations built on it         *)
(* (binary_tree/array_representation, treesync/diff.rs, treesync/mod.rs).  *)
(*                                                                         *)
(* A tree is a function from the node indices 0 .. n-1 to nodes; a tree    *)
(* that was imported may have fewer nodes than its size.  A key stands for *)
(* a key pair, a hash for the key of the node that was hashed: no two      *)
(* nodes are ever made with the same key.                                  *)
(***************************************************************************)
EXTENDS TreeMath, FiniteSets, FiniteSetsExt, Functions

CONSTANT MaxTreeSize    \* MAX_TREE_SIZE, a power of 2

ASSUME MaxTreeSizeAssumption == \E k \in 1..30 : MaxTreeSize = 2^k

NoHash == <<>>

Blank == [t |-> "blank"]
FullLeaf(key, hash) == [t |-> "leaf", key |-> key, hash |-> hash]
FullParent(key, hash) == [t |-> "parent", key |-> key, hash |-> hash, unmerged |-> {}]
IsBlank(node) == node = Blank

Ascending(S) == [i \in 1..Cardinality(S) |-> CHOOSE x \in S : Cardinality({y \in S : y < x}) = i - 1]

(* The index arithmetic, tabulated. *)
Indices == 0..(MaxTreeSize - 1)
Sizes == {2^k - 1 : k \in 1..log2(MaxTreeSize)}
LeftOf == [v \in {v \in Indices : ~IsLeaf(v)} |-> left(v)]
RightOf == [v \in {v \in Indices : ~IsLeaf(v)} |-> right(v)]
PathOf == [s \in Sizes |-> [l \in 0..(LeafCount(s) - 1) |-> direct_path(l, s)]]
CopathOf == [s \in Sizes |-> [l \in 0..(LeafCount(s) - 1) |->
                IF s = 1 THEN <<>> ELSE copath(l, s)]]
LcaOf == [l, m \in 0..(LeafCount(MaxTreeSize - 1) - 1) |->
             IF l = m THEN LeafNode(l) ELSE lowest_common_ancestor(l, m)]

-----------------------------------------------------------------------------
(* ABinaryTree and AbDiff *)

TreeSizeOf(tree) == NewTreeSize(Cardinality(DOMAIN tree))

Default(tree, v) == IF v \in DOMAIN tree THEN tree[v] ELSE Blank

EmptyDiff(tree) ==
    [orig |-> tree, changed |-> [v \in {} |-> Blank], size |-> TreeSizeOf(tree)]

(* The callers keep within the largest tree (TreeFull). *)
GrowTree(d) == [d EXCEPT !.size = Inc(d.size)]

ShrinkTree(d) ==
    [d EXCEPT !.size = Dec(d.size),
              !.changed = Restrict(d.changed, {v \in DOMAIN d.changed : v < Dec(d.size)})]

Replace(d, v, node) ==
    [d EXCEPT !.changed = [u \in DOMAIN d.changed \cup {v} |->
                              IF u = v THEN node ELSE d.changed[u]]]

LeafAt(d, l) ==
    IF LeafNode(l) \in DOMAIN d.changed THEN d.changed[LeafNode(l)]
    ELSE IF l >= LeafCount(d.size) THEN Blank
    ELSE Default(d.orig, LeafNode(l))

ParentAt(d, v) ==
    IF v \in DOMAIN d.changed THEN d.changed[v] ELSE Default(d.orig, v)

NodeAt(d, v) == IF IsLeaf(v) THEN LeafAt(d, LeafIndex(v)) ELSE ParentAt(d, v)

(* The merged iterators of the two sorted sources stop after as many items  *)
(* as the tree has leaves (parents), whatever their indices are.            *)
SortedIter(d, kind(_), size) ==
    LET all == Ascending({v \in DOMAIN d.changed \cup DOMAIN d.orig : kind(v)})
    IN  SubSeq(all, 1, IF size < Len(all) THEN size ELSE Len(all))

Stored(d, v) == IF v \in DOMAIN d.changed THEN d.changed[v] ELSE d.orig[v]

Leaves(d) ==
    LET order == SortedIter(d, IsLeaf, LeafCount(d.size))
    IN  [i \in 1..Len(order) |-> [index |-> LeafIndex(order[i]), node |-> Stored(d, order[i])]]

Parents(d) ==
    LET odd(v) == ~IsLeaf(v)
        order == SortedIter(d, odd, ParentCount(d.size))
    IN  [i \in 1..Len(order) |-> [index |-> order[i], node |-> Stored(d, order[i])]]

MergeDiff(tree, d) ==
    [v \in 0..(d.size - 1) |-> IF v \in DOMAIN d.changed THEN d.changed[v] ELSE Default(tree, v)]

-----------------------------------------------------------------------------
(* TreeSyncDiff: leaves *)

SetDirectPath(d, l, node) ==
    FoldSeq(LAMBDA v, acc : Replace(acc, v, node), d, PathOf[d.size][l])

RightmostFullLeaf(d) ==
    Max({0} \cup {l.index : l \in {l \in ToSet(Leaves(d)) : ~IsBlank(l.node)}})

RECURSIVE ShrinkTo(_, _)
ShrinkTo(d, l) == IF LeafIsLeft(d.size, l) THEN ShrinkTo(ShrinkTree(d), l) ELSE d

TrimTree(d) == IF d.size = 1 THEN d ELSE ShrinkTo(d, RightmostFullLeaf(d))

FirstBlank(leaves) ==
    LET blank == {l \in ToSet(leaves) : IsBlank(l.node)}
    IN  IF blank # {} THEN Min({l.index : l \in blank}) ELSE Len(leaves)

FreeLeafIndex(d) == FirstBlank(Leaves(d))

RECURSIVE GrowTo(_, _)
GrowTo(d, l) == IF l >= LeafCount(d.size) THEN GrowTo(GrowTree(d), l) ELSE d

AddLeafAt(d, l, leaf) ==
    LET placed == Replace(GrowTo(d, l), LeafNode(l), leaf)
        Unmerge(v, acc) ==
            LET p == ParentAt(acc, v)
            IN  Replace(acc, v, IF IsBlank(p) THEN p ELSE [p EXCEPT !.unmerged = @ \cup {l}])
    IN  FoldSeq(Unmerge, placed, PathOf[placed.size][l])

AddLeaf(d, leaf) == AddLeafAt(d, FreeLeafIndex(d), leaf)

(* Mutant: keeps the direct path. *)
BlankLeafOnly(d, l) == Replace(d, LeafNode(l), Blank)

BlankLeaf(d, l) == SetDirectPath(Replace(d, LeafNode(l), Blank), l, Blank)

UpdateLeaf(d, l, leaf) == SetDirectPath(Replace(d, LeafNode(l), leaf), l, Blank)

-----------------------------------------------------------------------------
(* TreeSyncDiff: resolutions and filtered paths *)

RECURSIVE Resolution(_, _, _)
Resolution(d, v, excluded) ==
    LET node == NodeAt(d, v)
    IN  IF IsLeaf(v)
        THEN IF IsBlank(node) \/ LeafIndex(v) \in excluded THEN <<>> ELSE <<v>>
        ELSE IF IsBlank(node)
             THEN Resolution(d, LeftOf[v], excluded) \o Resolution(d, RightOf[v], excluded)
             ELSE <<v>> \o Ascending({u \in {LeafNode(l) : l \in node.unmerged \ excluded} :
                                          ~IsBlank(NodeAt(d, u))})

(* The positions of a copath that are not empty. *)
Kept(d, co) == {i \in DOMAIN co : Resolution(d, co[i], {}) # <<>>}

Pick(seq, indices) ==
    LET order == Ascending(indices)
    IN  [i \in DOMAIN order |-> seq[order[i]]]

FilteredDirectPath(d, l) == Pick(PathOf[d.size][l], Kept(d, CopathOf[d.size][l]))
FilteredCopath(d, l) == Pick(CopathOf[d.size][l], Kept(d, CopathOf[d.size][l]))

(* Mutant: the new members are not left out. *)
CopathResolutionsToAll(d, l, exclusions) ==
    [i \in DOMAIN FilteredCopath(d, l) |-> Resolution(d, FilteredCopath(d, l)[i], {})]

FilteredCopathResolutions(d, l, exclusions) ==
    LET nodes == FilteredCopath(d, l)
    IN  [i \in DOMAIN nodes |->
            SelectSeq(Resolution(d, nodes[i], {}),
                      LAMBDA v : ~(IsLeaf(v) /\ LeafIndex(v) \in exclusions))]

FilteredCommonDirectPath(d, l, m) == SharedEnd(FilteredDirectPath(d, l), FilteredDirectPath(d, m))

(* The keys whose private part the owner of leaf l should have. *)
OwnedEncryptionKeys(d, l) ==
    {ParentAt(d, v).key : v \in {v \in ToSet(FilteredDirectPath(d, l)) :
                                   ~IsBlank(ParentAt(d, v)) /\ l \notin ParentAt(d, v).unmerged}}
      \cup (IF IsBlank(LeafAt(d, l)) THEN {} ELSE {LeafAt(d, l).key})

-----------------------------------------------------------------------------
(* Tree hashes and parent hashes.  What a tree hash is computed from stands *)
(* for the hash; the leaves in `excluded' count as blank.                   *)

RECURSIVE TreeHash(_, _, _)
TreeHash(d, v, excluded) ==
    LET node == NodeAt(d, v)
    IN  IF IsLeaf(v)
        THEN <<IF LeafIndex(v) \in excluded THEN Blank ELSE node>>
        ELSE TreeHash(d, LeftOf[v], excluded)
               \o <<IF IsBlank(node) THEN node ELSE [node EXCEPT !.unmerged = @ \ excluded]>>
               \o TreeHash(d, RightOf[v], excluded)

(* The parent hash of node v, whose content is p, is carried from exactly   *)
(* one side.                                                                *)
IsCarried(d, v, p, sealed) ==
    LET Carries(child, other) ==
            \E u \in ToSet(Resolution(d, child, p.unmerged)) :
                /\ NodeAt(d, u).hash = p.key
                /\ sealed[p.key] = TreeHash(d, other, p.unmerged)
    IN  Carries(LeftOf[v], RightOf[v]) # Carries(RightOf[v], LeftOf[v])

(* verify_parent_hashes: `sealed' gives for the key of a parent node the    *)
(* tree hash of the sibling that its parent hash was computed with.         *)
VerifyParentHashes(d, sealed) ==
    \A p \in ToSet(Parents(d)) : ~IsBlank(p.node) => IsCarried(d, p.index, p.node, sealed)

-----------------------------------------------------------------------------
(* RatchetTree: export and import *)

(* Leaves after the rightmost full one are cut off.  Leaves and parents are *)
(* interleaved by position; missing parents are padded with blanks.         *)
ExportNodes(ls, ps, last) ==
    LET taken == Min({last, Len(ps)})
        padded == taken + Max({0, Len(ls) - 1 - Len(ps)})
    IN  [v \in 0..LeafNode(Min({last, padded})) |->
            IF IsLeaf(v) THEN ls[LeafIndex(v) + 1].node
            ELSE IF LeafIndex(v) < taken THEN ps[LeafIndex(v) + 1].node ELSE Blank]

ExportRatchetTree(d) == ExportNodes(Leaves(d), Parents(d), RightmostFullLeaf(d))
=============================================================================
