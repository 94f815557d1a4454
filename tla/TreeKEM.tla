------------------------------ MODULE TreeKEM ------------------------------
(***************************************************************************)
(* A group that works on its ratchet tree: commits with Update, Remove and *)
(* Add proposals, with and without a path, Welcomes and external commits.  *)
(* A commit is made by one client and processed by every member and joiner *)
(* before the next one (GroupSession is about those that race).            *)
(*                                                                         *)
(* Every client keeps its own copy of the tree and the private keys of its *)
(* part of it.  A path secret is the triple of who made it, in which epoch *)
(* and at which position of the path; it is also the key derived from it,  *)
(* and who has one can derive the ones after it.                           *)
(***************************************************************************)
EXTENDS RatchetTree

CONSTANTS
    Clients,
    Scenarios,  \* bounds: the groups to start from and what may happen in them, see below
    None

(* A scenario: the founders in the order of their leaves, the clients that  *)
(* commit, the clients that join, update and are removed, the number of     *)
(* epochs, of Update and Remove proposals of one commit, and of the Remove  *)
(* and SelfRemove proposals of an external commit.                          *)
ASSUME ScenariosAssumption ==
    /\ None \notin Clients
    /\ \A s \in Scenarios :
         /\ s.founders # <<>> /\ ToSet(s.founders) \subseteq Clients /\ IsInjective(s.founders)
         /\ s.committers \cup s.movers \subseteq Clients
         /\ {s.epochs, s.proposals, s.externalRemoves} \subseteq Nat

VARIABLES
    bounds,   \* the scenario
    epoch,    \* GroupContext.epoch
    roster,   \* history: who is in the group, by the proposals alone
    tree,     \* TreeSync.tree of each client
    own,      \* MlsGroup.own_leaf_index of each member, None for others
    keys,     \* the epoch key pairs of each member
    knows,    \* history: every private key a client ever had
    sealed,   \* the preimages of the parent hashes, by the key of the node
    errors    \* the clients that could not process the last commit, and why

vars == <<bounds, epoch, roster, tree, own, keys, knows, sealed, errors>>

Members == {c \in Clients : own[c] # None}

InitKey(c, e) == <<c, e, -1>>       \* of a key package
UpdateKey(c, e) == <<c, e, -2>>     \* of an Update proposal's leaf node
PathKey(c, e, i) == <<c, e, i>>     \* position 0: the leaf of the path

(* The founder has added the others with one commit without a path, or is   *)
(* still alone.                                                             *)
Init ==
  \E scenario \in Scenarios :
    LET founders == scenario.founders
        size == NewTreeSize(2 * Len(founders) - 1)
        shared == [v \in 0..(size - 1) |->
                     IF IsLeaf(v) /\ LeafIndex(v) < Len(founders)
                     THEN FullLeaf(InitKey(founders[LeafIndex(v) + 1], 0), NoHash) ELSE Blank]
        members == ToSet(founders)
    IN  /\ bounds = scenario
        /\ epoch = 0
        /\ roster = members
        /\ own = [c \in Clients |-> IF c \in members
                                   THEN (CHOOSE i \in DOMAIN founders : founders[i] = c) - 1 ELSE None]
        /\ keys = [c \in Clients |-> IF c \in members THEN {InitKey(c, 0)} ELSE {}]
        /\ tree = [c \in Clients |-> IF c \in members THEN shared ELSE [v \in {0} |-> Blank]]
        /\ knows = keys
        /\ sealed = [k \in {} |-> <<>>]
        /\ errors = {}

-----------------------------------------------------------------------------
(* Making and applying update paths *)

(* Mutant: trims before the new leaves are added. *)
TrimBeforeAdds(d, cm) ==
    LET updated == FoldSet(LAMBDA u, acc : UpdateLeaf(acc, u.at, u.leaf), d, cm.updates)
        removed == FoldSet(LAMBDA l, acc : BlankLeaf(acc, l), updated, cm.removes)
    IN  FoldLeft(LAMBDA acc, leaf : AddLeaf(acc, leaf), TrimTree(removed), cm.adds)

ApplyProposals(d, cm) ==
    LET updated == FoldSet(LAMBDA u, acc : UpdateLeaf(acc, u.at, u.leaf), d, cm.updates)
        removed == FoldSet(LAMBDA l, acc : BlankLeaf(acc, l), updated, cm.removes)
    IN  TrimTree(FoldLeft(LAMBDA acc, leaf : AddLeaf(acc, leaf), removed, cm.adds))

(* The leaves of the added members: the exclusion list of the path. *)
InvitationList(d, cm) ==
    {l \in 0..(LeafCount(d.size) - 1) : \E i \in DOMAIN cm.adds : LeafAt(d, l) = cm.adds[i]}

(* Mutant: the parent hashes are chained from the leaf up. *)
PathNodesUpward(path, pks) ==
    [i \in DOMAIN path |-> FullParent(pks[i], IF i = 1 THEN NoHash ELSE pks[i - 1])]

(* set_parent_hashes: each node carries the hash of the one above it. *)
PathNodes(path, pks) ==
    [i \in DOMAIN path |-> FullParent(pks[i], IF i = Len(path) THEN NoHash ELSE pks[i + 1])]

(* The tree hashes of the copath, which the parent hashes cover. *)
SiblingHashes(d, nodes) == [i \in DOMAIN nodes |-> TreeHash(d, nodes[i], {})]

(* process_update_path *)
ProcessUpdatePath(d, l, path, pks, leaf) ==
    LET blanked == SetDirectPath(d, l, Blank)
        nodes == PathNodes(path, pks)
        set == FoldLeft(LAMBDA acc, i : Replace(acc, path[i], nodes[i]), blanked,
                        [i \in DOMAIN path |-> i])
    IN  Replace(set, LeafNode(l), leaf)

(* encrypt_path: the UpdatePath that is sent, each secret encrypted to the  *)
(* keys of a resolution.                                                    *)
EncryptPath(d, leaf, siblings, pks, to) ==
    [leaf |-> leaf, siblings |-> siblings,
     nodes |-> [i \in DOMAIN pks |->
                  [key |-> pks[i], to |-> [j \in DOMAIN to[i] |-> NodeAt(d, to[i][j]).key]]]]

(* The diff with a new path of c, and the UpdatePath. *)
NewPath(d, c, l, path, exclusions) ==
    LET pks == [i \in DOMAIN path |-> PathKey(c, epoch + 1, i)]
        leaf == FullLeaf(PathKey(c, epoch + 1, 0), IF path = <<>> THEN NoHash ELSE pks[1])
        after == ProcessUpdatePath(d, l, path, pks, leaf)
    IN  [diff |-> after,
         update |-> EncryptPath(after, leaf, SiblingHashes(d, FilteredCopath(d, l)), pks,
                                FilteredCopathResolutions(after, l, exclusions))]

(* apply_own_update_path: an external committer first adds a placeholder.   *)
ComputePath(d0, c, l, external, exclusions) ==
    LET d == IF external THEN AddLeaf(d0, FullLeaf(PathKey(c, epoch + 1, 0), NoHash)) ELSE d0
    IN  NewPath(d, c, l, FilteredDirectPath(d, l), exclusions)

Failed(reason) == [ok |-> FALSE, reason |-> reason]

(* apply_received_update_path, once the sender has a leaf. *)
ApplyPathOf(d, sender, path, up) ==
    CASE Len(path) # Len(up.nodes) -> Failed("PathLengthMismatch")
      [] SiblingHashes(d, FilteredCopath(d, sender)) # up.siblings -> Failed("ParentHashMismatch")
      [] OTHER -> [ok |-> TRUE, diff |-> ProcessUpdatePath(d, sender, path,
                                            [i \in DOMAIN up.nodes |-> up.nodes[i].key], up.leaf)]

(* apply_received_update_path *)
ApplyReceivedUpdatePath(d0, sender, up) ==
    LET new == IsBlank(LeafAt(d0, sender)) \/ sender >= LeafCount(d0.size)
        d == IF new THEN AddLeaf(d0, up.leaf) ELSE d0
    IN  IF new /\ FreeLeafIndex(d0) # sender THEN Failed("InconsistentSenderIndex")
        ELSE ApplyPathOf(d, sender, FilteredDirectPath(d, sender), up)

(* subtree_root_position, in the filtered path of l *)
SubtreeRootPosition(path, l, m) == {i \in DOMAIN path : path[i] = LcaOf[l, m]}

(* subtree_root_copath_node *)
SubtreeRootCopathNode(sender, l) ==
    IF l < sender THEN LeftOf[LcaOf[sender, l]] ELSE RightOf[LcaOf[sender, l]]

(* The path secret `from' and the n - 1 that are derived from it. *)
DerivePath(from, n) == [j \in 1..n |-> <<from[1], from[2], from[3] + j - 1>>]

(* Decrypts the secret at position `at' that is encrypted to `res', with    *)
(* the keys in `owned', and derives the secrets of the n common nodes.      *)
DecryptAt(d, up, at, res, owned, n) ==
    LET mine == {i \in DOMAIN res : NodeAt(d, res[i]).key \in owned}
        ct == Min(mine)
        derived == DerivePath(up.nodes[at].key, n)
    IN  CASE mine = {} -> Failed("MissingSender")
          [] ct \notin DOMAIN up.nodes[at].to -> Failed("MissingCiphertext")
          [] up.nodes[at].to[ct] # NodeAt(d, res[ct]).key -> Failed("UnableToDecrypt")
          [] \E j \in DOMAIN derived :
                /\ at + j - 1 \in DOMAIN up.nodes
                /\ up.nodes[at + j - 1].key # derived[j] -> Failed("PathMismatch")
          [] OTHER -> [ok |-> TRUE, keys |-> ToSet(derived), secret |-> up.nodes[at].key[3] + n]

(* decrypt_path: the new keys and the commit secret, or the error. *)
DecryptPath(d, l, sender, up, owned, exclusions) ==
    LET pos == SubtreeRootPosition(FilteredDirectPath(d, sender), sender, l)
    IN  IF pos = {} THEN Failed("MissingOwnLeaf")
        ELSE DecryptAt(d, up, CHOOSE i \in pos : TRUE,
                       Resolution(d, SubtreeRootCopathNode(sender, l), exclusions), owned,
                       Len(FilteredCommonDirectPath(d, l, sender)))

(* derive_path_secrets, of a joiner that was given the secret at `from'. *)
DerivePathSecrets(d, l, sender, from) ==
    LET path == SelectSeq(common_direct_path(l, sender, d.size),
                          LAMBDA v : ~IsBlank(ParentAt(d, v)) /\ l \notin ParentAt(d, v).unmerged)
        derived == DerivePath(from, Len(path))
    IN  IF \E j \in DOMAIN path : ParentAt(d, path[j]).key # derived[j]
        THEN Failed("PublicKeyMismatch")
        ELSE [ok |-> TRUE, keys |-> ToSet(derived)]

-----------------------------------------------------------------------------
(* Processing a commit *)

(* Mutant: keeps every key. *)
MergeKeepsKeys(d, l, candidates) ==
    [ok |-> TRUE, tree |-> MergeDiff(d.orig, d), keys |-> candidates]

(* merge_commit: the keys of the new epoch, out of the old and the new. *)
Merge(d, l, candidates) ==
    LET merged == MergeDiff(d.orig, d)
        needed == OwnedEncryptionKeys(EmptyDiff(merged), l)
    IN  IF needed \subseteq candidates
        THEN [ok |-> TRUE, tree |-> merged, keys |-> candidates \cap needed]
        ELSE Failed("We should have all the private key material we need.")

(* The path of a commit was decrypted, with the keys in `owned'. *)
StagePath(m, cm, d, path, owned) ==
    IF ~path.ok THEN path
    ELSE IF path.secret # Len(cm.path.nodes) + 1 THEN Failed("ConfirmationTagMismatch")
    ELSE Merge(d, own[m], owned \cup path.keys)

(* The path of a commit was applied; a removed member cannot decrypt it.    *)
StageApplied(m, cm, applied, owned, exclusions) ==
    IF ~applied.ok THEN applied
    ELSE IF own[m] \in cm.removes THEN [ok |-> TRUE, tree |-> tree[m], keys |-> {}]
    ELSE StagePath(m, cm, applied.diff,
                   DecryptPath(applied.diff, own[m], cm.sender, cm.path, owned, exclusions), owned)

(* stage_commit of a member that did not make the commit. *)
Stage(m, cm) ==
    LET d == ApplyProposals(EmptyDiff(tree[m]), cm)
        update == {u.leaf.key : u \in {u \in cm.updates : u.at = own[m]}}
    IN  IF cm.path = NoHash THEN Merge(d, own[m], keys[m])
        ELSE StageApplied(m, cm, ApplyReceivedUpdatePath(d, cm.sender, cm.path),
                          keys[m] \cup update, InvitationList(d, cm))

(* Joining with the Welcome for the leaf node of c, from the tree t. *)
Join(c, t, sender, withPath, at) ==
    LET n == EmptyDiff(t)
        l == CHOOSE l \in 0..LeafIndex(Cardinality(DOMAIN t)) : LeafAt(n, l).key = InitKey(c, epoch + 1)
        path == DerivePathSecrets(n, l, sender, PathKey(withPath, epoch + 1, at))
    IN  CASE ~VerifyParentHashes(n, sealed') -> Failed("InvalidParentHash")
          [] withPath = None -> [ok |-> TRUE, tree |-> t, own |-> l, keys |-> {InitKey(c, epoch + 1)}]
          [] withPath # None /\ ~path.ok -> path
          [] OTHER -> [ok |-> TRUE, tree |-> t, own |-> l,
                       keys |-> {InitKey(c, epoch + 1)} \cup path.keys]

(* encrypt_group_secrets: the position of the path secret that the Welcome  *)
(* gives to j.                                                              *)
SecretFor(j, d, sender) ==
    LET l == CHOOSE i \in 0..(LeafCount(d.size) - 1) :
                ~IsBlank(LeafAt(d, i)) /\ LeafAt(d, i).key = InitKey(j, epoch + 1)
    IN  CHOOSE i \in SubtreeRootPosition(FilteredDirectPath(d, sender), sender, l) : TRUE

(* What client x makes of the commit cm of client c, whose diff is d. *)
Outcome(x, c, l, cm, d, joiners) ==
    LET nodes == IF cm.path = NoHash THEN <<>> ELSE cm.path.nodes
        made == IF cm.path = NoHash THEN {} ELSE {cm.path.leaf.key} \cup {nodes[i].key : i \in DOMAIN nodes}
    IN  IF x = c THEN Merge(d, l, keys[x] \cup made)
        ELSE IF x \notin joiners THEN Stage(x, cm)
        ELSE IF cm.path = NoHash THEN Join(x, ExportRatchetTree(d), l, None, 0)
        ELSE Join(x, ExportRatchetTree(d), l, c, SecretFor(x, d, l))

(* Everybody's state after the commit cm, given what each makes of it. *)
Process(c, l, cm, joiners, result) ==
    LET fine == {x \in DOMAIN result : result[x].ok}
    IN  /\ errors' = {<<x, result[x].reason>> : x \in DOMAIN result \ fine}
        /\ tree' = [x \in Clients |-> IF x \in fine THEN result[x].tree ELSE tree[x]]
        /\ keys' = [x \in Clients |-> IF x \in fine THEN result[x].keys ELSE keys[x]]
        /\ own' = [x \in Clients |->
                     IF x = c THEN l
                     ELSE IF x \in joiners THEN IF x \in fine THEN result[x].own ELSE None
                     ELSE IF own[x] \in cm.removes THEN None ELSE own[x]]
        /\ knows' = [x \in Clients |-> knows[x] \cup keys'[x]]
        /\ epoch' = epoch + 1

(* The commit cm of client c, whose diff is d, is made and processed. *)
Distribute(c, l, cm, d, joiners) ==
    /\ sealed' = IF cm.path = NoHash THEN sealed
                 ELSE [k \in DOMAIN sealed \cup {cm.path.nodes[i].key : i \in DOMAIN cm.path.nodes} |->
                         IF k \in DOMAIN sealed THEN sealed[k] ELSE cm.path.siblings[k[3]]]
    /\ Process(c, l, cm, joiners,
               [x \in Members \cup joiners \cup {c} |-> Outcome(x, c, l, cm, d, joiners)])

Orders(S) == {s \in [1..Cardinality(S) -> S] : ToSet(s) = S}

(* A member commits; CommitBuilder adds a path when a proposal requires it, *)
(* when there is none, or on request.                                       *)
Commit(c, updating, removed, order, force) ==
    LET cm0 == [sender |-> own[c],
                updates |-> {[at |-> own[u], leaf |-> FullLeaf(UpdateKey(u, epoch + 1), NoHash)] : u \in updating},
                removes |-> {own[r] : r \in removed},
                adds |-> [i \in DOMAIN order |-> FullLeaf(InitKey(order[i], epoch + 1), NoHash)],
                path |-> NoHash]
        d == ApplyProposals(EmptyDiff(tree[c]), cm0)
        withPath == force \/ updating \cup removed # {} \/ order = <<>>
        cp == ComputePath(d, c, own[c], FALSE, InvitationList(d, cm0))
    IN  /\ errors = {} /\ epoch < bounds.epochs
        /\ force => updating \cup removed = {} /\ order # <<>>
        /\ LeafCount(MaxTreeSize - 1) >= Cardinality(roster \ removed) + Len(order)
        /\ roster' = (roster \ removed) \cup ToSet(order)
        /\ Distribute(c, own[c], IF withPath THEN [cm0 EXCEPT !.path = cp.update] ELSE cm0,
                      IF withPath THEN cp.diff ELSE d, ToSet(order))

(* PublicGroup::leftmost_free_index *)
LeftmostFreeIndex(t, removes) == Min(removes \cup {FreeLeafIndex(EmptyDiff(t))})

(* A client joins with an external commit, from the tree t that a member    *)
(* has exported.  It may remove its own former leaf (resync) and commit         *)
(* SelfRemove proposals.                                                    *)
ExternalCommit(c, t, removed) ==
    LET cm0 == [sender |-> LeftmostFreeIndex(t, {own[r] : r \in removed}),
                updates |-> {}, removes |-> {own[r] : r \in removed}, adds |-> <<>>, path |-> NoHash]
        d == ApplyProposals(EmptyDiff(t), cm0)
        cp == ComputePath(d, c, cm0.sender, TRUE, {})
    IN  /\ errors = {} /\ epoch < bounds.epochs
        /\ c \in roster => c \in removed
        /\ LeafCount(MaxTreeSize - 1) >= Cardinality(roster \ removed) + 1
        /\ VerifyParentHashes(EmptyDiff(t), sealed)
        /\ roster' = (roster \ removed) \cup {c}
        /\ Distribute(c, cm0.sender, [cm0 EXCEPT !.path = cp.update], cp.diff, {})

Next ==
    \/ \E c \in Members \cap bounds.committers :
       \E removed \in SUBSET ((Members \cap bounds.movers) \ {c}) :
       \E updating \in SUBSET ((Members \cap bounds.movers) \ {c}) :
          /\ removed \cap updating = {} /\ Cardinality(removed \cup updating) <= bounds.proposals
          /\ \E added \in SUBSET (bounds.movers \ Members), force \in BOOLEAN :
                \E order \in Orders(added) : Commit(c, updating, removed, order, force)
    \/ \E c \in bounds.movers, m \in Members, removed \in SUBSET (Members \cap bounds.movers) :
          /\ Cardinality(removed) <= bounds.externalRemoves
          /\ ExternalCommit(c, ExportRatchetTree(EmptyDiff(tree[m])), removed)

Spec == Init /\ [][Next /\ UNCHANGED bounds]_vars

-----------------------------------------------------------------------------
(* The types; the trees have no more nodes than their rightmost full leaf   *)
(* needs (trim_tree).                                                       *)
TypeOK ==
    /\ bounds \in Scenarios /\ epoch \in 0..bounds.epochs
    /\ roster \subseteq Clients
    /\ \A c \in Clients : own[c] \in 0..(LeafCount(MaxTreeSize - 1) - 1) \cup {None}
    /\ \A c \in Members :
          LET size == TreeSizeOf(tree[c])
          IN  /\ DOMAIN tree[c] = 0..(Cardinality(DOMAIN tree[c]) - 1)
              /\ size = 1 \/ ~LeafIsLeft(size, RightmostFullLeaf(EmptyDiff(tree[c])))

(* Everybody can follow every commit: the secret is encrypted to a key each *)
(* member has, at the position where it looks for it, and the keys it       *)
(* derives are those of the tree (decrypt_path, derive_path_secrets).  Then *)
(* the tree holds the members that the proposals say are in the group, each *)
(* at the leaf it takes for its own, and all members hold the same tree,    *)
(* whether they followed every commit or joined later with a shorter vector *)
(* (apply_proposals, from_ratchet_tree, merge_diff).                        *)
EverybodyFollows ==
    /\ errors = {}
    /\ Members = roster
    /\ \A m \in Members :
         LET full == {v \in DOMAIN tree[m] : IsLeaf(v) /\ ~IsBlank(tree[m][v])}
         IN  {<<tree[m][v].key[1], LeafIndex(v)>> : v \in full} = {<<c, own[c]>> : c \in Members}
    /\ \A m, n \in Members : \A v \in DOMAIN tree[m] \cup DOMAIN tree[n] :
         Default(tree[m], v) = Default(tree[n], v)

(* The TreeKEM invariant: the private key of a parent node is known to the  *)
(* members below it that are not unmerged, and to no other client, present  *)
(* or past, and members keep exactly the private keys of their part of the  *)
(* tree (encrypt_path, blank_leaf, owned_encryption_keys, merge_commit).    *)
KeysBelow ==
    \A m \in Members :
        /\ keys[m] = OwnedEncryptionKeys(EmptyDiff(tree[m]), own[m])
        /\ \A v \in DOMAIN tree[m] :
             ~IsLeaf(v) /\ ~IsBlank(tree[m][v]) =>
                {c \in Clients : tree[m][v].key \in knows[c]}
                  = {c \in Members : /\ v \in ToSet(PathOf[TreeSizeOf(tree[m])][own[c]])
                                     /\ own[c] \notin tree[m][v].unmerged}

(* Every parent hash of a tree the members hold is valid, so that a joiner  *)
(* accepts it (the debug assertion of into_staged_diff).                    *)
ParentHashesValid == \A m \in Members : VerifyParentHashes(EmptyDiff(tree[m]), sealed)
=============================================================================
