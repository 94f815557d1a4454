----------------------------- MODULE SecretTree -----------------------------
(***************************************************************************)
(* The secret tree of an epoch (tree/secret_tree.rs): the encryption       *)
(* secret at the root, from which the ratchets of each leaf are derived    *)
(* when they are first asked for.  A secret is modelled by the turns that  *)
(* lead to it from the root; the ratchets themselves are SenderRatchet.    *)
(***************************************************************************)
EXTENDS TreeMath

CONSTANTS
    Leaves,     \* size.leaf_count()
    OwnIndex,   \* own_index
    Indexes     \* leaf indexes asked for, some of them outside the tree

VARIABLES
    nodes,     \* leaf_nodes and parent_nodes: the secrets present, by tree index
    ratchets   \* handshake and application ratchets, by leaf (always set together)

treeVars == <<nodes, ratchets>>

Size == 2 * Leaves - 1

(* SecretTree::new: only the root has a secret. *)
Init ==
    /\ nodes = [v \in {root(Size)} |-> <<>>]
    /\ ratchets = [l \in {} |-> <<>>]

(* Mutant of DeriveDown: the parent keeps its secret. *)
DeriveDownKeeping(secrets, v) ==
    [w \in DOMAIN secrets \cup {left(v), right(v)} |->
        CASE w = left(v)  -> Append(secrets[v], "left")
          [] w = right(v) -> Append(secrets[v], "right")
          [] OTHER        -> secrets[w]]

(* derive_down and derive_child_secrets: both children get their secrets    *)
(* and the parent loses its own.                                            *)
DeriveDown(secrets, v) ==
    [w \in (DOMAIN secrets \ {v}) \cup {left(v), right(v)} |->
        CASE w = left(v)  -> Append(secrets[v], "left")
          [] w = right(v) -> Append(secrets[v], "right")
          [] OTHER        -> secrets[w]]

(* The parents of leaf l up to the first that has a secret, from the top. *)
EmptyNodes(l) ==
    LET path  == direct_path(l, Size)
        found == {i \in 1..Len(path) : path[i] \in DOMAIN nodes}
        last  == IF found = {} THEN Len(path) ELSE CHOOSE i \in found : \A j \in found : i <= j
    IN  Reverse(SubSeq(path, 1, last))

Derived(l) ==
    IF LeafNode(l) \in DOMAIN nodes THEN nodes ELSE FoldLeft(DeriveDown, nodes, EmptyNodes(l))

RatchetType(l) == IF l = OwnIndex THEN "EncryptionRatchet" ELSE "DecryptionRatchet"

(* initialize_sender_ratchets: the leaf loses the secret its two ratchets   *)
(* start from.                                                              *)
InitializeSenderRatchets(l) ==
    LET secrets == Derived(l) IN
    /\ nodes' = [w \in DOMAIN secrets \ {LeafNode(l)} |-> secrets[w]]
    /\ ratchets' = [k \in DOMAIN ratchets \cup {l} |->
                      IF k = l THEN [type |-> RatchetType(l), secret |-> secrets[LeafNode(l)]]
                      ELSE ratchets[k]]

(* secret_for_decryption and secret_for_encryption: the ratchets are made   *)
(* on the first call, even if the call then fails with RatchetTypeError     *)
(* because they are of the other kind; an index outside is refused.         *)
SecretFor(l) ==
    /\ l < Leaves
    /\ l \notin DOMAIN ratchets
    /\ InitializeSenderRatchets(l)

Next == \E l \in Indexes : SecretFor(l)
-----------------------------------------------------------------------------
Turns(l) ==
    LET path == Reverse(<<LeafNode(l)>> \o direct_path(l, Size))
    IN  [i \in 1..Len(path) - 1 |-> IF path[i + 1] = left(path[i]) THEN "left" ELSE "right"]

(* In whatever order the leaves are asked for, the ratchets of a leaf start *)
(* from the secret at its place in the tree, so that sender and receiver    *)
(* have the same; what they were derived from is gone, and what the other   *)
(* leaves need is still there.                                              *)
TreeSecretsOnce ==
    \A l \in 0..Leaves - 1 :
      LET sources == {v \in DOMAIN nodes : v \in {LeafNode(l)} \cup ToSet(direct_path(l, Size))} IN
      IF l \in DOMAIN ratchets
      THEN ratchets[l].secret = Turns(l) /\ sources = {}
      ELSE \E v \in DOMAIN nodes : sources = {v}
=============================================================================
