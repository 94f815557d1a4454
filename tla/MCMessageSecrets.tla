-------------------------- MODULE MCMessageSecrets --------------------------
(***************************************************************************)
(* The structures that delete the secrets of an epoch as they are used,    *)
(* checked in one run: sender ratchets, past epochs, the secret tree, the  *)
(* exporter tree and the dual-use ratchet.  They share no state, so a      *)
(* behaviour moves one of them only.                                       *)
(***************************************************************************)
EXTENDS SenderRatchet, PastSecrets, DualUseRatchet

CONSTANTS
    Leaves, OwnIndex, Indexes,       \* of SecretTree
    MaxDepth                         \* of Pprf

VARIABLES
    nodes, ratchets,
    pprf, exported,
    part   \* the structure that moves

Tree     == INSTANCE SecretTree
Exporter == INSTANCE Pprf

treeVars == <<nodes, ratchets>>
pprfVars == <<pprf, exported>>
allVars  == <<vars, pastVars, treeVars, pprfVars, dualVars, part>>

MCInit ==
    /\ Init /\ Tree!Init /\ Exporter!PprfInit /\ DualInit
    /\ \/ part = "past" /\ PastInit
       \/ /\ part \in {"ratchet", "tree", "exporter", "dual"}
          /\ max_epochs = 0 /\ past_epoch_trees = <<>> /\ shrunk = FALSE
          /\ current = [epoch |-> 0, added_at |-> Absent]

MCNext ==
    /\ \/ part = "ratchet" /\ Next /\ UNCHANGED <<pastVars, treeVars, pprfVars, dualVars>>
       \/ part = "past" /\ PastNext /\ UNCHANGED <<vars, treeVars, pprfVars, dualVars>>
       \/ part = "tree" /\ Tree!Next /\ UNCHANGED <<vars, pastVars, pprfVars, dualVars>>
       \/ part = "exporter" /\ Exporter!PprfNext /\ UNCHANGED <<vars, pastVars, treeVars, dualVars>>
       \/ part = "dual" /\ DualNext /\ UNCHANGED <<vars, pastVars, treeVars, pprfVars>>
    /\ UNCHANGED part

MCSpec == MCInit /\ [][MCNext]_allVars
-----------------------------------------------------------------------------
(* Every secret is derived once: a leaf's ratchets start from its own secret *)
(* of the tree and a component exports its own secret, which is then gone    *)
(* while those of the others are not (secret_tree.rs, pprf/mod.rs).          *)
DerivedOnce == Tree!TreeSecretsOnce /\ Exporter!ExportedOnce
=============================================================================
