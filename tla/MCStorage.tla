----------------------------- MODULE MCStorage -----------------------------
EXTENDS StorageProviders, TLC

(* Families that share a list or delete each other's values go together. *)
Related == {{"group"}, {"leafNodes", "queue"}, {"epochKeys"}, {"keys", "vc"}}

Symmetric ==
    Permutations(Groups) \cup Permutations(Ids) \cup Permutations(ProposalRefs)
        \cup Permutations(VcEpochs) \cup Permutations(Values)
=============================================================================
