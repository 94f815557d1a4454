-------------------------- MODULE StorageContract --------------------------
(***************************************************************************)
(* What openmls_traits::storage::StorageProvider asks of a provider.       *)
(* `stored` is what the getters return: a value per group and kind, the    *)
(* own leaf nodes of a group in the order they were appended, the queued   *)
(* proposals, the keys and key packages by their references, the epoch key *)
(* pairs of a group, epoch and leaf, and the material of virtual clients.  *)
(* Every method is one step.                                               *)
(***************************************************************************)
EXTENDS StorageKinds

VARIABLE stored

Init ==
    stored = [groupData |-> Empty, leafNodes |-> [g \in Groups |-> <<>>], proposals |-> {},
              entities |-> Empty, epochKeys |-> Empty, vcEpochData |-> Empty, retained |-> Empty]

(* The writers, getters and deleters of group data. *)
WriteGroupData(g, k, v) == stored' = [stored EXCEPT !.groupData = Put(@, <<g, k>>, v)]
DeleteGroupData(g, k) == stored' = [stored EXCEPT !.groupData = Drop(@, {<<g, k>>})]

AppendOwnLeafNode(g, v) == stored' = [stored EXCEPT !.leafNodes[g] = Append(@, v)]
DeleteOwnLeafNodes(g) == stored' = [stored EXCEPT !.leafNodes[g] = <<>>]

QueueProposal(g, r) == stored' = [stored EXCEPT !.proposals = @ \cup {<<g, r>>}]
RemoveProposal(g, r) == stored' = [stored EXCEPT !.proposals = @ \ {<<g, r>>}]
ClearProposalQueue(g) == stored' = [stored EXCEPT !.proposals = {p \in @ : p[1] # g}]

WriteEpochKeyPairs(g, e, l, v) == stored' = [stored EXCEPT !.epochKeys = Put(@, <<g, e, l>>, v)]
DeleteEpochKeyPairs(g, e, l) == stored' = [stored EXCEPT !.epochKeys = Drop(@, {<<g, e, l>>})]

WriteEntity(k, i, v) == stored' = [stored EXCEPT !.entities = Put(@, <<k, i>>, v)]

(* A key package takes its retained material with it. *)
DeleteEntity(k, i) ==
    stored' = [stored EXCEPT !.entities = Drop(@, {<<k, i>>}),
                             !.retained = IF k = "keyPackage" THEN Drop(@, {i}) ELSE @]

(* Virtual clients: the state and the operation tree of an emulation epoch *)
(* stay as long as the material of a key package refers to the epoch.      *)
WriteVcEpochData(k, x, v) == stored' = [stored EXCEPT !.vcEpochData = Put(@, <<k, x>>, v)]

DeleteVcStateIfUnreferenced(x) ==
    stored' = IF \E i \in DOMAIN stored.retained : stored.retained[i] = x THEN stored
              ELSE [stored EXCEPT !.vcEpochData = Drop(@, VcEpochKinds \X {x})]

WriteRetainedBatch(x, v, refs) ==
    stored' = [stored EXCEPT
        !.vcEpochData = Put(@, <<"operationTree", x>>, v),
        !.retained = [i \in DOMAIN @ \cup refs |-> IF i \in refs THEN x ELSE @[i]]]

DeleteRetained(i) == stored' = [stored EXCEPT !.retained = Drop(@, {i})]
=============================================================================
