--------------------------- MODULE SqliteStorage ---------------------------
(***************************************************************************)
(* sqlite_storage/src: the provider on a SQLite connection.  `db` holds    *)
(* the tables; a table with a primary key is a function of it.  First the  *)
(* statements, as functions of the tables, then the methods that execute   *)
(* them.  The provider opens no transaction; a call is one step because    *)
(* the application calls it within one.                                    *)
(***************************************************************************)
EXTENDS StorageKinds, SequencesExt

VARIABLE db

Init ==
    db = [group_data |-> Empty, own_leaf_nodes |-> <<>>, proposals |-> {}, keys |-> Empty,
          epoch_keys_pairs |-> Empty, vc_epochs |-> Empty, retained |-> Empty]
-----------------------------------------------------------------------------
(* Statements *)

(* INSERT OR REPLACE INTO openmls_group_data *)
StoreGroupDataRow(d, g, k, v) == [d EXCEPT !.group_data = Put(@, <<g, k>>, v)]
DeleteGroupDataRow(d, g, k) == [d EXCEPT !.group_data = Drop(@, {<<g, k>>})]
LoadGroupData(d, g, k) == d.group_data[<<g, k>>]

(* openmls_vc_emulation_bindings and openmls_registered_vc_emulation_epoch, *)
(* with the group as primary key.                                           *)
StoreBindings(d, g, v) == [d EXCEPT !.group_data = Put(@, <<g, "vcEmulationBindings">>, v)]
DeleteBindings(d, g) == [d EXCEPT !.group_data = Drop(@, {<<g, "vcEmulationBindings">>})]
StoreRegistered(d, g, v) == [d EXCEPT !.group_data = Put(@, <<g, "registeredVcEmulationEpoch">>, v)]
DeleteRegistered(d, g) == [d EXCEPT !.group_data = Drop(@, {<<g, "registeredVcEmulationEpoch">>})]

(* The rows have an AUTOINCREMENT id; they are read in its order. *)
StoreLeafNode(d, g, v) == [d EXCEPT !.own_leaf_nodes = Append(@, [group_id |-> g, leaf_node |-> v])]
LoadLeafNodes(d, g) ==
    LET rows == SelectSeq(d.own_leaf_nodes, LAMBDA row : row.group_id = g)
    IN  [i \in DOMAIN rows |-> rows[i].leaf_node]

(* Mutant: the rows of all groups. *)
DeleteAllLeafNodes(d, g) == [d EXCEPT !.own_leaf_nodes = <<>>]

DeleteLeafNodes(d, g) == [d EXCEPT !.own_leaf_nodes = SelectSeq(@, LAMBDA row : row.group_id # g)]

(* INSERT OR IGNORE: a reference is queued once. *)
StoreProposal(d, g, r) == [d EXCEPT !.proposals = @ \cup {<<g, r>>}]
LoadProposals(d, g) == {p \in d.proposals : p[1] = g}
DeleteAllProposals(d, g) == [d EXCEPT !.proposals = @ \ LoadProposals(d, g)]
DeleteProposal(d, g, r) == [d EXCEPT !.proposals = @ \ {<<g, r>>}]

(* PRIMARY KEY (group_id, epoch_id, leaf_index) *)
StoreEpochKeyPairs(d, g, e, l, v) == [d EXCEPT !.epoch_keys_pairs = Put(@, <<g, e, l>>, v)]
LoadEpochKeyPairs(d) == d.epoch_keys_pairs
RemoveEpochKeyPairs(d, g, e, l) == [d EXCEPT !.epoch_keys_pairs = Drop(@, {<<g, e, l>>})]

(* One table for each kind of key. *)
StoreSignatureKeyPair(d, i, v) == [d EXCEPT !.keys = Put(@, <<"signatureKeyPair", i>>, v)]
DropSignatureKeyPair(d, i) == [d EXCEPT !.keys = Drop(@, {<<"signatureKeyPair", i>>})]
StoreEncryptionKeyPair(d, i, v) == [d EXCEPT !.keys = Put(@, <<"encryptionKeyPair", i>>, v)]
DropEncryptionKeyPair(d, i) == [d EXCEPT !.keys = Drop(@, {<<"encryptionKeyPair", i>>})]
StoreKeyPackage(d, i, v) == [d EXCEPT !.keys = Put(@, <<"keyPackage", i>>, v)]
DropKeyPackage(d, i) == [d EXCEPT !.keys = Drop(@, {<<"keyPackage", i>>})]
StorePsk(d, i, v) == [d EXCEPT !.keys = Put(@, <<"psk", i>>, v)]
DropPsk(d, i) == [d EXCEPT !.keys = Drop(@, {<<"psk", i>>})]

(* openmls_vc_secrets and the retained material of key packages *)
StoreEpochState(d, x, v) == [d EXCEPT !.vc_epochs = Put(@, <<"emulationEpochState", x>>, v)]
DeleteEpochState(d, x) == [d EXCEPT !.vc_epochs = Drop(@, {<<"emulationEpochState", x>>})]
StoreOperationTree(d, x, v) == [d EXCEPT !.vc_epochs = Put(@, <<"operationTree", x>>, v)]
DeleteOperationTree(d, x) == [d EXCEPT !.vc_epochs = Drop(@, {<<"operationTree", x>>})]
HasRetainedForEpoch(d, x) == \E i \in DOMAIN d.retained : d.retained[i] = x

(* ON CONFLICT(key_package_ref) DO UPDATE: the epoch is updated as well. *)
StoreRetained(d, x, refs) ==
    [d EXCEPT !.retained = [i \in DOMAIN @ \cup refs |-> IF i \in refs THEN x ELSE @[i]]]
DropRetained(d, i) == [d EXCEPT !.retained = Drop(@, {i})]
-----------------------------------------------------------------------------
(* Methods *)

StateKinds == MemberKinds \cup PublicGroupKinds \cup {"joinConfig"}

WriteGroupState(g, k, v) == k \in StateKinds /\ db' = StoreGroupDataRow(db, g, k, v)
DeleteGroupState(g, k) == k \in StateKinds /\ db' = DeleteGroupDataRow(db, g, k)

WriteExportTree(g, k, v) == k = "applicationExportTree" /\ db' = StoreGroupDataRow(db, g, k, v)
DeleteExportTree(g, k) == k = "applicationExportTree" /\ db' = DeleteGroupDataRow(db, g, k)

WriteVcBindings(g, k, v) == k = "vcEmulationBindings" /\ db' = StoreBindings(db, g, v)
DeleteVcBindings(g, k) == k = "vcEmulationBindings" /\ db' = DeleteBindings(db, g)
WriteVcRegistered(g, k, v) == k = "registeredVcEmulationEpoch" /\ db' = StoreRegistered(db, g, v)
DeleteVcRegistered(g, k) == k = "registeredVcEmulationEpoch" /\ db' = DeleteRegistered(db, g)

WriteGroupData(g, k, v) ==
    \/ WriteGroupState(g, k, v) \/ WriteExportTree(g, k, v)
    \/ WriteVcBindings(g, k, v) \/ WriteVcRegistered(g, k, v)
DeleteGroupData(g, k) ==
    \/ DeleteGroupState(g, k) \/ DeleteExportTree(g, k)
    \/ DeleteVcBindings(g, k) \/ DeleteVcRegistered(g, k)

AppendOwnLeafNode(g, v) == db' = StoreLeafNode(db, g, v)
DeleteOwnLeafNodes(g) == db' = DeleteLeafNodes(db, g)

QueueProposal(g, r) == db' = StoreProposal(db, g, r)
ClearProposalQueue(g) == db' = DeleteAllProposals(db, g)
RemoveProposal(g, r) == db' = DeleteProposal(db, g, r)

WriteEpochKeyPairs(g, e, l, v) == db' = StoreEpochKeyPairs(db, g, e, l, v)
DeleteEpochKeyPairs(g, e, l) == db' = RemoveEpochKeyPairs(db, g, e, l)

WriteEntity(k, i, v) ==
    \/ k = "signatureKeyPair" /\ db' = StoreSignatureKeyPair(db, i, v)
    \/ k = "encryptionKeyPair" /\ db' = StoreEncryptionKeyPair(db, i, v)
    \/ k = "keyPackage" /\ db' = StoreKeyPackage(db, i, v)
    \/ k = "psk" /\ db' = StorePsk(db, i, v)

(* delete_key_package drops the retained material first. *)
DeleteEntity(k, i) ==
    \/ k = "signatureKeyPair" /\ db' = DropSignatureKeyPair(db, i)
    \/ k = "encryptionKeyPair" /\ db' = DropEncryptionKeyPair(db, i)
    \/ k = "keyPackage" /\ db' = DropKeyPackage(DropRetained(db, i), i)
    \/ k = "psk" /\ db' = DropPsk(db, i)

WriteVcEpochData(k, x, v) ==
    \/ k = "emulationEpochState" /\ db' = StoreEpochState(db, x, v)
    \/ k = "operationTree" /\ db' = StoreOperationTree(db, x, v)

DeleteVcStateIfUnreferenced(x) ==
    db' = IF HasRetainedForEpoch(db, x) THEN db ELSE DeleteOperationTree(DeleteEpochState(db, x), x)

WriteRetainedBatch(x, v, refs) == db' = StoreRetained(StoreOperationTree(db, x, v), x, refs)

DeleteRetained(i) == db' = DropRetained(db, i)

(* What the getters return. *)
GroupDataReads == [gk \in DOMAIN db.group_data |-> LoadGroupData(db, gk[1], gk[2])]
QueuedProposals == UNION {LoadProposals(db, g) : g \in Groups}
KeyReads == db.keys

Stored ==
    [groupData |-> GroupDataReads, leafNodes |-> [g \in Groups |-> LoadLeafNodes(db, g)],
     proposals |-> QueuedProposals, entities |-> KeyReads, epochKeys |-> LoadEpochKeyPairs(db),
     vcEpochData |-> db.vc_epochs, retained |-> db.retained]
=============================================================================
