---------------------------- MODULE SqlxStorage ----------------------------
(***************************************************************************)
(* sqlx_storage/src: the provider on an sqlx connection to SQLite.  `sqlx` *)
(* holds the tables.  It has no method for virtual clients.  A call        *)
(* borrows the connection and waits for its one statement.  First the      *)
(* statements, as functions of the tables, then the methods.               *)
(***************************************************************************)
EXTENDS StorageKinds

VARIABLE sqlx

Init ==
    sqlx = [group_data |-> Empty, own_leaf_node |-> Empty, proposal |-> {}, keys |-> Empty,
            epoch_key_pairs |-> Empty]
-----------------------------------------------------------------------------
(* Statements *)

StoreGroupDataRow(d, g, k, v) == [d EXCEPT !.group_data = Put(@, <<g, k>>, v)]
LoadGroupData(d, g, k) == d.group_data[<<g, k>>]

(* openmls_own_leaf_node has the group as primary key and the statement is *)
(* INSERT OR REPLACE: a leaf node takes the place of the one before it.    *)
StoreLeafNode(d, g, v) == [d EXCEPT !.own_leaf_node = Put(@, g, v)]
LoadLeafNodes(d, g) == IF g \in DOMAIN d.own_leaf_node THEN <<d.own_leaf_node[g]>> ELSE <<>>

(* INSERT OR REPLACE: a reference is queued once. *)
StoreProposal(d, g, r) == [d EXCEPT !.proposal = @ \cup {<<g, r>>}]
LoadProposals(d, g) == {p \in d.proposal : p[1] = g}

StoreEpochKeyPairs(d, g, e, l, v) == [d EXCEPT !.epoch_key_pairs = Put(@, <<g, e, l>>, v)]
LoadEpochKeyPairs(d) == d.epoch_key_pairs

(* One table for each kind of key. *)
StoreSignatureKeyPair(d, i, v) == [d EXCEPT !.keys = Put(@, <<"signatureKeyPair", i>>, v)]
StoreEncryptionKeyPair(d, i, v) == [d EXCEPT !.keys = Put(@, <<"encryptionKeyPair", i>>, v)]
StoreKeyPackage(d, i, v) == [d EXCEPT !.keys = Put(@, <<"keyPackage", i>>, v)]
StorePsk(d, i, v) == [d EXCEPT !.keys = Put(@, <<"psk", i>>, v)]

(* delete_proposal, delete_leaf_nodes, delete_group_data and               *)
(* delete_epoch_key_pair match the group and the rest of the key.          *)
DeleteRow(d, table, key) == [d EXCEPT ![table] = Drop(@, {key})]

(* Mutant: the group is left out of the condition. *)
DeleteProposalOfAll(d, g, r) == [d EXCEPT !.proposal = {p \in @ : p[2] # r}]

DeleteProposal(d, g, r) == [d EXCEPT !.proposal = @ \ {<<g, r>>}]
DropKey(d, k, i) == [d EXCEPT !.keys = Drop(@, {<<k, i>>})]
-----------------------------------------------------------------------------
(* Methods *)

WriteGroupData(g, k, v) == sqlx' = StoreGroupDataRow(sqlx, g, k, v)
DeleteGroupData(g, k) == sqlx' = DeleteRow(sqlx, "group_data", <<g, k>>)

AppendOwnLeafNode(g, v) == sqlx' = StoreLeafNode(sqlx, g, v)
DeleteOwnLeafNodes(g) == sqlx' = DeleteRow(sqlx, "own_leaf_node", g)

QueueProposal(g, r) == sqlx' = StoreProposal(sqlx, g, r)
ClearProposalQueue(g) == sqlx' = [sqlx EXCEPT !.proposal = @ \ LoadProposals(sqlx, g)]
RemoveProposal(g, r) == sqlx' = DeleteProposal(sqlx, g, r)

WriteEpochKeyPairs(g, e, l, v) == sqlx' = StoreEpochKeyPairs(sqlx, g, e, l, v)
DeleteEpochKeyPairs(g, e, l) == sqlx' = DeleteRow(sqlx, "epoch_key_pairs", <<g, e, l>>)

WriteEntity(k, i, v) ==
    \/ k = "signatureKeyPair" /\ sqlx' = StoreSignatureKeyPair(sqlx, i, v)
    \/ k = "encryptionKeyPair" /\ sqlx' = StoreEncryptionKeyPair(sqlx, i, v)
    \/ k = "keyPackage" /\ sqlx' = StoreKeyPackage(sqlx, i, v)
    \/ k = "psk" /\ sqlx' = StorePsk(sqlx, i, v)

(* A key package is deleted alone. *)
DeleteEntity(k, i) == sqlx' = DropKey(sqlx, k, i)

(* What the getters return. *)
GroupDataReads == [gk \in DOMAIN sqlx.group_data |-> LoadGroupData(sqlx, gk[1], gk[2])]
KeyReads == sqlx.keys

Stored ==
    [groupData |-> GroupDataReads, leafNodes |-> [g \in Groups |-> LoadLeafNodes(sqlx, g)],
     proposals |-> UNION {LoadProposals(sqlx, g) : g \in Groups},
     entities |-> KeyReads, epochKeys |-> LoadEpochKeyPairs(sqlx)]
=============================================================================
