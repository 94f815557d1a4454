--------------------------- MODULE MemoryStorage ---------------------------
(***************************************************************************)
(* memory_storage/src/lib.rs: one map from byte strings to byte strings.   *)
(* A key is a label followed by the JSON of what identifies the value.  It *)
(* is modelled as the sequence of these parts; the JSON of a number is the *)
(* sequence of its digits, with nothing between two numbers.               *)
(***************************************************************************)
EXTENDS StorageKinds, SequencesExt

VARIABLE values     \* MemoryStorage.values

Init == values = Empty
-----------------------------------------------------------------------------
(* Helpers *)

(* build_key_from_vec: the label keeps the kinds of values apart. *)
Key(label, key) == <<label>> \o key

Write(vs, label, key, v) == Put(vs, Key(label, key), v)

Delete(vs, label, key) == Drop(vs, {Key(label, key)})

ListAt(vs, k) == IF k \in DOMAIN vs THEN vs[k] ELSE <<>>

AppendTo(vs, label, key, v) == Put(vs, Key(label, key), Append(ListAt(vs, Key(label, key)), v))

(* Removes the first item only, and leaves an empty list. *)
RemoveItem(vs, label, key, v) ==
    LET list == ListAt(vs, Key(label, key))
        at == {i \in DOMAIN list : list[i] = v}
    IN  Put(vs, Key(label, key),
              IF at = {} THEN list ELSE RemoveAt(list, CHOOSE i \in at : \A j \in at : i <= j))

Has(label, key) == Key(label, key) \in DOMAIN values
Read(label, key) == values[Key(label, key)]
ReadList(label, key) == ListAt(values, Key(label, key))

Digits(n) == IF n < 10 THEN <<n>> ELSE <<n \div 10, n % 10>>

(* Mutant: the leaf index is left out. *)
EpochKeyPairsIdNoLeaf(g, e, l) == <<g>> \o Digits(e)

EpochKeyPairsId(g, e, l) == <<g>> \o Digits(e) \o Digits(l)
-----------------------------------------------------------------------------
(* Proposals *)

QueueProposal(g, r) ==
    values' = AppendTo(Write(values, "QueuedProposal", <<g, r>>, r), "ProposalQueueRefs", <<g>>, r)

(* queued_proposal_refs *)
InQueue(g, r) == r \in ToSet(ReadList("ProposalQueueRefs", <<g>>))

(* Every reference is resolved; an Option is unwrapped on the way. *)
QueuedProposals(g) == {r \in ProposalRefs : InQueue(g, r) /\ Has("QueuedProposal", <<g, r>>)}

(* The queue is emptied.  The keys of the proposals lack label and version, *)
(* so that no proposal is deleted.                                          *)
ClearProposalQueue(g) ==
    LET refs == ToSet(ReadList("ProposalQueueRefs", <<g>>))
    IN  values' = Drop(values, {<<g, r>> : r \in refs} \cup {Key("ProposalQueueRefs", <<g>>)})

(* Mutant: the reference stays in the queue. *)
RemoveProposalKeepsRef(g, r) == values' = Delete(values, "QueuedProposal", <<g, r>>)

RemoveProposal(g, r) ==
    values' = Delete(RemoveItem(values, "ProposalQueueRefs", <<g>>, r), "QueuedProposal", <<g, r>>)
-----------------------------------------------------------------------------
(* Data of a group *)

WritePublicGroup(g, k, v) == k \in PublicGroupKinds /\ values' = Write(values, k, <<g>>, v)
DeletePublicGroup(g, k) ==
    k \in PublicGroupKinds \cup {"joinConfig"} /\ values' = Delete(values, k, <<g>>)

WriteMemberData(g, k, v) == k \in MemberKinds /\ values' = Write(values, k, <<g>>, v)
DeleteMemberData(g, k) == k \in MemberKinds /\ values' = Delete(values, k, <<g>>)

WriteJoinConfig(g, k, v) == k = "joinConfig" /\ values' = Write(values, k, <<g>>, v)

WriteExportTree(g, k, v) == k = "applicationExportTree" /\ values' = Write(values, k, <<g>>, v)
DeleteExportTree(g, k) == k = "applicationExportTree" /\ values' = Delete(values, k, <<g>>)

WriteVcGroupData(g, k, v) == k \in VcGroupKinds /\ values' = Write(values, k, <<g>>, v)
DeleteVcGroupData(g, k) == k \in VcGroupKinds /\ values' = Delete(values, k, <<g>>)

WriteGroupData(g, k, v) ==
    \/ WritePublicGroup(g, k, v) \/ WriteMemberData(g, k, v) \/ WriteJoinConfig(g, k, v)
    \/ WriteExportTree(g, k, v) \/ WriteVcGroupData(g, k, v)

DeleteGroupData(g, k) ==
    \/ DeletePublicGroup(g, k) \/ DeleteMemberData(g, k)
    \/ DeleteExportTree(g, k) \/ DeleteVcGroupData(g, k)

AppendOwnLeafNode(g, v) == values' = AppendTo(values, "OwnLeafNodes", <<g>>, v)
OwnLeafNodes(g) == ReadList("OwnLeafNodes", <<g>>)
DeleteOwnLeafNodes(g) == values' = Delete(values, "OwnLeafNodes", <<g>>)

WriteEpochKeyPairs(g, e, l, v) ==
    values' = Write(values, "EpochKeyPairs", EpochKeyPairsId(g, e, l), v)
HasEpochKeyPairs(g, e, l) == Has("EpochKeyPairs", EpochKeyPairsId(g, e, l))
DeleteEpochKeyPairs(g, e, l) ==
    values' = Delete(values, "EpochKeyPairs", EpochKeyPairsId(g, e, l))
-----------------------------------------------------------------------------
(* Keys and key packages *)

WriteSignatureKeyPair(k, i, v) == k = "signatureKeyPair" /\ values' = Write(values, k, <<i>>, v)
WriteKeys(k, i, v) == k \in EntityKinds \ {"signatureKeyPair"} /\ values' = Write(values, k, <<i>>, v)
WriteEntity(k, i, v) == WriteSignatureKeyPair(k, i, v) \/ WriteKeys(k, i, v)

RetainedDropped(vs, i) ==
    Delete(Delete(vs, "RetainedKeyPackageMaterial", <<i>>), "RetainedKeyPackageEpoch", <<i>>)

DeleteEntity(k, i) ==
    values' = Delete(IF k = "keyPackage" THEN RetainedDropped(values, i) ELSE values, k, <<i>>)
-----------------------------------------------------------------------------
(* Virtual clients *)

WriteVcEpochState(k, x, v) == k = "emulationEpochState" /\ values' = Write(values, k, <<x>>, v)
WriteVcOperationTree(k, x, v) == k = "operationTree" /\ values' = Write(values, k, <<x>>, v)
WriteVcEpochData(k, x, v) == WriteVcEpochState(k, x, v) \/ WriteVcOperationTree(k, x, v)

IsEpochTag(key) == key[1] = "RetainedKeyPackageEpoch"
Referenced(x) == \E key \in DOMAIN values : IsEpochTag(key) /\ values[key] = x

(* Under one write lock. *)
DeleteVcStateIfUnreferenced(x) ==
    values' = IF Referenced(x) THEN values
              ELSE Delete(Delete(values, "emulationEpochState", <<x>>), "operationTree", <<x>>)

(* Under one write lock: the tree, and a record and an epoch tag for every *)
(* reference.                                                              *)
WriteRetainedBatch(x, v, refs) ==
    LET tags == {Key("RetainedKeyPackageEpoch", <<i>>) : i \in refs}
        records == {Key("RetainedKeyPackageMaterial", <<i>>) : i \in refs}
        base == Write(values, "operationTree", <<x>>, v)
    IN  values' = [k \in DOMAIN base \cup tags \cup records |->
                     IF k \in tags THEN x ELSE IF k \in records THEN v ELSE base[k]]

DeleteRetained(i) == values' = RetainedDropped(values, i)
-----------------------------------------------------------------------------
(* What the getters return. *)

GroupDataReads ==
    [gk \in {gk \in Groups \X GroupKinds : Has(gk[2], <<gk[1]>>)} |-> Read(gk[2], <<gk[1]>>)]
EntityReads ==
    [ki \in {ki \in EntityKinds \X Ids : Has(ki[1], <<ki[2]>>)} |-> Read(ki[1], <<ki[2]>>)]
VcEpochReads ==
    [kx \in {kx \in VcEpochKinds \X VcEpochs : Has(kx[1], <<kx[2]>>)} |-> Read(kx[1], <<kx[2]>>)]
RetainedReads ==
    [i \in {i \in Ids : Has("RetainedKeyPackageMaterial", <<i>>)} |->
        Read("RetainedKeyPackageEpoch", <<i>>)]
EpochKeyReads ==
    [k \in {k \in Groups \X Epochs \X Leaves : HasEpochKeyPairs(k[1], k[2], k[3])} |->
        Read("EpochKeyPairs", EpochKeyPairsId(k[1], k[2], k[3]))]

Stored ==
    [groupData |-> GroupDataReads,
     leafNodes |-> [g \in Groups |-> OwnLeafNodes(g)],
     proposals |-> UNION {{g} \X QueuedProposals(g) : g \in Groups},
     entities |-> EntityReads,
     epochKeys |-> EpochKeyReads,
     vcEpochData |-> VcEpochReads,
     retained |-> RetainedReads]
=============================================================================
