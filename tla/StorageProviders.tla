-------------------------- MODULE StorageProviders --------------------------
(***************************************************************************)
(* The three storage providers of the workspace behind one application:    *)
(* every call of the StorageProvider trait is made on each of them, so     *)
(* that their answers can be compared with each other and with the         *)
(* contract of the trait.                                                  *)
(***************************************************************************)
EXTENDS StorageKinds

CONSTANTS
    MaxCalls,   \* bound: the calls in a behaviour
    Scopes      \* bound: the families of methods a behaviour calls

VARIABLES
    stored,     \* what the contract says the getters return
    values, db, sqlx,
    requeued,   \* history: proposals queued while they were in the queue, which is not cleared since
    calls,
    scope       \* in Scopes, chosen at the start

C == INSTANCE StorageContract
M == INSTANCE MemoryStorage
Q == INSTANCE SqliteStorage
X == INSTANCE SqlxStorage

vars == <<stored, values, db, sqlx, requeued, calls, scope>>

Init == C!Init /\ M!Init /\ Q!Init /\ X!Init /\ requeued = {} /\ calls = 0 /\ scope \in Scopes

Call(family) ==
    /\ family \in scope /\ UNCHANGED scope
    /\ calls < MaxCalls /\ calls' = calls + 1
    /\ family # "queue" => UNCHANGED requeued
-----------------------------------------------------------------------------
WriteGroupData(g, k, v) ==
    /\ Call("group")
    /\ C!WriteGroupData(g, k, v) /\ M!WriteGroupData(g, k, v)
    /\ Q!WriteGroupData(g, k, v)
    /\ IF k \in VcGroupKinds THEN UNCHANGED sqlx ELSE X!WriteGroupData(g, k, v)

DeleteGroupData(g, k) ==
    /\ Call("group")
    /\ C!DeleteGroupData(g, k) /\ M!DeleteGroupData(g, k) /\ Q!DeleteGroupData(g, k)
    /\ IF k \in VcGroupKinds THEN UNCHANGED sqlx ELSE X!DeleteGroupData(g, k)

AppendOwnLeafNode(g, v) ==
    /\ Call("leafNodes")
    /\ C!AppendOwnLeafNode(g, v) /\ M!AppendOwnLeafNode(g, v)
    /\ Q!AppendOwnLeafNode(g, v) /\ X!AppendOwnLeafNode(g, v)

DeleteOwnLeafNodes(g) ==
    /\ Call("leafNodes")
    /\ C!DeleteOwnLeafNodes(g) /\ M!DeleteOwnLeafNodes(g) /\ Q!DeleteOwnLeafNodes(g) /\ X!DeleteOwnLeafNodes(g)

QueueProposal(g, r) ==
    /\ Call("queue")
    /\ requeued' = requeued \cup ({<<g, r>>} \cap stored.proposals)
    /\ C!QueueProposal(g, r) /\ M!QueueProposal(g, r) /\ Q!QueueProposal(g, r) /\ X!QueueProposal(g, r)

RemoveProposal(g, r) ==
    /\ Call("queue") /\ UNCHANGED requeued
    /\ C!RemoveProposal(g, r) /\ M!RemoveProposal(g, r) /\ Q!RemoveProposal(g, r) /\ X!RemoveProposal(g, r)

ClearProposalQueue(g) ==
    /\ Call("queue") /\ requeued' = {p \in requeued : p[1] # g}
    /\ C!ClearProposalQueue(g) /\ M!ClearProposalQueue(g) /\ Q!ClearProposalQueue(g) /\ X!ClearProposalQueue(g)

WriteEpochKeyPairs(g, e, l, v) ==
    /\ Call("epochKeys")
    /\ C!WriteEpochKeyPairs(g, e, l, v) /\ M!WriteEpochKeyPairs(g, e, l, v)
    /\ Q!WriteEpochKeyPairs(g, e, l, v) /\ X!WriteEpochKeyPairs(g, e, l, v)

DeleteEpochKeyPairs(g, e, l) ==
    /\ Call("epochKeys")
    /\ C!DeleteEpochKeyPairs(g, e, l) /\ M!DeleteEpochKeyPairs(g, e, l)
    /\ Q!DeleteEpochKeyPairs(g, e, l) /\ X!DeleteEpochKeyPairs(g, e, l)

WriteEntity(k, i, v) ==
    /\ Call("keys")
    /\ C!WriteEntity(k, i, v) /\ M!WriteEntity(k, i, v) /\ Q!WriteEntity(k, i, v) /\ X!WriteEntity(k, i, v)

DeleteEntity(k, i) ==
    /\ Call("keys")
    /\ C!DeleteEntity(k, i) /\ M!DeleteEntity(k, i) /\ Q!DeleteEntity(k, i) /\ X!DeleteEntity(k, i)

WriteVcEpochData(k, x, v) ==
    /\ Call("vc")
    /\ C!WriteVcEpochData(k, x, v) /\ M!WriteVcEpochData(k, x, v)
    /\ Q!WriteVcEpochData(k, x, v) /\ UNCHANGED sqlx

DeleteVcStateIfUnreferenced(x) ==
    /\ Call("vc")
    /\ C!DeleteVcStateIfUnreferenced(x) /\ M!DeleteVcStateIfUnreferenced(x)
    /\ Q!DeleteVcStateIfUnreferenced(x) /\ UNCHANGED sqlx

WriteRetainedBatch(x, v, refs) ==
    /\ Call("vc")
    /\ C!WriteRetainedBatch(x, v, refs) /\ M!WriteRetainedBatch(x, v, refs)
    /\ Q!WriteRetainedBatch(x, v, refs) /\ UNCHANGED sqlx

DeleteRetained(i) ==
    /\ Call("vc")
    /\ C!DeleteRetained(i) /\ M!DeleteRetained(i) /\ Q!DeleteRetained(i) /\ UNCHANGED sqlx
-----------------------------------------------------------------------------
Next ==
    \/ \E g \in Groups :
          \/ \E k \in GroupKinds : DeleteGroupData(g, k) \/ \E v \in Values : WriteGroupData(g, k, v)
          \/ \E v \in Values : AppendOwnLeafNode(g, v)
          \/ DeleteOwnLeafNodes(g)
          \/ ClearProposalQueue(g)
          \/ \E r \in ProposalRefs : QueueProposal(g, r) \/ RemoveProposal(g, r)
          \/ \E e \in Epochs, l \in Leaves :
                DeleteEpochKeyPairs(g, e, l) \/ \E v \in Values : WriteEpochKeyPairs(g, e, l, v)
    \/ \E k \in EntityKinds, i \in Ids : DeleteEntity(k, i) \/ \E v \in Values : WriteEntity(k, i, v)
    \/ \E x \in VcEpochs :
          \/ DeleteVcStateIfUnreferenced(x)
          \/ \E k \in VcEpochKinds, v \in Values : WriteVcEpochData(k, x, v)
          \/ \E v \in Values : \E refs \in SUBSET Ids \ {{}} : WriteRetainedBatch(x, v, refs)
    \/ \E i \in Ids : DeleteRetained(i)

Spec == Init /\ [][Next]_vars
-----------------------------------------------------------------------------
(* Two pairs of an epoch and a leaf with the same digits one after the      *)
(* other, as epoch 1 and leaf 10 and epoch 11 and leaf 0.                   *)
SameDigits(k, l) == k # l /\ k[1] = l[1] /\ M!Digits(k[2]) \o M!Digits(k[3]) = M!Digits(l[2]) \o M!Digits(l[3])
EpochKeys == Groups \X Epochs \X Leaves
Apart == {k \in EpochKeys : \A l \in EpochKeys : ~SameDigits(k, l)}
SameAt(f, h, k) == (k \in DOMAIN f <=> k \in DOMAIN h) /\ (k \in DOMAIN f => f[k] = h[k])

(* The memory provider, as far as it keeps the contract: after any calls    *)
(* every getter returns what the trait says, although its queue is a list   *)
(* beside the proposals and clear_proposal_queue leaves the proposals       *)
(* behind.  Exempt are the key pairs of epochs and leaves whose digits run  *)
(* into each other, and a proposal that was queued twice.                   *)
MemoryConforms ==
    /\ \A f \in DOMAIN stored \ {"proposals", "epochKeys"} : M!Stored[f] = stored[f]
    /\ \A k \in Apart : SameAt(M!Stored.epochKeys, stored.epochKeys, k)
    /\ \A p \in (Groups \X ProposalRefs) \ requeued :
          /\ p \in M!Stored.proposals <=> p \in stored.proposals
          /\ M!InQueue(p[1], p[2]) => M!Has("QueuedProposal", p)

(* The sqlx provider knows no virtual clients, and of the own leaf nodes of *)
(* a group it has the last one only.                                        *)
SqlxConforms ==
    /\ \A f \in {"proposals", "entities", "epochKeys"} : X!Stored[f] = stored[f]
    /\ X!Stored.groupData = Drop(stored.groupData, Groups \X VcGroupKinds)
    /\ \A g \in Groups : Len(stored.leafNodes[g]) <= 1 => X!Stored.leafNodes[g] = stored.leafNodes[g]

(* After any sequence of calls the getters of the three providers return    *)
(* what the trait says, up to the exemptions above.                         *)
ProvidersConform == Q!Stored = stored /\ MemoryConforms /\ SqlxConforms
=============================================================================
