---------------------------- MODULE StorageKinds ----------------------------
(***************************************************************************)
(* The kinds of values that the methods of StorageProvider                 *)
(* (openmls_traits::storage) read and write, and tables of them.           *)
(***************************************************************************)
EXTENDS Naturals, Sequences, FiniteSets

CONSTANTS
    Groups,         \* group ids
    Ids,            \* public keys, PSK ids and key package references
    ProposalRefs,   \* a reference determines its proposal
    Epochs, Leaves, \* keys of the epoch key pairs
    VcEpochs,       \* emulation epochs
    Values          \* everything that is stored

Put(f, k, v) == [x \in DOMAIN f \cup {k} |-> IF x = k THEN v ELSE f[x]]
Drop(f, ks) == [x \in DOMAIN f \ ks |-> f[x]]
Empty == [x \in {} |-> x]

PublicGroupKinds == {"tree", "interimTranscriptHash", "context", "confirmationTag"}
MemberKinds == {"groupState", "messageSecrets", "resumptionPskStore", "ownLeafIndex", "epochSecrets"}
VcGroupKinds == {"vcEmulationBindings", "registeredVcEmulationEpoch"}
GroupKinds == PublicGroupKinds \cup MemberKinds \cup VcGroupKinds
                \cup {"joinConfig", "applicationExportTree"}
EntityKinds == {"keyPackage", "psk", "encryptionKeyPair", "signatureKeyPair"}
VcEpochKinds == {"emulationEpochState", "operationTree"}
=============================================================================
