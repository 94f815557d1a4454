----------------------------- MODULE LeafNodes -----------------------------
(***************************************************************************)
(* Leaf nodes, capabilities, extensions and key packages of OpenMLS: what  *)
(* a client says about itself in the ratchet tree, and the checks that     *)
(* need nothing but the leaf or the key package itself.                    *)
(*                                                                         *)
(* Types of extensions, proposals and credentials are strings; "Unknown"   *)
(* stands for one extension type the library does not interpret, "Custom"  *)
(* for one application-defined proposal type.  An Extensions<T> list has   *)
(* no duplicates and is the set of its types.  Capabilities are a record   *)
(* [suites, extensions, proposals, credentials]; the one protocol version  *)
(* is left out.  A leaf is a record [credential, caps, exts, source, place,*)
(* expires]: `place` is the leaf index its signature binds (None in a key  *)
(* package) and `expires` the end of its lifetime (None without one).      *)
(***************************************************************************)
EXTENDS Naturals

CONSTANTS None,     \* the absent value
          Suite     \* the ciphersuite of the group and of every key package

(* ExtensionType::is_default *)
IsDefaultExtension(e) ==
    e \in {"ApplicationId", "RatchetTree", "RequiredCapabilities", "ExternalPub",
           "ExternalSenders"}

(* ExtensionType::is_valid_in_*: where a type may be used. *)
ValidInLeafNode == {"Unknown", "ApplicationId", "AppDataDictionary"}
ValidInGroupInfo == {"RatchetTree", "ExternalPub", "AppDataDictionary", "Unknown"}
ValidInKeyPackage == {"Unknown", "LastResort", "AppDataDictionary"}
ValidInGroupContext ==
    {"RequiredCapabilities", "ExternalSenders", "Unknown", "AppDataDictionary"}

(* Extensions::<T>::try_from: a typed list is made only of types valid in T. *)
TryFrom(list, valid) == list \subseteq valid

(* ProposalType::is_default *)
IsDefaultProposal(t) ==
    t \in {"Add", "Update", "Remove", "PreSharedKey", "Reinit", "ExternalInit",
           "GroupContextExtensions"}

(***************************************************************************)
(* Capabilities                                                            *)
(***************************************************************************)

(* Capabilities::new, where None asks for the default of a list. *)
NewCapabilities(suites, extensions, proposals, credentials) ==
    [suites      |-> IF suites = None THEN {Suite} ELSE suites,
     extensions  |-> IF extensions = None THEN {} ELSE extensions,
     proposals   |-> IF proposals = None THEN {} ELSE proposals,
     credentials |-> IF credentials = None THEN {"Basic"} ELSE credentials]

(* Default for Capabilities *)
DefaultCapabilities == NewCapabilities(None, None, None, None)

(* Capabilities::with_grease: one meaningless entry in each list. *)
WithGrease(caps) == [f \in DOMAIN caps |-> caps[f] \cup {"Grease"}]

ContainsExtension(caps, e) == IsDefaultExtension(e) \/ e \in caps.extensions
ContainsProposal(caps, t) == IsDefaultProposal(t) \/ t \in caps.proposals
ContainsCredential(caps, c) == c \in caps.credentials
ContainsCiphersuite(caps) == Suite \in caps.suites

ContainsExtensions(caps, exts) == \A e \in exts : ContainsExtension(caps, e)

(* Capabilities::supports_required_capabilities for a RequiredCapabilities- *)
(* Extension [extensions, proposals, credentials], None when there is none. *)
SupportsRequired(caps, required) ==
    required # None =>
        /\ \A e \in required.extensions : ContainsExtension(caps, e)
        /\ \A t \in required.proposals : ContainsProposal(caps, t)
        /\ \A c \in required.credentials : ContainsCredential(caps, c)

(***************************************************************************)
(* Leaf nodes                                                              *)
(***************************************************************************)

(* LeafNodeTbs: the contents of a leaf with its source and the position the *)
(* signature covers.                                                        *)
Payload(contents, source, place, expires) ==
    [credential |-> contents.credential, caps |-> contents.caps, exts |-> contents.exts,
     source |-> source, place |-> place, expires |-> expires]

(* LeafNode::new for a key package or for the creator of a group. *)
NewLeaf(params, expires) == Payload(params, "KeyPackage", None, expires)

(* LeafNode::update with LeafNodeParameters, None when they are empty: the  *)
(* leaf of an Update proposal for leaf index i.                             *)
UpdatedLeaf(leaf, params, i) ==
    Payload(IF params = None THEN leaf ELSE params, "Update", i, None)

(* PublicGroupDiff::compute_path and LeafNode::new_with_parent_hash: the    *)
(* leaf of a commit's path.  An external committer has no leaf to take      *)
(* capabilities and extensions from and falls back to the defaults.         *)
MemberPathLeaf(leaf, params, i) ==
    Payload(IF params = None THEN leaf ELSE params, "Commit", i, None)

ExternalPathLeaf(credential, params, i) ==
    LET contents == [credential |-> credential,
                     caps |-> IF params = None THEN DefaultCapabilities ELSE params.caps,
                     exts |-> IF params = None THEN {} ELSE params.exts]
    IN  Payload(contents, "Commit", i, None)

(* LeafNodeIn::into_verifiable_leaf_node, and Verifiable for each kind of   *)
(* leaf: it is of the kind the message needs, and signed for its position.  *)
OfSource(leaf, source) == leaf.source = source
SignedFor(leaf, place) == leaf.place = place
VerifiesAs(leaf, source, place) == OfSource(leaf, source) /\ SignedFor(leaf, place)

(* LeafNode::supports_extension, LeafNode::check_extension_support *)
SupportsExtension(leaf, e) == IsDefaultExtension(e) \/ e \in leaf.caps.extensions
CheckExtensionSupport(leaf, types) == \A e \in types : SupportsExtension(leaf, e)

(* LeafNode::validate_locally *)
ValidateLocally(leaf) ==
    /\ leaf.exts \subseteq ValidInLeafNode
    /\ ContainsExtensions(leaf.caps, leaf.exts)
    /\ ContainsCredential(leaf.caps, leaf.credential)

(* Lifetime::validate: `not_after` itself is already too late. *)
LifetimeValid(expires, now) == expires > now

LeafLifetimeValid(leaf, now) == leaf.expires # None => LifetimeValid(leaf.expires, now)

(***************************************************************************)
(* Key packages                                                            *)
(***************************************************************************)

(* KeyPackageBuilder::build.  The builder checks neither the leaf nor that  *)
(* its capabilities list the LastResort extension it adds.                  *)
NewKeyPackage(client, params, lastResort, expires) ==
    [client |-> client, leaf |-> NewLeaf(params, expires),
     exts |-> IF lastResort THEN {"LastResort"} ELSE {}]

(* KeyPackageIn::validate, by whoever wants to add the client, and again by *)
(* everybody who receives the Add proposal, AddProposalIn::validate.        *)
KeyPackageValid(kp, now) ==
    /\ VerifiesAs(kp.leaf, "KeyPackage", None)
    /\ TryFrom(kp.exts, ValidInKeyPackage)
    /\ CheckExtensionSupport(kp.leaf, kp.exts)
    /\ LifetimeValid(kp.leaf.expires, now)
=============================================================================
