-------------------------- MODULE GroupValidation --------------------------
(***************************************************************************)
(* What OpenMLS lets into a group: the checks of leaf nodes, capabilities, *)
(* required capabilities and lifetimes that the author of a proposal, the  *)
(* committer, the receivers of the commit and the clients that join make,  *)
(* each at its own time and against its own view of the group.             *)
(*                                                                         *)
(* A client stands for its signature key and for its leaf index; keys are  *)
(* always fresh, so encryption and init keys never collide.  Proposals     *)
(* reach every member at once and no commit is lost: what that does to     *)
(* OpenMLS is the subject of GroupSession and of GroupApi.                  *)
(***************************************************************************)
EXTENDS LeafNodes, FiniteSets

CONSTANTS Users, Creator,
          Params,       \* leaf contents a client may choose: [credential, caps, exts]
          PathParams,   \* the ones chosen with a commit, None for none
          Contexts,     \* group context extensions: [exts, required]
          Founding,     \* the contexts and contents a group is created with
          Life,         \* lifetime of a key package
          MaxEpoch, MaxTime, MaxStore

(* Group context extensions are typed, Extensions<GroupContext>. *)
ASSUME ContextsTyped == \A c \in Contexts : TryFrom(c.exts, ValidInGroupContext)
ASSUME ConstantsOk == Creator \in Users /\ Life \in Nat

VARIABLES
    group,      \* [epoch, tree, exts, required, since]: the group its members share
    active,     \* members that follow the group
    store,      \* proposals of this epoch, the ProposalStore of every member
    commit,     \* the commit on its way, None if there is none
    invited,    \* clients with a Welcome for this epoch still to read
    now

vars == <<group, active, store, commit, invited, now>>

(* An occupied leaf of the tree with two facts that only the properties     *)
(* use: the epoch it came with, and whether a client other than the author  *)
(* of the leaf has checked it.                                              *)
Entry(leaf, epoch, seen) == [leaf |-> leaf, since |-> epoch, seen |-> seen]

(* The leaves that clients can make, and the entries of the tree. *)
Chosen == Params \cup (PathParams \ {None}) \cup {f.params : f \in Founding}
Leaf ==
    [credential : {p.credential : p \in Chosen},
     caps : {p.caps : p \in Chosen} \cup {DefaultCapabilities},
     exts : {p.exts : p \in Chosen} \cup {{}},
     source : {"KeyPackage", "Update", "Commit"},
     place : Users \cup {None}, expires : Nat \cup {None}]
TreeEntry == [leaf : Leaf, since : Nat, seen : BOOLEAN]

ASSUME NoneIsAbsent == None \notin Leaf \cup TreeEntry

Members(g) == {u \in Users : g.tree[u] # None}
LeafOf(g, u) == g.tree[u].leaf
Leaves(g) == {LeafOf(g, u) : u \in Members(g)}

(***************************************************************************)
(* Proposals                                                               *)
(***************************************************************************)
Add(kp, inline) == [kind |-> "Add", kp |-> kp, inline |-> inline]
Update(u, leaf) == [kind |-> "Update", by |-> u, leaf |-> leaf, inline |-> FALSE]
Remove(u, inline) == [kind |-> "Remove", target |-> u, inline |-> inline]
Gce(c, inline) == [kind |-> "GroupContextExtensions", exts |-> c.exts, required |-> c.required,
                   inline |-> inline]
SelfRemove(u) == [kind |-> "SelfRemove", by |-> u, inline |-> FALSE]
Custom(inline) == [kind |-> "Custom", inline |-> inline]
ExternalInit == [kind |-> "ExternalInit", inline |-> TRUE]

OfKind(S, kind) == {p \in S : p.kind = kind}
Removed(S) == {p.target : p \in OfKind(S, "Remove")}
Leaving(S) == Removed(S) \cup {p.by : p \in OfKind(S, "SelfRemove")}
Added(S) == {p.kp.client : p \in OfKind(S, "Add")}

(* ProposalQueue::filter_proposals: an Update gives way to a removal of its *)
(* leaf, a Remove to a SelfRemove, a stored one to the committer's own, and *)
(* the committer's own Updates to the path of the commit.                   *)
FilterProposals(Q, own) ==
    {p \in Q :
        /\ p.kind = "Update" => p.by # own /\ p.by \notin Leaving(Q)
        /\ p.kind = "Remove" =>
              /\ SelfRemove(p.target) \notin Q
              /\ ~p.inline => Remove(p.target, TRUE) \notin Q}

NeedsPath(S) ==
    S = {} \/ \E p \in S : p.kind \in {"Update", "Remove", "ExternalInit", "SelfRemove",
                                       "GroupContextExtensions"}

(***************************************************************************)
(* PublicGroup: the validation functions, for group g at time t            *)
(***************************************************************************)

(* Mutant: a new leaf need not know the credentials that are in use. *)
LeafCapabilitiesOneWay(g, leaf) ==
    /\ ValidateLocally(leaf)
    /\ ContainsCiphersuite(leaf.caps)
    /\ SupportsRequired(leaf.caps, g.required)
    /\ \A l \in Leaves(g) : ContainsCredential(l.caps, leaf.credential)

(* validate_leaf_node_capabilities; the leaves of g include the ones that   *)
(* the same commit removes or replaces.                                     *)
LeafCapabilities(g, leaf) ==
    /\ ValidateLocally(leaf)
    /\ ContainsCiphersuite(leaf.caps)
    /\ SupportsRequired(leaf.caps, g.required)
    /\ \A l \in Leaves(g) : ContainsCredential(l.caps, leaf.credential)
    /\ \A l \in Leaves(g) : ContainsCredential(leaf.caps, l.credential)

(* validate_leaf_node *)
ValidLeaf(g, leaf, t) == LeafCapabilities(g, leaf) /\ LeafLifetimeValid(leaf, t)

(* validate_proposal_type_support *)
ValidProposalTypes(g, S) ==
    \A p \in S : IsDefaultProposal(p.kind)
                 \/ \A u \in Members(g) \ Removed(S) : p.kind \in LeafOf(g, u).caps.proposals

(* validate_key_uniqueness: a signature key is in the group once. *)
UniqueKeys(g, S) ==
    /\ Added(S) \cap (Members(g) \ Removed(S)) = {}
    /\ \A p, q \in OfKind(S, "Add") : p.kp.client = q.kp.client => p = q

(* validate_add_proposals; the suites are equal by definition. *)
ValidAdds(g, S, t) ==
    \A p \in OfKind(S, "Add") :
        CheckExtensionSupport(p.kp.leaf, g.exts) /\ ValidLeaf(g, p.kp.leaf, t)

(* validate_capabilities *)
ValidCapabilities(g, S) ==
    /\ \A p \in OfKind(S, "Add") : LeafCapabilities(g, p.kp.leaf)
    /\ \A p \in OfKind(S, "Update") : LeafCapabilities(g, p.leaf)

(* validate_remove_proposals *)
ValidRemoves(g, S) ==
    /\ Removed(S) \subseteq Members(g)
    /\ Removed(S) \cap {p.by : p \in OfKind(S, "Update")} = {}

(* validate_update_proposals for a commit of c *)
ValidUpdates(g, S, c, t) ==
    \A p \in OfKind(S, "Update") :
        p.by # c /\ ValidLeaf(g, p.leaf, t) /\ CheckExtensionSupport(p.leaf, g.exts)

(* Mutant: the members are not asked for the extensions a proposal requires. *)
ValidGceUnsupported(g, S) ==
    /\ Cardinality(OfKind(S, "GroupContextExtensions")) <= 1
    /\ \A p \in OfKind(S, "GroupContextExtensions") :
        LET types == IF p.required = None THEN {} ELSE p.required.extensions
        IN  \A e \in p.exts : IsDefaultExtension(e) \/ e \in types

(* validate_group_context_extensions_proposal: of the required capabilities *)
(* the extension types alone are compared with the members.                 *)
ValidGce(g, S) ==
    /\ Cardinality(OfKind(S, "GroupContextExtensions")) <= 1
    /\ \A p \in OfKind(S, "GroupContextExtensions") :
        LET types == IF p.required = None THEN {} ELSE p.required.extensions
        IN  /\ \A l \in Leaves(g) : CheckExtensionSupport(l, types)
            /\ \A e \in p.exts : IsDefaultExtension(e) \/ e \in types

(* validate_external_commit, and the conditions on references and Removes   *)
(* that validate_commit adds for a new member.                              *)
ValidExternal(S) ==
    /\ Cardinality(OfKind(S, "ExternalInit")) = 1
    /\ \A p \in S : IF p.inline THEN p.kind \in {"ExternalInit", "Remove", "Custom"}
                                ELSE p.kind = "SelfRemove"
    /\ Cardinality(Removed(S)) <= 1

ValidProposals(g, S, c, t) ==
    /\ ValidProposalTypes(g, S)
    /\ UniqueKeys(g, S)
    /\ ValidAdds(g, S, t)
    /\ ValidCapabilities(g, S)
    /\ ValidRemoves(g, S)
    /\ ValidUpdates(g, S, c, t)
    /\ ValidGce(g, S)

(* PublicGroupDiff::apply_proposals and compute_path or apply_received_-    *)
(* update_path: the group after a commit of c.                              *)
NextGroup(g, S, c, path, seen) ==
    LET e == g.epoch + 1
        gce == OfKind(S, "GroupContextExtensions")
        leaf(u) ==
            IF u = c /\ path # None THEN Entry(path, e, seen)
            ELSE IF u \in Added(S)
            THEN Entry((CHOOSE p \in OfKind(S, "Add") : p.kp.client = u).kp.leaf, e, TRUE)
            ELSE IF u \in Leaving(S) THEN None
            ELSE IF \E p \in OfKind(S, "Update") : p.by = u
            THEN Entry((CHOOSE p \in OfKind(S, "Update") : p.by = u).leaf, e, TRUE)
            ELSE g.tree[u]
        context == IF gce = {} THEN [exts |-> g.exts, required |-> g.required, since |-> g.since]
                   ELSE LET p == CHOOSE p \in gce : TRUE
                        IN  [exts |-> p.exts, required |-> p.required, since |-> e]
    IN  [epoch |-> e, tree |-> [u \in Users |-> leaf(u)], exts |-> context.exts,
         required |-> context.required, since |-> context.since]

(* CommitBuilder::build_internal checks the leaf of its own path only       *)
(* against the extensions of the group context that the commit leads to.    *)
OwnPathChecked(path, next) ==
    path # None => /\ CheckExtensionSupport(path, next.exts)
                   /\ SupportsRequired(path.caps, next.required)

(* PublicGroup::validate_commit on the leaf of a path that was received: in *)
(* full, and against the group before the commit.                           *)
PathValid(g, path, c, t) ==
    path # None => /\ VerifiesAs(path, "Commit", c)
                   /\ ValidLeaf(g, path, t)
                   /\ ContainsExtensions(path.caps, g.exts)

(* ProposalIn::validate, for a proposal on its own or inside a commit *)
Readable(p, t) ==
    /\ p.kind = "Add" => KeyPackageValid(p.kp, t)
    /\ p.kind = "Update" => VerifiesAs(p.leaf, "Update", p.by)
    /\ p.kind = "GroupContextExtensions" => TryFrom(p.exts, ValidInGroupContext)

(* validate_commit and stage_diff for the commit k, once it has been read. *)
ValidCommit(g, k, t) ==
    /\ \A p \in k.covers : p.inline => Readable(p, t)
    /\ PathValid(g, k.path, k.by, t)
    /\ ValidProposals(g, k.covers, k.by, t)
    /\ IF k.external THEN k.path # None /\ ValidExternal(k.covers)
                     ELSE OfKind(k.covers, "ExternalInit") = {}
    /\ NeedsPath(k.covers) => k.path # None

(* PublicGroup::from_ratchet_tree: what a newcomer demands of the tree. *)
TreeValid(g, t) == \A l \in Leaves(g) : ValidateLocally(l) /\ ValidLeaf(g, l, t)

(***************************************************************************)
(* Proposing                                                               *)
(***************************************************************************)
CanPropose ==
    commit = None /\ invited = {} /\ group.epoch < MaxEpoch /\ Cardinality(store) < MaxStore

(* The key packages a client may have published by now; each Add uses a     *)
(* package of its own.                                                      *)
Published ==
    {NewKeyPackage(u, params, lastResort, t + Life) :
        u \in Users, params \in Params, lastResort \in BOOLEAN, t \in 0..now}

(* create_add_proposal for a key package that KeyPackageIn::validate has let *)
(* pass, as everybody does who receives the proposal.                        *)
ProposeAdd(kp) ==
    /\ CanPropose
    /\ active # {}
    /\ Readable(Add(kp, FALSE), now)
    /\ SupportsRequired(kp.leaf.caps, group.required)
    /\ store' = store \cup {Add(kp, FALSE)}
    /\ UNCHANGED <<group, active, commit, invited, now>>

(* create_self_update_proposal_internal *)
ProposeUpdate(u) ==
    /\ CanPropose
    /\ \E params \in Params \cup {None} :
          LET leaf == UpdatedLeaf(LeafOf(group, u), params, u)
          IN  /\ CheckExtensionSupport(leaf, group.exts)
              /\ store' = store \cup {Update(u, leaf)}
    /\ UNCHANGED <<group, active, commit, invited, now>>

(* create_remove_proposal, leave_group_via_self_remove, propose_custom *)
ProposeOther(u) ==
    /\ CanPropose
    /\ \E p \in {Remove(v, FALSE) : v \in Members(group)} \cup {SelfRemove(u), Custom(FALSE)} :
          store' = store \cup {p}
    /\ UNCHANGED <<group, active, commit, invited, now>>

(* create_group_context_ext_proposal: its author alone is asked for the     *)
(* required proposal and credential types.                                  *)
ProposeGce(u) ==
    /\ CanPropose
    /\ \E c \in Contexts :
          /\ SupportsRequired(LeafOf(group, u).caps, c.required)
          /\ c.required # None =>
                \A l \in Leaves(group) : CheckExtensionSupport(l, c.required.extensions)
          /\ store' = store \cup {Gce(c, FALSE)}
    /\ UNCHANGED <<group, active, commit, invited, now>>

(***************************************************************************)
(* Committing                                                              *)
(***************************************************************************)

(* Proposals of the commit builder itself, none of which passes the checks  *)
(* above.                                                                   *)
Inline ==
    {{}} \cup {{Add(kp, TRUE)} : kp \in {k \in Published : KeyPackageValid(k, now)}}
         \cup {{Remove(u, TRUE)} : u \in Members(group)}
         \cup {{Gce(c, TRUE)} : c \in Contexts}
         \cup {{Custom(TRUE)}}

CanCommit == commit = None /\ invited = {} /\ group.epoch < MaxEpoch

(* Mutant: the committer does not ask whether the types are supported. *)
BuilderChecksNoTypes(g, S, c, t) ==
    /\ UniqueKeys(g, S) /\ ValidAdds(g, S, t) /\ ValidCapabilities(g, S) /\ ValidRemoves(g, S)
    /\ ValidUpdates(g, S, c, t) /\ ValidGce(g, S)

BuilderChecks(g, S, c, t) == ValidProposals(g, S, c, t)

Sent(c, external, S, path) ==
    LET next == NextGroup(group, S, c, path, FALSE)
    IN  /\ OwnPathChecked(path, next)
        /\ commit' = [by |-> c, external |-> external, covers |-> S, path |-> path,
                      waiting |-> active \ {c}, followed |-> {}, refused |-> {}]

(* CommitBuilder::build_internal for a member *)
Build(c) ==
    /\ CanCommit
    /\ \E own \in Inline, params \in PathParams :
          LET S == FilterProposals(store \cup own, c)
              ownUpdate == \E p \in OfKind(store, "Update") : p.by = c
              path == IF NeedsPath(S) \/ ownUpdate \/ params # None
                      THEN MemberPathLeaf(LeafOf(group, c), params, c) ELSE None
          IN  /\ BuilderChecks(group, S, c, now)
              /\ c \notin Leaving(S)
              /\ Sent(c, FALSE, S, path)
    /\ UNCHANGED <<group, active, store, invited, now>>

(* ExternalCommitBuilder::build_group and build_internal: a client outside  *)
(* the group, or one that lost it, joins by a commit of its own; of the     *)
(* proposals it is given it uses the SelfRemoves.                           *)
ExternalCommit(c) ==
    /\ CanCommit
    /\ active # {}
    /\ TreeValid(group, now)
    /\ \E params \in PathParams, credential \in {p.credential : p \in Params} :
          LET S == FilterProposals(
                      {ExternalInit} \cup OfKind(store, "SelfRemove")
                        \cup (IF c \in Members(group) THEN {Remove(c, TRUE)} ELSE {}), c)
          IN  /\ BuilderChecks(group, S, c, now)
              /\ ValidExternal(S)
              /\ Sent(c, TRUE, S, ExternalPathLeaf(credential, params, c))
    /\ UNCHANGED <<group, active, store, invited, now>>

(* A member stages the commit and merges it, or refuses it. *)
Receive(r) ==
    /\ commit # None
    /\ r \in commit.waiting
    /\ commit' = IF ValidCommit(group, commit, now)
                 THEN [commit EXCEPT !.waiting = @ \ {r}, !.followed = @ \cup {r}]
                 ELSE [commit EXCEPT !.waiting = @ \ {r}, !.refused = @ \cup {r}]
    /\ UNCHANGED <<group, active, store, invited, now>>

(* Everybody has decided.  The committer has merged; it goes on alone when  *)
(* all that would stay with it refuse, and who refuses is left behind when  *)
(* somebody follows.                                                        *)
Settle ==
    /\ commit # None
    /\ commit.waiting = {}
    /\ LET next == NextGroup(group, commit.covers, commit.by, commit.path, commit.followed # {})
           stayed == commit.followed \cap Members(next)
       IN  IF commit.refused \cap Members(next) # {} /\ stayed = {}
           THEN /\ active' = active \ {commit.by}
                /\ UNCHANGED <<group, store, invited>>
           ELSE /\ group' = next
                /\ active' = stayed \cup {commit.by}
                /\ store' = {}
                /\ invited' = Added(commit.covers)
    /\ commit' = None
    /\ UNCHANGED now

(* ProcessedWelcome and StagedWelcome.  Required capabilities are looked    *)
(* for among the extensions of the GroupInfo, where they may not be; the    *)
(* check of the whole tree, own leaf and all lifetimes included, finds them *)
(* in the group context.                                                    *)
WelcomeValid(g, u, t) ==
    /\ "RequiredCapabilities" \in ValidInGroupInfo => SupportsRequired(LeafOf(g, u).caps, g.required)
    /\ TreeValid(g, t)
    /\ CheckExtensionSupport(LeafOf(g, u), g.exts)

(* A Welcome that fails is used up. *)
Join(u) ==
    /\ u \in invited
    /\ invited' = invited \ {u}
    /\ active' = IF WelcomeValid(group, u, now) THEN active \cup {u} ELSE active
    /\ UNCHANGED <<group, store, commit, now>>

Tick ==
    /\ now < MaxTime
    /\ now' = now + 1
    /\ UNCHANGED <<group, active, store, commit, invited>>

(* MlsGroup::builder: the creator's leaf is compared with the context only  *)
(* as far as MlsGroupCreateConfig does, its extensions with its capabilities. *)
Init ==
    /\ \E f \in Founding :
          /\ ContainsExtensions(f.params.caps, f.params.exts)
          /\ group = [epoch |-> 0, exts |-> f.context.exts, required |-> f.context.required,
                      since |-> 0,
                      tree |-> [u \in Users |->
                          IF u = Creator THEN Entry(NewLeaf(f.params, Life), 0, FALSE) ELSE None]]
    /\ active = {Creator}
    /\ store = {} /\ commit = None /\ invited = {} /\ now = 0

Next ==
    \/ \E u \in Users : Join(u) \/ Receive(u)
    \/ \E kp \in Published : ProposeAdd(kp)
    \/ \E u \in active : ProposeUpdate(u) \/ ProposeOther(u) \/ ProposeGce(u) \/ Build(u)
    \/ \E u \in Users \ active : ExternalCommit(u)
    \/ Settle
    \/ Tick

Spec == Init /\ [][Next]_vars

(***************************************************************************)
(* Properties                                                              *)
(***************************************************************************)

(* Members refuse a commit that build_internal made for two reasons only:   *)
(* the leaf of its path, which its author checks less than they do, or a    *)
(* key package that expired on the way.  All other checks of the committer  *)
(* and of validate_commit agree.                                            *)
RefusalsExplained ==
    commit # None /\ commit.refused # {} =>
        \/ ~PathValid(group, commit.path, commit.by, now)
        \/ \E p \in OfKind(commit.covers, "Add") : ~LifetimeValid(p.kp.leaf.expires, now)

(* A member supports every extension the group context has or requires,     *)
(* and what else the group required when the member's leaf came in: Adds,   *)
(* Updates, paths and GroupContextExtensions each keep it from their own    *)
(* side.  Only a leaf that came with the very commit that set the context   *)
(* may fall short.                                                          *)
RequirementsKept ==
    \A u \in Members(group) :
        LET m == group.tree[u]
        IN  /\ m.since # group.since =>
                  /\ CheckExtensionSupport(m.leaf, group.exts)
                  /\ group.required # None =>
                        CheckExtensionSupport(m.leaf, group.required.extensions)
            /\ m.since > group.since => SupportsRequired(m.leaf.caps, group.required)

(* Two members whose leaves came by different commits can read each other's *)
(* credential, unless nobody has checked the later leaf.                    *)
CredentialsUnderstood ==
    \A u, v \in Members(group) :
        LET m == group.tree[u]
            n == group.tree[v]
        IN  m.since < n.since /\ n.seen =>
                /\ ContainsCredential(m.leaf.caps, n.leaf.credential)
                /\ ContainsCredential(n.leaf.caps, m.leaf.credential)
=============================================================================
