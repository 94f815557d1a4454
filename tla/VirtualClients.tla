---------------------------- MODULE VirtualClients ----------------------------
(***************************************************************************)
(* The virtual-clients draft in openmls (components/vc_*.rs and its call   *)
(* sites): several emulators share one leaf of higher-level groups.  They  *)
(* are the members of an emulation group, register its epochs, allocate    *)
(* the secrets of their operations (key packages, new leaves) from an      *)
(* operation secret tree that each of them stores, and derive the secrets  *)
(* of a sibling's operation from the same tree, at the coordinates the     *)
(* sibling embedded in its leaf.                                           *)
(*                                                                         *)
(* An emulator is named by its leaf index in the emulation group.  An      *)
(* emulation epoch is named by the epoch of the emulation group that       *)
(* registered it (its EpochId is derived from that epoch's exporter).      *)
(***************************************************************************)
EXTENDS KeySchedule, FiniteSets, FiniteSetsExt

CONSTANTS
    Emulators,      \* leaf indexes of the emulators in the emulation group
    Groups,         \* the higher-level groups (strings)
    MaxEmulation,   \* bound on the epochs of the emulation group
    MaxForward,     \* MAXIMUM_FORWARD_DISTANCE
    Tolerance,      \* OUT_OF_ORDER_TOLERANCE
    MaxGeneration,  \* u32::MAX, the end of a ratchet
    MaxPast,        \* past epochs whose message secrets a group keeps
    BatchSize,      \* key packages of a batch
    Plans           \* what the emulators and the other members do in a behaviour:
                    \*   [ops: operations used, authors: emulators that start them,
                    \*    groups: groups used, max: bound on entries and uploads,
                    \*    emulation: bound on emulation epochs, crashes: on crashes]

ASSUME VirtualClientsAssumption ==
    /\ Emulators \subseteq Nat
    /\ {MaxEmulation, MaxForward, Tolerance, MaxGeneration, MaxPast,
        BatchSize} \subseteq Nat
    /\ MaxForward < MaxGeneration
    /\ \A p \in Plans : p.authors \subseteq Emulators /\ p.groups \subseteq Groups
                       /\ p.emulation <= MaxEmulation

VARIABLES
    emulation,  \* emulator -> its view of the emulation group
    epochs,     \* emulator -> emulation epochs with a stored EmulationEpochState
    trees,      \* emulator -> the stored operation secret trees
    building,   \* emulator -> the commit builder in memory
    batch,      \* emulator -> the key package batch builder in memory
    staged,     \* emulator -> the StagedCommit or StagedWelcome in memory
    members,    \* emulator -> group -> the stored state of the group
    packages,   \* emulator -> stored key package bundles and retained material
    handled,    \* emulator -> the uploads it has processed
    log,        \* group -> the commits the delivery service accepted
    uploads,    \* the KeyPackageUploads sent
    sent,       \* coordinates -> operations that left a client under them
    lost,       \* commits and Welcomes whose secret was consumed and never used:
                \* a crash took them, or a Welcome was refused
    crashes,
    plan        \* the plan of this behaviour

vars == <<emulation, epochs, trees, building, batch, staged, members, packages,
          handled, log, uploads, sent, lost, crashes, plan>>

OperationTypes == {"key_package", "leaf_node"}
None           == [kind |-> "none"]

-----------------------------------------------------------------------------
(* Secrets                                                                  *)

Index(n) == Term("index", n, <<>>)
Name(g)  == Term(g, 0, <<>>)

(* What an emulation epoch derives from safe_export_secret.                 *)
EmulatorEpochSecret(ep) == Rand(ep)
EpochId(ep)             == Derive(EmulatorEpochSecret(ep), "epoch id")
EpochEncryptionKey(ep)  == Derive(EmulatorEpochSecret(ep), "epoch encryption key")
EpochBaseSecret(ep)     == Derive(EmulatorEpochSecret(ep), "epoch base secret")
ReuseGuardSecret(ep)    == Derive(EmulatorEpochSecret(ep), "reuse guard secret")
GenerationIdSecret(ep)  == Derive(EmulatorEpochSecret(ep), "generation id secret")

(* The head secret of a ratchet at a generation: down the tree to the leaf, *)
(* one initial secret per operation type, one step per generation.          *)
RatchetSecret(ep, leaf, type, generation) ==
    Term("ratchet", generation,
         <<Expand(Expand(EpochBaseSecret(ep), "tree", Index(leaf)), "vc operation init", type)>>)

OperationSecret(ep, leaf, type, generation, context) ==
    Expand(Derive(RatchetSecret(ep, leaf, type, generation), "VC Operation Secret"),
           "vc operation",
           [epoch_id |-> EpochId(ep), leaf |-> leaf, generation |-> generation,
            type |-> type, context |-> context])

(* import_secret: into the ciphersuite of the group it is used in.          *)
ImportSecret(secret, label, context) == Expand(Extract(NoTerm, secret), label, context)

TargetOperationSecret(secret, g)  == ImportSecret(secret, "target operation", Name(g))
KeyPackageSeed(secret, index)     == ImportSecret(secret, "key package seed", Index(index))
EncryptionKey(secret)             == Public(Derive(secret, "encryption key"))

(* The operation context of a new leaf is the group, that of a key package  *)
(* is empty.                                                                *)
LeafKey(ep, leaf, generation, g) ==
    EncryptionKey(TargetOperationSecret(
        OperationSecret(ep, leaf, "leaf_node", generation, Name(g)), g))
PackageKey(ep, leaf, generation, index) ==
    EncryptionKey(KeyPackageSeed(
        OperationSecret(ep, leaf, "key_package", generation, NoTerm), index))

(* DerivationInfo: the coordinates, encrypted under the epoch's key and the *)
(* encryption key of the leaf that carries them.                            *)
DerivationInfo(ep, leaf_key, tbe) ==
    [kind |-> "info", epoch_id |-> ep, key |-> <<EpochEncryptionKey(ep), leaf_key>>, tbe |-> tbe]
Tbe(leaf, generation, index, external_init) ==
    [leaf |-> leaf, generation |-> generation, index |-> index, external_init |-> external_init]

-----------------------------------------------------------------------------
(* The operation secret tree                                                *)

NewRatchet == [next |-> 0, retained |-> {}]
NewTree    == [c \in Emulators \X OperationTypes |-> NewRatchet]

(* generation_secret: an old generation must have been retained; a new one  *)
(* may not be too far ahead, except close to the end of the ratchet.        *)
CanDerive(tree, leaf, type, n) ==
    LET r == tree[<<leaf, type>>] IN
    IF n < r.next
    THEN n \in r.retained
    ELSE /\ n < MaxGeneration
         /\ r.next < MaxGeneration - MaxForward => n <= r.next + MaxForward

(* Mutant: the newest skipped generations are evicted. *)
NewestFew(S) == {n \in S : Cardinality({m \in S : m < n}) < Tolerance}
Newest(S) == {n \in S : Cardinality({m \in S : m > n}) < Tolerance}

(* The head moves past the generation; skipped ones are retained, at most   *)
(* Tolerance of them, the oldest evicted first.                             *)
Derived(tree, leaf, type, n) ==
    LET r == tree[<<leaf, type>>] IN
    [tree EXCEPT ![<<leaf, type>>] =
        IF n < r.next
        THEN [r EXCEPT !.retained = @ \ {n}]
        ELSE [next |-> n + 1, retained |-> Newest(r.retained \union (r.next..(n - 1)))]]

HeadGeneration(tree, leaf, type) == tree[<<leaf, type>>].next

(* load_vc_epoch_state_and_tree                                             *)
Loadable(e, ep) == ep \in epochs[e] /\ ep \in DOMAIN trees[e]

(* write_vc_operation_tree                                                  *)
StoreTree(e, ep, tree) ==
    trees' = [trees EXCEPT ![e] =
                 [x \in DOMAIN @ \union {ep} |-> IF x = ep THEN tree ELSE @[x]]]

(* An application runs one load-derive-store cycle per emulation epoch at a *)
(* time; an open batch builder is such a cycle.                             *)
TreeFree(e, ep) == batch[e] # None => batch[e].ep # ep

Coordinates(ep, leaf, type, generation) ==
    [ep |-> ep, leaf |-> leaf, type |-> type, generation |-> generation]

Leaves(c) == sent' = [x \in DOMAIN sent \union {c} |->
                        (IF x \in DOMAIN sent THEN sent[x] ELSE 0) + (IF x = c THEN 1 ELSE 0)]

-----------------------------------------------------------------------------
(* The bindings of a group to emulation epochs                              *)

Bound(bindings, n) == \E i \in DOMAIN bindings : bindings[i].epoch = n
BindingAt(bindings, n) ==
    IF Bound(bindings, n)
    THEN bindings[Min({i \in DOMAIN bindings : bindings[i].epoch = n})].ep
    ELSE 0

Others(bindings, n) == SelectSeq(bindings, LAMBDA b : b.epoch # n)

Bind(bindings, n, ep) ==
    LET kept   == IF Bound(bindings, n) THEN Others(bindings, n) ELSE bindings
        all    == Append(kept, [epoch |-> n, ep |-> ep])
        excess == Len(all) - (MaxPast + 1)
    IN  IF excess > 0 THEN SubSeq(all, excess + 1, Len(all)) ELSE all

(* The stored state of a group: the entries of its log that were merged,    *)
(* the entry it joined with (or, when it is no member, the one that removed *)
(* it), the pending commit, the bindings and the key of the own leaf.       *)
Removed(n) == [pos |-> 0, since |-> n, pending |-> None, bindings |-> <<>>, key |-> NoTerm]
NotMember  == Removed(0)

(* Mutant: a commit that installs no leaf leaves the new epoch unbound. *)
MergedUnbound(m, n, ep, key) ==
    [m EXCEPT !.pos = n, !.pending = None,
              !.bindings = IF ep > 0 THEN Bind(@, n, ep) ELSE @,
              !.key = IF key = NoTerm THEN @ ELSE key]

(* merge_staged_commit: the new epoch is bound to the emulation epoch of    *)
(* the leaf the commit installs, or to the one the current epoch is bound   *)
(* to; a pending commit is cleared.                                         *)
Merged(m, n, ep, key) ==
    LET bound == IF ep > 0 THEN ep ELSE BindingAt(m.bindings, m.pos) IN
    [m EXCEPT !.pos = n, !.pending = None,
              !.bindings = IF bound > 0 THEN Bind(@, n, bound) ELSE @,
              !.key = IF key = NoTerm THEN @ ELSE key]

Joined(n, ep, key) ==
    [pos |-> n, since |-> n, pending |-> None, key |-> key,
     bindings |-> IF ep > 0 THEN Bind(<<>>, n, ep) ELSE <<>>]

-----------------------------------------------------------------------------
(* The logs of the higher-level groups                                      *)

Entry(kind, info, key, package, resync) ==
    [kind |-> kind, info |-> info, key |-> key, package |-> package, resync |-> resync]

(* The commits that put a leaf of the virtual client into the group.        *)
Installs(c) == c.kind \in {"create", "commit", "external", "add"}

(* The virtual client's leaf at an epoch: the last entry that installed or  *)
(* removed it, 0 if there was none.                                         *)
LastLeaf(g, n) ==
    Max({0} \union {i \in 1..n : Installs(log[g][i]) \/ log[g][i].kind = "remove"})
InGroup(g) ==
    LET i == LastLeaf(g, Len(log[g])) IN i > 0 /\ log[g][i].kind # "remove"

Room == Len(uploads) + MapThenSumSet(LAMBDA g : Len(log[g]), Groups) < plan.max

(* The operation is one of this behaviour's.                                *)
Planned(op)        == op \in plan.ops
PlannedBy(e, g, op) == Planned(op) /\ e \in plan.authors /\ g \in plan.groups

Init ==
    /\ emulation = [e \in Emulators |-> [epoch |-> 1, exported |-> FALSE, record |-> 0]]
    /\ epochs    = [e \in Emulators |-> {}]
    /\ trees     = [e \in Emulators |-> <<>>]
    /\ building  = [e \in Emulators |-> None]
    /\ batch     = [e \in Emulators |-> None]
    /\ staged    = [e \in Emulators |-> None]
    /\ members   = [e \in Emulators |-> [g \in Groups |-> NotMember]]
    /\ packages  = [e \in Emulators |-> {}]
    /\ handled   = [e \in Emulators |-> {}]
    /\ log       = [g \in Groups |-> <<>>]
    /\ uploads   = <<>>
    /\ sent      = <<>>
    /\ lost      = [e \in Emulators |-> {}]
    /\ crashes   = 0
    /\ plan \in Plans

-----------------------------------------------------------------------------
(* Crashes                                                                  *)

(* What is in memory is gone; a consumed secret of a commit or Welcome that *)
(* was not merged is gone with it.                                          *)
Forget(e) ==
    /\ crashes < plan.crashes
    /\ crashes'  = crashes + 1
    /\ building' = [building EXCEPT ![e] = None]
    /\ batch'    = [batch EXCEPT ![e] = None]
    /\ staged'   = [staged EXCEPT ![e] = None]
    /\ lost'     = IF staged[e] = None THEN lost
                   ELSE [lost EXCEPT ![e] = @ \union {<<staged[e].group, staged[e].pos>>}]

Crash(e) ==
    /\ building[e] # None \/ batch[e] # None \/ staged[e] # None
    /\ Forget(e)
    /\ UNCHANGED <<emulation, epochs, trees, members, packages, handled, log, uploads, sent>>

-----------------------------------------------------------------------------
(* The emulation group                                                      *)

(* The emulator merges a commit of the emulation group: a fresh exporter.   *)
NextEmulationEpoch(e) ==
    /\ emulation[e].epoch < plan.emulation
    /\ emulation' = [emulation EXCEPT ![e].epoch = @ + 1, ![e].exported = FALSE]
    /\ UNCHANGED <<epochs, trees, building, batch, staged, members, packages, handled,
                   log, uploads, sent, lost, crashes>>

(* register_vc_emulation_epoch, up to its k-th write: the punctured         *)
(* exporter, the tree, the state, the record.  A registered epoch returns   *)
(* its record; a punctured exporter cannot be evaluated again.              *)
RegisterUpTo(e, k) ==
    LET ep == emulation[e].epoch IN
    /\ emulation[e].record # ep
    /\ ~emulation[e].exported
    /\ emulation' = [emulation EXCEPT ![e].exported = TRUE,
                                      ![e].record = IF k = 4 THEN ep ELSE @]
    /\ IF k >= 2 THEN StoreTree(e, ep, NewTree) ELSE UNCHANGED trees
    /\ epochs' = [epochs EXCEPT ![e] = IF k >= 3 THEN @ \union {ep} ELSE @]
    /\ UNCHANGED <<members, packages, handled, log, uploads, sent>>

Register(e) ==
    /\ RegisterUpTo(e, 4)
    /\ UNCHANGED <<building, batch, staged, lost, crashes>>
RegisterTorn(e, k) == RegisterUpTo(e, k) /\ Forget(e)

-----------------------------------------------------------------------------
(* Commits of an emulator                                                   *)

(* Mutant: the advanced tree is not written before the commit is built. *)
AllocateLate(e, ep, type) == UNCHANGED trees

(* next_operation_secret at the own leaf, and the tree persisted at once.   *)
Allocate(e, ep, type) ==
    /\ CanDerive(trees[e][ep], e, type, HeadGeneration(trees[e][ep], e, type))
    /\ StoreTree(e, ep, Derived(trees[e][ep], e, type, HeadGeneration(trees[e][ep], e, type)))

(* CommitBuilder::vc_emulation, of a member's commit or of an external one. *)
(* The builder borrows the group until it is built or dropped.              *)
VcEmulation(e, g, ep, kind) ==
    /\ building[e] = None /\ staged[e] = None
    /\ Loadable(e, ep) /\ TreeFree(e, ep)
    /\ Room /\ PlannedBy(e, g, kind)
    /\ IF kind = "commit"
       THEN members[e][g].pos > 0 /\ members[e][g].pending = None
       ELSE members[e][g].pos = 0
    /\ Allocate(e, ep, "leaf_node")
    /\ building' = [building EXCEPT ![e] =
                       [kind |-> kind, group |-> g, ep |-> ep, at |-> Len(log[g]),
                        resync |-> InGroup(g),
                        generation |-> HeadGeneration(trees[e][ep], e, "leaf_node")]]
    /\ UNCHANGED <<emulation, epochs, batch, staged, members, packages, handled, log,
                   uploads, sent, lost, crashes>>

(* apply_vc_emulation: the new leaf, with its coordinates; an external      *)
(* commit carries its external init secret.                                 *)
BuiltEntry(e, b) ==
    LET key == LeafKey(b.ep, e, b.generation, b.group)
        tbe == Tbe(e, b.generation, 0, b.kind = "external")
    IN  Entry(b.kind, DerivationInfo(b.ep, key, tbe), key, <<>>, b.kind = "external" /\ b.resync)

(* stage_commit: the commit of a member is pending in its stored group.     *)
WithPending(m, c) == [m EXCEPT !.pending = c]

(* finalize: the commit of an external committer is merged at once.         *)
Finalized(at, b, c) == Joined(at + 1, b.ep, c.key)

(* The commit is built and sent.  The delivery service takes it if the      *)
(* committer was at the head of the log; a rejected one is dropped (a       *)
(* member's pending commit is cleared, the group of an external committer   *)
(* deleted).                                                                *)
BuildCommit(e) ==
    LET b == building[e]
        g == b.group
        c == BuiltEntry(e, b)
        at == IF b.kind = "commit" THEN members[e][g].pos ELSE b.at
    IN  /\ b # None
        /\ Room
        /\ building' = [building EXCEPT ![e] = None]
        /\ Leaves(Coordinates(b.ep, e, "leaf_node", b.generation))
        /\ IF Len(log[g]) = at
           THEN /\ log' = [log EXCEPT ![g] = Append(@, c)]
                /\ members' = [members EXCEPT ![e][g] =
                                  IF b.kind = "commit" THEN WithPending(@, c) ELSE Finalized(at, b, c)]
           ELSE UNCHANGED <<log, members>>
        /\ UNCHANGED <<emulation, epochs, trees, batch, staged, packages, handled, uploads,
                       lost, crashes>>

(* Dropping the commit builder burns its generation.                        *)
DropCommit(e) ==
    /\ building[e] # None /\ Planned("drop")
    /\ building' = [building EXCEPT ![e] = None]
    /\ UNCHANGED <<emulation, epochs, trees, batch, staged, members, packages, handled, log,
                   uploads, sent, lost, crashes>>

-----------------------------------------------------------------------------
(* Commits of the other members (not virtual clients)                       *)

(* A group the virtual client created has other members once it committed.  *)
OthersIn(g) ==
    log[g] # <<>> /\ (log[g][1].kind = "create" => \E i \in DOMAIN log[g] : log[g][i].kind = "commit")

OtherCommits(g, kind) ==
    /\ Room /\ Planned(kind) /\ g \in plan.groups
    /\ InGroup(g) /\ OthersIn(g)
    /\ log' = [log EXCEPT ![g] = Append(@, Entry(kind, None, NoTerm, <<>>, FALSE))]
    /\ UNCHANGED <<emulation, epochs, trees, building, batch, staged, members, packages,
                   handled, uploads, sent, lost, crashes>>

Used(package) == \E g \in Groups : \E i \in DOMAIN log[g] : log[g][i].package = package

(* A member adds the virtual client with a key package of an upload; the    *)
(* directory hands a key package out once.                                  *)
OtherAdds(g, u, index) ==
    LET up  == uploads[u]
        key == PackageKey(up.ep, up.leaf, up.generation, index)
    IN  /\ Room /\ g \in plan.groups
        /\ ~InGroup(g)
        /\ ~Used(<<u, index>>)
        /\ log' = [log EXCEPT ![g] = Append(@, Entry("add",
                     DerivationInfo(up.ep, key, Tbe(up.leaf, up.generation, index, FALSE)),
                     key, <<u, index>>, FALSE))]
        /\ UNCHANGED <<emulation, epochs, trees, building, batch, staged, members, packages,
                       handled, uploads, sent, lost, crashes>>

-----------------------------------------------------------------------------
(* Processing the log of a group                                            *)

NextEntry(e, g) == log[g][members[e][g].pos + 1]
CanProcess(e, g) ==
    /\ members[e][g].pos \in 1..(Len(log[g]) - 1)
    /\ staged[e] = None
    /\ building[e] # None => building[e].group # g

(* The fanned-out copy of the own pending commit (by its confirmation tag): *)
(* the pending commit is merged, no secret is derived.                      *)
ProcessOwn(e, g) ==
    /\ CanProcess(e, g)
    /\ NextEntry(e, g) = members[e][g].pending
    /\ members' = [members EXCEPT ![e][g] =
                      Merged(@, @.pos + 1, NextEntry(e, g).info.epoch_id, NextEntry(e, g).key)]
    /\ UNCHANGED <<emulation, epochs, trees, building, batch, staged, packages, handled, log,
                   uploads, sent, lost, crashes>>

(* A commit of another member: no new leaf of the virtual client.           *)
ProcessOther(e, g) ==
    /\ CanProcess(e, g)
    /\ NextEntry(e, g).kind = "other"
    /\ members' = [members EXCEPT ![e][g] = Merged(@, @.pos + 1, 0, NoTerm)]
    /\ UNCHANGED <<emulation, epochs, trees, building, batch, staged, packages, handled, log,
                   uploads, sent, lost, crashes>>

(* self_removed: the group is inactive, its bindings are deleted.           *)
ProcessRemoval(e, g) ==
    /\ CanProcess(e, g)
    /\ NextEntry(e, g).kind = "remove"
    /\ members' = [members EXCEPT ![e][g] = Removed(@.pos + 1)]
    /\ UNCHANGED <<emulation, epochs, trees, building, batch, staged, packages, handled, log,
                   uploads, sent, lost, crashes>>

(* is_sibling_vc_commit: through the shared leaf, or an external commit     *)
(* that removes it.                                                         *)
IsSiblingCommit(c) == c.kind = "commit" \/ (c.kind = "external" /\ c.resync)

(* recreate_path_for_own_commit                                             *)
RecreatedKey(c, g) == LeafKey(c.info.epoch_id, c.info.tbe.leaf, c.info.tbe.generation, g)

(* DerivationInfo::decrypt with the stored state.                           *)
Decrypts(e, c) ==
    c.info.epoch_id \in epochs[e] /\ c.info.key = <<EpochEncryptionKey(c.info.epoch_id), c.key>>

(* load_vc_commit_material up to the derivation                             *)
CanLoadMaterial(e, c, type) ==
    /\ Loadable(e, c.info.epoch_id)
    /\ Decrypts(e, c)
    /\ CanDerive(trees[e][c.info.epoch_id], c.info.tbe.leaf, type, c.info.tbe.generation)

Consume(e, c, type) ==
    StoreTree(e, c.info.epoch_id,
              Derived(trees[e][c.info.epoch_id], c.info.tbe.leaf, type, c.info.tbe.generation))

(* validate_vc_external_init_secret and the check of the recreated path     *)
CanStage(c, g) ==
    /\ c.info.tbe.external_init = (c.kind = "external")
    /\ RecreatedKey(c, g) = c.key

(* A sibling's commit: the secret is derived and the tree persisted, then   *)
(* the commit is staged in memory.  A mismatch found while staging comes    *)
(* after the secret was consumed.                                           *)
ProcessSibling(e, g) ==
    LET c == NextEntry(e, g) IN
    /\ CanProcess(e, g)
    /\ c # members[e][g].pending
    /\ IsSiblingCommit(c)
    /\ TreeFree(e, c.info.epoch_id)
    /\ CanLoadMaterial(e, c, "leaf_node")
    /\ Consume(e, c, "leaf_node")
    /\ IF CanStage(c, g)
       THEN staged' = [staged EXCEPT ![e] =
                         [kind |-> "commit", group |-> g, pos |-> members[e][g].pos + 1,
                          ep |-> c.info.epoch_id, key |-> RecreatedKey(c, g)]]
       ELSE UNCHANGED staged
    /\ UNCHANGED <<emulation, epochs, building, batch, members, packages, handled, log, uploads,
                   sent, lost, crashes>>

(* merge_staged_commit, or the group of a StagedWelcome (which writes no    *)
(* binding).                                                                *)
MergeStaged(e) ==
    LET s == staged[e] IN
    /\ s # None
    /\ staged' = [staged EXCEPT ![e] = None]
    /\ members' = [members EXCEPT ![e][s.group] =
                      IF s.kind = "commit" THEN Merged(@, s.pos, s.ep, s.key)
                      ELSE Joined(s.pos, 0, s.key)]
    /\ UNCHANGED <<emulation, epochs, trees, building, batch, packages, handled, log, uploads,
                   sent, lost, crashes>>

(* The bootstrap calls are for a client that is not yet a member: it has no *)
(* group, and enters after everything it took part in before a removal (the *)
(* application's part; the calls cannot check it).                          *)
Newcomer(e, g, i) ==
    /\ members[e][g].pos = 0 /\ staged[e] = None
    /\ building[e] # None => building[e].group # g
    /\ i > members[e][g].since

(* vc_join_via_sibling_external_commit: merged and stored at once.          *)
JoinExternal(e, g, i) ==
    LET c == log[g][i] IN
    /\ Newcomer(e, g, i)
    /\ c.kind = "external"
    /\ TreeFree(e, c.info.epoch_id)
    /\ CanLoadMaterial(e, c, "leaf_node")
    /\ Consume(e, c, "leaf_node")
    /\ members' = [members EXCEPT ![e][g] =
                      IF CanStage(c, g) THEN Joined(i, c.info.epoch_id, RecreatedKey(c, g)) ELSE @]
    /\ UNCHANGED <<emulation, epochs, building, batch, staged, packages, handled, log, uploads,
                   sent, lost, crashes>>

-----------------------------------------------------------------------------
(* Groups the virtual client creates                                        *)

(* build_vc_internal: the generation is allocated and persisted, then the   *)
(* binding and the group are written; a crash in between burns it.          *)
CreateGroup(e, g, ep, done) ==
    LET generation == HeadGeneration(trees[e][ep], e, "key_package")
        key        == PackageKey(ep, e, generation, 0)
    IN  /\ log[g] = <<>> /\ members[e][g].pos = 0
        /\ building[e] = None /\ staged[e] = None
        /\ Loadable(e, ep) /\ TreeFree(e, ep)
        /\ Room /\ PlannedBy(e, g, "create")
        /\ Allocate(e, ep, "key_package")
        /\ IF done
           THEN /\ log' = [log EXCEPT ![g] = <<Entry("create",
                            DerivationInfo(ep, key, Tbe(e, generation, 0, FALSE)),
                            key, <<>>, FALSE)>>]
                /\ members' = [members EXCEPT ![e][g] = Joined(1, ep, key)]
                /\ Leaves(Coordinates(ep, e, "key_package", generation))
                /\ UNCHANGED <<building, batch, staged, lost, crashes>>
           ELSE Forget(e) /\ UNCHANGED <<log, members, sent>>
        /\ UNCHANGED <<emulation, epochs, packages, handled, uploads>>

(* vc_join_at_creation: the advanced tree is persisted only when the keys   *)
(* and the confirmation tag agree.                                          *)
JoinAtCreation(e, g) ==
    LET c == log[g][1] IN
    /\ log[g] # <<>> /\ c.kind = "create"
    /\ Newcomer(e, g, 1)
    /\ TreeFree(e, c.info.epoch_id)
    /\ CanLoadMaterial(e, c, "key_package")
    /\ c.key = PackageKey(c.info.epoch_id, c.info.tbe.leaf, c.info.tbe.generation, c.info.tbe.index)
    /\ Consume(e, c, "key_package")
    /\ members' = [members EXCEPT ![e][g] = Joined(1, c.info.epoch_id, c.key)]
    /\ UNCHANGED <<emulation, epochs, building, batch, staged, packages, handled, log, uploads,
                   sent, lost, crashes>>

-----------------------------------------------------------------------------
(* Key packages of the virtual client                                       *)

(* VcKeyPackageBatchBuilder::new: the generation is allocated in the copy   *)
(* of the tree that the builder holds.                                      *)
NewBatch(e, ep) ==
    LET tree == trees[e][ep] IN
    /\ batch[e] = None
    /\ Loadable(e, ep)
    /\ Room /\ Planned("batch") /\ e \in plan.authors
    /\ CanDerive(tree, e, "key_package", HeadGeneration(tree, e, "key_package"))
    /\ batch' = [batch EXCEPT ![e] =
                    [kind |-> "batch", ep |-> ep, generation |-> HeadGeneration(tree, e, "key_package"),
                     tree |-> Derived(tree, e, "key_package", HeadGeneration(tree, e, "key_package"))]]
    /\ UNCHANGED <<emulation, epochs, trees, building, staged, members, packages, handled, log,
                   uploads, sent, lost, crashes>>

Batch(u) == {<<u, index>> : index \in 0..(BatchSize - 1)}

(* finalize, assemble_vc_key_package_upload: the tree, then the bundles,    *)
(* then the upload goes to the siblings.                                    *)
FinalizeBatch(e) ==
    LET b == batch[e] IN
    /\ b # None
    /\ Room
    /\ StoreTree(e, b.ep, b.tree)
    /\ packages' = [packages EXCEPT ![e] = @ \union Batch(Len(uploads) + 1)]
    /\ uploads' = Append(uploads, [ep |-> b.ep, leaf |-> e, generation |-> b.generation])
    /\ Leaves(Coordinates(b.ep, e, "key_package", b.generation))
    /\ batch' = [batch EXCEPT ![e] = None]
    /\ UNCHANGED <<emulation, epochs, building, staged, members, handled, log, lost, crashes>>

(* A crash after the tree was written: the generation is burned.            *)
FinalizeTorn(e) ==
    /\ batch[e] # None
    /\ StoreTree(e, batch[e].ep, batch[e].tree)
    /\ Forget(e)
    /\ UNCHANGED <<emulation, epochs, members, packages, handled, log, uploads, sent>>

(* Dropping the batch builder burns nothing.                                *)
DropBatch(e) ==
    /\ batch[e] # None /\ Planned("drop")
    /\ batch' = [batch EXCEPT ![e] = None]
    /\ UNCHANGED <<emulation, epochs, trees, building, staged, members, packages, handled, log,
                   uploads, sent, lost, crashes>>

(* Mutant: only the first key package of an upload is retained. *)
RetainedFirst(u) == {<<u, 0>>}

(* RetainedKeyPackageMaterial: one entry per key package of the upload.     *)
Retained(u) == Batch(u)

(* process_vc_key_package_upload: the batch secret is derived once; tree    *)
(* and retained material are one atomic write.                              *)
ProcessUpload(e, u) ==
    LET up == uploads[u] IN
    /\ up.leaf # e /\ u \notin handled[e]
    /\ Loadable(e, up.ep) /\ TreeFree(e, up.ep)
    /\ CanDerive(trees[e][up.ep], up.leaf, "key_package", up.generation)
    /\ StoreTree(e, up.ep, Derived(trees[e][up.ep], up.leaf, "key_package", up.generation))
    /\ packages' = [packages EXCEPT ![e] = @ \union Retained(u)]
    /\ handled' = [handled EXCEPT ![e] = @ \union {u}]
    /\ UNCHANGED <<emulation, epochs, building, batch, staged, members, log, uploads, sent, lost,
                   crashes>>

(* Mutant: a Welcome deletes the material of its whole batch. *)
DeleteBatchMaterial(e, package) ==
    packages' = [packages EXCEPT ![e] = @ \ Batch(package[1])]

(* keys_for_welcome, vc_welcome_material: what the Welcome is opened with   *)
(* is deleted when it is found.                                             *)
DeleteMaterial(e, package) ==
    packages' = [packages EXCEPT ![e] = @ \ {package}]

(* find_and_validate_vc_own_leaf: the leaf with the key derived from the    *)
(* retained material must carry its coordinates.                            *)
OwnLeafFound(e, c) ==
    LET up == uploads[c.package[1]] IN
    /\ c.key = PackageKey(up.ep, up.leaf, up.generation, c.package[2])
    /\ c.info.epoch_id = up.ep
    /\ Decrypts(e, c)
    /\ c.info.tbe = Tbe(up.leaf, up.generation, c.package[2], FALSE)

(* ProcessedWelcome::new_from_welcome, into_staged_welcome: the material is *)
(* deleted before anything is checked.  A group that is still stored, a     *)
(* ratchet tree that is missing or does not fit (~valid) and the own leaf   *)
(* of a sibling's key package can refuse the Welcome after that, and a      *)
(* second try finds no key package.                                         *)
StageWelcome(e, g, valid) ==
    LET i   == LastLeaf(g, Len(log[g]))
        c   == log[g][i]
        up  == uploads[c.package[1]]
        key == PackageKey(up.ep, up.leaf, up.generation, c.package[2])
    IN  /\ i > 0 /\ c.kind = "add"
        /\ staged[e] = None
        /\ building[e] # None => building[e].group # g
        /\ c.package \in packages[e]
        /\ DeleteMaterial(e, c.package)
        /\ IF valid /\ members[e][g].pos = 0 /\ (up.leaf # e => OwnLeafFound(e, c))
           THEN /\ staged' = [staged EXCEPT ![e] =
                                [kind |-> "welcome", group |-> g, pos |-> i, ep |-> 0, key |-> key]]
                /\ UNCHANGED lost
           ELSE /\ lost' = [lost EXCEPT ![e] = @ \union {<<g, i>>}]
                /\ UNCHANGED staged
        /\ UNCHANGED <<emulation, epochs, trees, building, batch, members, handled, log, uploads,
                       sent, crashes>>

-----------------------------------------------------------------------------
Next ==
    \/ \E e \in Emulators :
        \/ Crash(e) \/ NextEmulationEpoch(e) \/ Register(e)
        \/ \E k \in 1..3 : RegisterTorn(e, k)
        \/ BuildCommit(e) \/ DropCommit(e) \/ MergeStaged(e)
        \/ FinalizeBatch(e) \/ FinalizeTorn(e) \/ DropBatch(e)
        \/ \E ep \in epochs[e] : NewBatch(e, ep)
        \/ \E u \in DOMAIN uploads : ProcessUpload(e, u)
        \/ \E g \in Groups :
            \/ \E ep \in epochs[e] :
                \/ \E kind \in {"commit", "external"} : VcEmulation(e, g, ep, kind)
                \/ \E done \in BOOLEAN : CreateGroup(e, g, ep, done)
            \/ ProcessOwn(e, g) \/ ProcessOther(e, g) \/ ProcessRemoval(e, g)
            \/ ProcessSibling(e, g) \/ JoinAtCreation(e, g)
            \/ \E valid \in BOOLEAN : StageWelcome(e, g, valid)
            \/ \E i \in DOMAIN log[g] : JoinExternal(e, g, i)
    \/ \E g \in Groups :
        \/ \E kind \in {"other", "remove"} : OtherCommits(g, kind)
        \/ \E u \in DOMAIN uploads, index \in 0..(BatchSize - 1) : OtherAdds(g, u, index)

Spec == Init /\ [][Next /\ UNCHANGED plan]_vars

-----------------------------------------------------------------------------
(* Properties                                                               *)

(* Whatever is dropped, rejected by the delivery service or lost in a crash *)
(* between two writes, no two operations ever leave the clients under the   *)
(* secret of the same emulation epoch, leaf, type and generation            *)
(* (OperationSecretTree::next_operation_secret and its callers).            *)
OperationSecretsOnce == \A c \in DOMAIN sent : sent[c] = 1

(* The generations a receiver can still be asked for: those the tolerance   *)
(* keeps, counted from its ratchet's head, and those within the forward     *)
(* distance.                                                                *)
InWindow(tree, leaf, type, n) ==
    LET next == tree[<<leaf, type>>].next IN
    n >= next - 1 - Tolerance /\ n <= next + MaxForward

(* An emulator that is a member of a group and holds the emulation epoch    *)
(* can always take its sibling's next commit, and an upload it has not seen *)
(* yet, in whatever order commits of several groups and uploads reach it    *)
(* and whatever generations were burned, unless a crash took the commit     *)
(* after its secret was consumed (load_vc_commit_material persists before   *)
(* staging).                                                                *)
SiblingsFollow ==
    \A e \in Emulators :
      /\ \A g \in Groups :
           LET c == NextEntry(e, g)
               t == trees[e][c.info.epoch_id]
           IN  ( /\ members[e][g].pos \in 1..(Len(log[g]) - 1)
                 /\ IsSiblingCommit(c) /\ c # members[e][g].pending
                 /\ Loadable(e, c.info.epoch_id)
                 /\ <<g, members[e][g].pos + 1>> \notin lost[e]
                 /\ staged[e] = None
                 /\ InWindow(t, c.info.tbe.leaf, "leaf_node", c.info.tbe.generation) )
               => CanLoadMaterial(e, c, "leaf_node") /\ CanStage(c, g)
      /\ \A u \in DOMAIN uploads \ handled[e] :
           LET up == uploads[u] IN
           ( /\ up.leaf # e /\ Loadable(e, up.ep)
             /\ InWindow(trees[e][up.ep], up.leaf, "key_package", up.generation) )
           => CanDerive(trees[e][up.ep], up.leaf, "key_package", up.generation)

(* vc_emulation_state_at_epoch, the reuse guard and the generation id of a  *)
(* message.                                                                 *)
ReuseGuard(ep, leaf)     == Term("ff1", leaf, <<ReuseGuardSecret(ep)>>)
GenerationId(ep, g, n)   == Expand(GenerationIdSecret(ep), "generation id", <<Name(g), Index(n)>>)
EmulatorSender(ep, guard) == IF guard.args = <<ReuseGuardSecret(ep)>> THEN guard.n ELSE -1

KeptEpochs(e, g) == Max({members[e][g].since, members[e][g].pos - MaxPast})..members[e][g].pos

(* The emulation epoch of the virtual client's leaf at an epoch of a group; *)
(* 0 while the leaf is that of a key package, which binds nothing.          *)
LeafEpoch(g, n) ==
    LET c == log[g][LastLeaf(g, n)] IN IF c.kind = "add" THEN 0 ELSE c.info.epoch_id

(* In every epoch whose message secrets it keeps an emulator knows the      *)
(* emulation epoch the virtual client's leaf comes from, and its state is   *)
(* stored: a message of a sibling is attributed to that sibling even after  *)
(* later commits, and a collision of generations shows as equal generation  *)
(* ids (VcEmulationBindings, MlsGroup::encrypt, merge_staged_commit).       *)
MessagesAttributed ==
    \A e, f \in Emulators, g \in Groups :
      (members[e][g].pos > 0 /\ members[f][g].pos > 0) =>
        \A n \in KeptEpochs(e, g) \intersect KeptEpochs(f, g) :
          LET own == BindingAt(members[e][g].bindings, n)
              sib == BindingAt(members[f][g].bindings, n)
          IN  LeafEpoch(g, n) > 0 => /\ own \in epochs[e]
                                     /\ EmulatorSender(sib, ReuseGuard(own, e)) = e
                                     /\ GenerationId(own, g, n) = GenerationId(sib, g, n)

(* An emulator that built or processed the upload of a key package holds    *)
(* what opens a Welcome for it, and finds its leaf there, however many      *)
(* other Welcomes of the same upload were taken or refused and in whatever  *)
(* order, unless this very Welcome was tried before and refused, or taken   *)
(* by a crash: the material is deleted before the Welcome is checked        *)
(* (keys_for_welcome, vc_welcome_material, find_and_validate_vc_own_leaf).  *)
WelcomesOpen ==
    \A e \in Emulators, g \in Groups :
      LET i == LastLeaf(g, Len(log[g]))
          c == log[g][i]
          u == c.package[1]
      IN  ( /\ i > 0 /\ c.kind = "add" /\ members[e][g].pos = 0 /\ staged[e] = None
            /\ uploads[u].leaf = e \/ u \in handled[e]
            /\ <<g, i>> \notin lost[e] )
          => /\ c.package \in packages[e]
             /\ uploads[u].leaf # e => OwnLeafFound(e, c)

=============================================================================
