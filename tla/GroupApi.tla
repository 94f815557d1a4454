------------------------------ MODULE GroupApi ------------------------------
(***************************************************************************)
(* The MlsGroup and PublicGroup API of OpenMLS over a storage provider:    *)
(* what a call changes in memory, what of it the call writes to storage,   *)
(* and what is left of the group when the process stops and load() reads   *)
(* it back.  Clients follow the log of a delivery service that takes the   *)
(* first commit of each epoch and refuses the others.                      *)
(*                                                                         *)
(* An epoch is known by the index in `commits` of the commit that led to   *)
(* it; two groups have the same secrets iff they have the same index.      *)
(* Providers do not open transactions (traits/src/storage.rs), so a call   *)
(* is taken to run in one of the application's: it is written as a whole,  *)
(* together with the messages it returns and the application's place in    *)
(* the log.  What a transaction spans beyond one call is in Crash.         *)
(***************************************************************************)
EXTENDS GroupCommits, FiniteSets

CONSTANTS
    Clients, Creator,
    Psks,               \* external PSKs, stored by every client
    Founders,           \* members of a group that has been set up
    Scenarios,          \* sets of calls that are explored together
    Faulty,             \* clients whose process may stop
    Components,         \* components a secret is exported for
    ReplaceOldGroup,    \* Welcomes are joined with replace_old_group()
    JoinerPsks,         \* number_of_resumption_psks of joiners
    MaxProposals,       \* bound: proposals sent on their own
    MaxCommits,         \* bound: commits created, the first epoch included
    MaxCrashes          \* bound: crashes

ASSUME FoundersOk == Creator \in Founders /\ Founders \subseteq Clients
ASSUME BoundsOk == {MaxProposals, MaxCommits, MaxCrashes, JoinerPsks} \subseteq Nat

VARIABLES
    calls,      \* the scenario: calls that the applications make
    props,      \* all proposals
    commits,    \* all commits [by, external, parent, refs, inline, path, roster, agree]
    log,        \* entries [type, id, at, by]
    mem,        \* the MlsGroup a client has in memory
    disk,       \* its storage [group, keys, leafKeys, keyPackage]
    staged,     \* log position of the entry processed and not yet merged, or 0
    cursor,     \* log entries a client is done with
    dropped,    \* history: proposals a client has dropped from its store or lost
    crashes,
    observer    \* [mem, disk, cursor] of a PublicGroup that follows the log

vars == <<calls, props, commits, log, mem, disk, staged, cursor, dropped, crashes, observer>>
global == <<props, commits, log>>
local == <<calls, crashes, observer>>

NoGroup == [state |-> "None"]
NoPublicGroup == [ctx |-> 0, queue |-> <<>>]

(* Wire format policy: handshake messages are sent as PrivateMessages. *)
Private == "Private" \in calls

Up(c) == mem[c] # NoGroup
Operational(c) == Up(c) /\ mem[c].state = "Operational"
Active(c) == Up(c) /\ mem[c].state # "Inactive"

Roster(id) == commits[id].roster
Accepted == {log[i].id : i \in {j \in 1..Len(log) : log[j].type = "commit"}} \cup {1}
Tip == CHOOSE id \in Accepted : \A other \in Accepted : commits[other].num <= commits[id].num
Position(id) == IF id = 1 THEN 0 ELSE CHOOSE i \in 1..Len(log) : log[i].type = "commit" /\ log[i].id = id

Entry(type, id, at, c) == [type |-> type, id |-> id, at |-> at, by |-> c]
Sent == Cardinality({i \in 1..Len(log) : log[i].type = "proposal"})
-----------------------------------------------------------------------------
(* ResumptionPskStore::add: a ring of s.max entries; the cursor counts the  *)
(* entries while it fills up, then it is advanced before it is used.        *)
PskStoreAdd(s, item) ==
    IF s.max = 0 THEN s
    ELSE IF Len(s.items) < s.max
         THEN [s EXCEPT !.items = Append(@, item), !.cursor = @ + 1]
         ELSE LET next == (s.cursor + 1) % Len(s.items)
              IN  [s EXCEPT !.items[next + 1] = item, !.cursor = next]

PskStore(max) == [max |-> max, items |-> <<>>, cursor |-> 0]

(* A fresh MlsGroup in epoch `id`.  `msg` is the message secrets store,     *)
(* `exporter` the ApplicationExportTree, `own` own_leaf_nodes.              *)
NewMlsGroup(id, num, psks) ==
    [state |-> "Operational", pending |-> 0, ctx |-> id, secrets |-> id,
     msg |-> [at |-> id, sent |-> 0, used |-> {}],
     exporter |-> [at |-> id, gone |-> {}],
     queue |-> <<>>, own |-> <<>>, config |-> 0,
     psks |-> PskStoreAdd(psks, <<num, id>>)]

(* Storage entries of a group: what the write_* functions of the provider   *)
(* write.  MlsGroup::store writes all but the queue and own_leaf_nodes.     *)
Fields == {"state", "pending", "ctx", "secrets", "msg", "exporter", "queue", "own", "config", "psks"}
GroupState == {"state", "pending"}
StoreFields == Fields \ {"queue", "own"}
MergeFields == {"ctx", "secrets", "msg", "exporter", "queue"}

Write(old, new, fields) ==
    IF old = NoGroup
    THEN [f \in Fields |-> IF f \in fields THEN new[f] ELSE <<>>]
    ELSE [f \in Fields |-> IF f \in fields THEN new[f] ELSE old[f]]

(* A call on the group of c that leads to `group` and writes `fields`. *)
Call(c, group, fields) ==
    /\ mem' = [mem EXCEPT ![c] = group]
    /\ disk' = [disk EXCEPT ![c].group = Write(@, group, fields)]

(* Storage after MlsGroup::delete: the key pairs deleted are those of the   *)
(* epoch that the group is in.                                              *)
DeletedGroup(c) == [disk[c] EXCEPT !.group = NoGroup, !.keys = @ \ {mem[c].ctx}]
-----------------------------------------------------------------------------
Storage(group, keys) == [group |-> group, keys |-> keys, leafKeys |-> {}, keyPackage |-> 0]

FirstCommit == [by |-> Creator, external |-> FALSE, parent |-> 0, num |-> 0, refs |-> {},
                inline |-> {}, path |-> FALSE, roster |-> {Creator}, agree |-> TRUE]

InitNothing ==
    /\ commits = <<>>
    /\ mem = [c \in Clients |-> NoGroup]
    /\ disk = [c \in Clients |-> Storage(NoGroup, {})]

(* The creator's group after the founders have joined, taken as its first   *)
(* epoch, and everything before it forgotten.                               *)
InitFounded ==
    /\ commits = <<[FirstCommit EXCEPT !.roster = Founders]>>
    /\ mem = [c \in Clients |->
                IF c \in Founders
                THEN NewMlsGroup(1, 0, PskStore(IF c = Creator THEN 32 ELSE JoinerPsks)) ELSE NoGroup]
    /\ disk = [c \in Clients |-> Storage(mem[c], IF c \in Founders THEN {1} ELSE {})]

Init ==
    /\ calls \in Scenarios
    /\ IF "NewGroup" \in calls THEN InitNothing ELSE InitFounded
    /\ props = <<>> /\ log = <<>>
    /\ staged = [c \in Clients |-> 0]
    /\ cursor = [c \in Clients |-> 0]
    /\ dropped = [c \in Clients |-> {}]
    /\ crashes = 0
    /\ observer = [mem |-> NoPublicGroup, disk |-> NoPublicGroup, cursor |-> 0]

(* MlsGroupBuilder::build: the group is stored, then its leaf key pair. *)
NewGroup(c) ==
    /\ c = Creator /\ commits = <<>>
    /\ disk[c].group = NoGroup
    /\ commits' = <<FirstCommit>>
    /\ LET group == NewMlsGroup(1, 0, PskStore(32))
       IN  /\ mem' = [mem EXCEPT ![c] = group]
           /\ disk' = [disk EXCEPT ![c].group = Write(@, group, StoreFields),
                                   ![c].keys = @ \cup {1}]
    /\ UNCHANGED <<props, log, staged, cursor, dropped, local>>

(* KeyPackageBuilder::build stores the bundle; the key package is published. *)
NewKeyPackage(c) ==
    /\ c # Creator /\ commits # <<>>
    /\ disk[c].keyPackage = 0
    /\ c \notin Roster(Tip)
    /\ disk' = [disk EXCEPT ![c].keyPackage = Len(commits)]
    /\ UNCHANGED <<global, mem, staged, cursor, dropped, local>>
-----------------------------------------------------------------------------
(* Own handshake messages: content_to_mls_message encrypts with the next    *)
(* generation and writes the message secrets, or frames a PublicMessage.    *)
Framed(group) == IF Private THEN [group EXCEPT !.msg.sent = @ + 1] ELSE group
FramedFields == IF Private THEN {"msg"} ELSE {}

NewProposal(c, kind, target) ==
    [kind |-> kind, by |-> c, target |-> target, at |-> mem[c].ctx,
     keyPackage |-> IF kind = "Add" THEN disk[target].keyPackage ELSE 0]

CanPropose(c, kind, target) ==
    \/ kind = "Add" /\ target \in Clients /\ disk[target].keyPackage # 0
    \/ kind = "Remove" /\ target \in Roster(mem[c].ctx)
    \/ kind = "Update" /\ target = c
    \/ kind = "SelfRemove" /\ target = c /\ ~Private
    \/ kind = "Psk" /\ target \in Psks
    \/ kind = "Gce" /\ target = c

(* MlsGroup::propose_self_update: the key pair of the new leaf and the leaf *)
(* are stored, then the proposal like any other.                            *)
ProposeUpdate(c) ==
    LET id == Len(props) + 1
        group == [Framed(mem[c]) EXCEPT !.queue = Append(@, id), !.own = Append(@, id)]
    IN  /\ mem' = [mem EXCEPT ![c] = group]
        /\ disk' = [disk EXCEPT ![c].group = Write(@, group, {"queue", "own"} \cup FramedFields),
                                ![c].leafKeys = @ \cup {id}]
        /\ props' = Append(props, NewProposal(c, "Update", c))
        /\ log' = Append(log, Entry("proposal", id, mem[c].ctx, c))

(* propose_add_member, propose_remove_member, propose_pre_shared_key,       *)
(* propose_group_context_extensions, leave_group and                        *)
(* leave_group_via_self_remove: queued in storage, then in memory, then     *)
(* framed.                                                                  *)
ProposeOther(c, kind, target) ==
    LET id == Len(props) + 1
        group == [Framed(mem[c]) EXCEPT !.queue = Append(@, id)]
    IN  /\ Call(c, group, {"queue"} \cup FramedFields)
        /\ props' = Append(props, NewProposal(c, kind, target))
        /\ log' = Append(log, Entry("proposal", id, mem[c].ctx, c))

InLine(c) == Up(c) /\ mem[c].ctx \in Accepted

Propose(c, kind, target) ==
    /\ Operational(c) /\ InLine(c)
    /\ Sent < MaxProposals
    /\ CanPropose(c, kind, target)
    /\ IF kind = "Update" THEN ProposeUpdate(c) ELSE ProposeOther(c, kind, target)
    /\ UNCHANGED <<commits, staged, cursor, dropped, local>>

(* ProposalStore::remove, of the entry at position i. *)
RemoveAt(queue, i) == SubSeq(queue, 1, i - 1) \o SubSeq(queue, i + 1, Len(queue))

(* MlsGroup::remove_pending_proposal for the proposal at position i: in     *)
(* storage, then in memory.                                                 *)
RemovePendingProposal(c, i) ==
    /\ Up(c)
    /\ i \in 1..Len(mem[c].queue)
    /\ Call(c, [mem[c] EXCEPT !.queue = RemoveAt(@, i)], {"queue"})
    /\ dropped' = [dropped EXCEPT ![c] = @ \cup {mem[c].queue[i]}]
    /\ UNCHANGED <<global, staged, cursor, local>>

(* MlsGroup::clear_pending_proposals. *)
ClearPendingProposals(c) ==
    /\ Up(c)
    /\ mem[c].queue # <<>>
    /\ Call(c, [mem[c] EXCEPT !.queue = <<>>], {"queue"})
    /\ dropped' = [dropped EXCEPT ![c] = @ \cup Elements(mem[c].queue)]
    /\ UNCHANGED <<global, staged, cursor, local>>
-----------------------------------------------------------------------------
(* CommitBuilder::build for a member: the queued proposals and then its own *)
(* are filtered, validated and applied; a path is computed if they need one *)
(* or if the caller asks for one.                                           *)
BuiltCommit(c, own, force) ==
    LET all == props \o own
        ids == [i \in 1..Len(own) |-> Len(props) + i]
        queue == mem[c].queue
        covered == FilterProposals(all, queue \o ids, c)
        roster == Roster(mem[c].ctx)
    IN  [valid |-> ValidProposals(all, covered, roster) /\ c \notin Leaving(all, covered),
         commit |-> [by |-> c, external |-> FALSE, parent |-> mem[c].ctx,
                     num |-> commits[mem[c].ctx].num + 1,
                     refs |-> covered \ Elements(ids), inline |-> covered \cap Elements(ids),
                     path |-> force \/ NeedsPath(all, covered) \/ OwnUpdates(all, queue, c),
                     roster |-> ApplyProposals(all, covered, roster),
                     agree |-> CommitterPsks(all, queue, ids) = ReceiverPsks(all, queue, ids)]]

(* CommitBuilder::stage_commit: the group is PendingCommit, in memory and   *)
(* in storage, before the commit is framed.                                 *)
StageCommit(c, id) ==
    Call(c, [Framed(mem[c]) EXCEPT !.state = "PendingCommit", !.pending = id],
         GroupState \cup FramedFields)

(* is_operational, build, stage_commit: the body of the calls below. *)
Commit(c, own, force) ==
    /\ Operational(c) /\ InLine(c)
    /\ Len(commits) < MaxCommits
    /\ LET built == BuiltCommit(c, own, force)
       IN  /\ built.valid
           /\ commits' = Append(commits, built.commit)
    /\ props' = props \o own
    /\ StageCommit(c, Len(commits) + 1)
    /\ UNCHANGED <<log, staged, cursor, dropped, local>>

CommitToPendingProposals(c) == Commit(c, <<>>, FALSE)

SelfUpdate(c) == Commit(c, <<>>, TRUE)

AddMembers(c, t, force) ==
    /\ Up(c) /\ disk[t].keyPackage # 0
    /\ Commit(c, <<NewProposal(c, "Add", t)>>, force)

RemoveMembers(c, t) ==
    /\ Up(c) /\ t \in Roster(mem[c].ctx)
    /\ Commit(c, <<NewProposal(c, "Remove", t)>>, FALSE)

SwapMembers(c, t, u) ==
    /\ Up(c) /\ t \in Roster(mem[c].ctx) /\ disk[u].keyPackage # 0
    /\ Commit(c, <<NewProposal(c, "Remove", t), NewProposal(c, "Add", u)>>, FALSE)

UpdateGroupContextExtensions(c) == Up(c) /\ Commit(c, <<NewProposal(c, "Gce", c)>>, FALSE)

(* The commit builder with a PSK of its own. *)
CommitWithPsk(c, p) == Up(c) /\ Commit(c, <<NewProposal(c, "Psk", p)>>, FALSE)

(* The application hands its pending commit to the delivery service, which  *)
(* takes the first one of each epoch.                                       *)
Publish(c) ==
    /\ Up(c) /\ mem[c].state = "PendingCommit"
    /\ mem[c].pending \notin Accepted
    /\ mem[c].ctx = Tip
    /\ log' = Append(log, Entry("commit", mem[c].pending, mem[c].ctx, c))
    /\ UNCHANGED <<props, commits, mem, disk, staged, cursor, dropped, local>>

(* MlsGroup::clear_pending_commit, which the application calls only for a   *)
(* commit that the group will not use.                                      *)
ClearPendingCommit(c) ==
    /\ Up(c) /\ mem[c].state = "PendingCommit"
    /\ mem[c].pending \notin Accepted
    /\ Call(c, [mem[c] EXCEPT !.state = "Operational", !.pending = 0], GroupState)
    /\ UNCHANGED <<global, staged, cursor, dropped, local>>
-----------------------------------------------------------------------------
(* MlsGroup::merge_commit and what merge_staged_commit does around it: the  *)
(* group in epoch `id`.  A client that the commit removes keeps all but its *)
(* public state; a pending commit and the own leaves are dropped.           *)
SelfRemoved(c, id) == c \in Leaving(props, commits[id].refs \cup commits[id].inline)

Merged(group, c, id) ==
    IF SelfRemoved(c, id)
    THEN [group EXCEPT !.state = "Inactive", !.pending = 0, !.ctx = id, !.own = <<>>,
                       !.psks = PskStoreAdd(@, <<commits[id].num, group.secrets>>)]
    ELSE [group EXCEPT !.state = "Operational", !.pending = 0, !.ctx = id, !.secrets = id,
                       !.msg = [at |-> id, sent |-> 0, used |-> {}],
                       !.exporter = [at |-> id, gone |-> {}],
                       !.queue = <<>>, !.own = <<>>,
                       !.psks = PskStoreAdd(@, <<commits[id].num, id>>)]

OwnUpdateIn(c, id) == {r \in commits[id].refs : props[r].kind = "Update" /\ props[r].by = c}

(* Mutants: the queue in storage outlives the epoch; the key pairs of the   *)
(* old epoch are kept.                                                      *)
MergeKeepsQueue(c, id) ==
    LET group == Merged(mem[c], c, id)
    IN  /\ mem' = [mem EXCEPT ![c] = group]
        /\ disk' = [disk EXCEPT
             ![c].group = Write(@, group, (Fields \ {"queue", "config"})),
             ![c].keys = IF group.state = "Inactive" THEN @ ELSE (@ \ {mem[c].ctx}) \cup {id},
             ![c].leafKeys = IF group.state = "Inactive" THEN @ ELSE @ \ OwnUpdateIn(c, id)]

MergeKeepsKeys(c, id) ==
    LET group == Merged(mem[c], c, id)
    IN  /\ mem' = [mem EXCEPT ![c] = group]
        /\ disk' = [disk EXCEPT
             ![c].group = Write(@, group, Fields \ {"config"}),
             ![c].keys = @ \cup {id},
             ![c].leafKeys = @ \ OwnUpdateIn(c, id)]

(* MlsGroup::merge_staged_commit.  A member's new epoch is written entry by *)
(* entry, its key pairs are stored under the new epoch, those of the old    *)
(* one and of a committed own Update are deleted.  A client that was        *)
(* removed writes all of store() instead, and keeps its keys and queue.     *)
Merge(c, id) ==
    LET group == Merged(mem[c], c, id)
        gone == group.state = "Inactive"
    IN  /\ mem' = [mem EXCEPT ![c] = group]
        /\ disk' = [disk EXCEPT
             ![c].group = Write(@, group, GroupState \cup {"psks", "own"}
                                            \cup (IF gone THEN StoreFields ELSE MergeFields)),
             ![c].keys = IF gone THEN @ ELSE (@ \ {mem[c].ctx}) \cup {id},
             ![c].leafKeys = IF gone THEN @ ELSE @ \ OwnUpdateIn(c, id)]

Done(c) == cursor' = [cursor EXCEPT ![c] = @ + 1]
Incoming(c) == log[cursor[c] + 1]
HasNext(c) == Active(c) /\ InLine(c) /\ cursor[c] < Len(log) /\ staged[c] = 0

(* MlsGroup::merge_pending_commit, when the own commit comes back:          *)
(* process_message answers OwnPendingCommit (PublicMessage), or the         *)
(* application knows from the delivery service (own PrivateMessage).        *)
MergePendingCommit(c) ==
    /\ HasNext(c)
    /\ Incoming(c).type = "commit"
    /\ mem[c].state = "PendingCommit" /\ mem[c].pending = Incoming(c).id
    /\ Merge(c, Incoming(c).id)
    /\ Done(c)
    /\ UNCHANGED <<global, staged, dropped, local>>

(* MlsGroup::process_message on the own proposals, on messages of other     *)
(* epochs, and on a PrivateMessage whose key is gone: own ones cannot be    *)
(* decrypted or are ignored, the others fail (WrongEpoch, SecretReuse       *)
(* error); nothing changes and the application goes on.                     *)
SkipMessage(c) ==
    /\ HasNext(c)
    /\ \/ Incoming(c).type = "proposal" /\ Incoming(c).by = c
       \/ Incoming(c).at # mem[c].ctx
       \/ cursor[c] + 1 \in mem[c].msg.used
    /\ Done(c)
    /\ UNCHANGED <<global, mem, disk, staged, dropped, local>>

(* Mutant: a commit is refused while an own one is pending. *)
CanStageOperational(c, id) ==
    /\ Operational(c)
    /\ commits[id].refs \subseteq Elements(mem[c].queue)
    /\ commits[id].by # c

(* MlsGroup::stage_commit, with ProposalQueue::from_committed_proposals:    *)
(* all references are in the store; an own commit that is not the pending   *)
(* one is refused (OwnCommitMismatch, or an own PrivateMessage); the path   *)
(* is decrypted with the key pairs of the epoch, or of the own leaf that an *)
(* Update in it replaces; the confirmation tag compares the secrets.        *)
CanStage(c, id) ==
    /\ commits[id].refs \subseteq Elements(mem[c].queue)
    /\ commits[id].by # c
    /\ ValidProposals(props, commits[id].refs \cup commits[id].inline, Roster(mem[c].ctx))
    /\ commits[id].external => ValidExternal(props, commits[id].inline, commits[id].refs)
    /\ SelfRemoved(c, id) \/ ~commits[id].path
         \/ /\ mem[c].ctx \in disk[c].keys
            /\ OwnUpdateIn(c, id) \subseteq Elements(mem[c].own) \cap disk[c].leafKeys
    /\ SelfRemoved(c, id) \/ commits[id].agree

(* unprotect_message: a PrivateMessage consumes its key, which is written   *)
(* before the content is looked at; no key is found a second time.          *)
Encrypted(position) == Private /\ ~(log[position].type = "commit" /\ commits[log[position].id].external)
Unprotect(c, position) ==
    IF Encrypted(position)
    THEN /\ position \notin mem[c].msg.used
         /\ Call(c, [mem[c] EXCEPT !.msg.used = @ \cup {position}], {"msg"})
    ELSE UNCHANGED <<mem, disk>>

(* process_message on a message of another client in the current epoch: a   *)
(* QueuedProposal or a StagedCommit, in memory only.                        *)
ProcessMessage(c) ==
    /\ HasNext(c)
    /\ Incoming(c).at = mem[c].ctx
    /\ \/ Incoming(c).type = "proposal" /\ Incoming(c).by # c
       \/ /\ Incoming(c).type = "commit" /\ Incoming(c).id # mem[c].pending
          /\ CanStage(c, Incoming(c).id)
    /\ Unprotect(c, cursor[c] + 1)
    /\ staged' = [staged EXCEPT ![c] = cursor[c] + 1]
    /\ UNCHANGED <<global, cursor, dropped, local>>

(* MlsGroup::store_pending_proposal. *)
StorePendingProposal(c) ==
    /\ Up(c) /\ staged[c] # 0
    /\ log[staged[c]].type = "proposal"
    /\ Call(c, [mem[c] EXCEPT !.queue = Append(@, log[staged[c]].id)], {"queue"})
    /\ staged' = [staged EXCEPT ![c] = 0]
    /\ Done(c)
    /\ UNCHANGED <<global, dropped, local>>

(* MlsGroup::merge_staged_commit on a received commit. *)
MergeStagedCommit(c) ==
    /\ Up(c) /\ staged[c] # 0
    /\ log[staged[c]].type = "commit"
    /\ Merge(c, log[staged[c]].id)
    /\ staged' = [staged EXCEPT ![c] = 0]
    /\ Done(c)
    /\ UNCHANGED <<global, dropped, local>>
-----------------------------------------------------------------------------
Covers(id) == commits[id].refs \cup commits[id].inline
Invited(c, id) ==
    \E r \in OfKind(props, Covers(id), "Add") :
        props[r].target = c /\ props[r].keyPackage = disk[c].keyPackage

(* keys_for_welcome deletes the key package; StagedWelcome::into_group      *)
(* stores the key pairs and then the group.                                 *)
IntoGroup(c, id) ==
    LET group == NewMlsGroup(id, commits[id].num, PskStore(JoinerPsks))
    IN  /\ mem' = [mem EXCEPT ![c] = group]
        /\ disk' = [disk EXCEPT ![c].keyPackage = 0,
                                ![c].keys = @ \cup {id},
                                ![c].group = Write(@, group, StoreFields)]

(* The Welcome of an accepted commit.  Without replace_old_group it is      *)
(* refused while the storage has the group (GroupAlreadyExists).            *)
JoinFromWelcome(c) ==
    \E id \in Accepted :
        /\ disk[c].keyPackage # 0 /\ Invited(c, id)
        /\ commits[id].agree
        /\ disk[c].group = NoGroup \/ (ReplaceOldGroup /\ (Up(c) => ~Active(c)))
        /\ IntoGroup(c, id)
        /\ cursor' = [cursor EXCEPT ![c] = Position(id)]
        /\ staged' = [staged EXCEPT ![c] = 0]
        /\ UNCHANGED <<global, dropped, local>>

(* ExternalCommitBuilder::build_group: an ExternalInit, the Remove of an    *)
(* old leaf with the own signature key, and the SelfRemoves sent so far.    *)
ExternalProposals(c, base) ==
    <<[kind |-> "ExternalInit", by |-> c, target |-> c, at |-> base, keyPackage |-> 0]>>
      \o (IF c \in Roster(base) THEN <<[kind |-> "Remove", by |-> c, target |-> c, at |-> base, keyPackage |-> 0]>>
          ELSE <<>>)

SelfRemovesAt(base) ==
    {i \in 1..Len(log) : log[i].type = "proposal" /\ log[i].at = base
                            /\ props[log[i].id].kind = "SelfRemove"}

ExternalCommitOf(c, base) ==
    LET all == props \o ExternalProposals(c, base)
        ids == (Len(props) + 1)..Len(all)
        queue == [i \in SelfRemovesAt(base) \cup {Len(log) + r : r \in ids} |->
                    IF i <= Len(log) THEN log[i].id ELSE i - Len(log)]
        covered == FilterProposals(all, queue, c)
    IN  [by |-> c, external |-> TRUE, parent |-> base, num |-> commits[base].num + 1,
         refs |-> covered \ ids, inline |-> covered \cap ids, path |-> TRUE,
         roster |-> ApplyProposals(all, covered, Roster(base)) \cup {c}, agree |-> TRUE]

(* CommitBuilder::finalize: the group is stored in the old epoch with stub  *)
(* secrets and without exporter, and merged at once; merging also clears    *)
(* what the storage has of an older group: its queue and own leaves.        *)
Finalize(c, base, id) ==
    LET group == [NewMlsGroup(id, commits[base].num + 1, PskStore(32)) EXCEPT !.queue = <<>>]
    IN  /\ mem' = [mem EXCEPT ![c] = group]
        /\ disk' = [disk EXCEPT ![c].group = Write(@, group, StoreFields \cup MergeFields \cup {"own"}),
                                ![c].keys = (@ \ {base}) \cup {id}]

(* An external commit from the group info of epoch `base`: a client joins,  *)
(* or a member that is not in line with its group any more joins again.     *)
(* The delivery service takes it if `base` is still current.                *)
ExternalCommit(c, base) ==
    /\ base \in Accepted /\ Len(commits) < MaxCommits
    /\ ~Up(c) \/ mem[c].state = "Inactive"
    /\ disk[c].group = NoGroup \/ disk[c].group.state = "Inactive" \/ ReplaceOldGroup
    /\ LET commit == ExternalCommitOf(c, base)
           id == Len(commits) + 1
       IN  /\ ValidExternal(props \o ExternalProposals(c, base), commit.inline, commit.refs)
           /\ commits' = Append(commits, commit)
           /\ Finalize(c, base, id)
           /\ log' = IF base = Tip THEN Append(log, Entry("commit", id, base, c)) ELSE log
           /\ cursor' = [cursor EXCEPT ![c] = Len(log')]
    /\ props' = props \o ExternalProposals(c, base)
    /\ staged' = [staged EXCEPT ![c] = 0]
    /\ UNCHANGED <<dropped, local>>

(* MlsGroup::delete, of a group the client was removed from or of one whose *)
(* external commit was refused.  It deletes the key pairs of the epoch that *)
(* the group is in, and leaves the keys of own Updates.                     *)
Delete(c) ==
    /\ Up(c)
    /\ mem[c].state = "Inactive" \/ ~InLine(c)
    /\ disk' = [disk EXCEPT ![c] = DeletedGroup(c)]
    /\ mem' = [mem EXCEPT ![c] = NoGroup]
    /\ UNCHANGED <<global, staged, cursor, dropped, local>>
-----------------------------------------------------------------------------
(* MlsGroup::safe_export_secret: each component once per epoch. *)
SafeExportSecret(c, component) ==
    /\ Active(c)
    /\ component \notin mem[c].exporter.gone
    /\ Call(c, [mem[c] EXCEPT !.exporter.gone = @ \cup {component}], {"exporter"})
    /\ UNCHANGED <<global, staged, cursor, dropped, local>>

(* MlsGroup::set_configuration. *)
SetConfiguration(c) ==
    /\ Up(c)
    /\ mem[c].config = 0
    /\ Call(c, [mem[c] EXCEPT !.config = 1], {"config"})
    /\ UNCHANGED <<global, staged, cursor, dropped, local>>

(* The process stops between two calls.  What was processed and not yet     *)
(* stored or merged is read again, except from a PrivateMessage, the key of *)
(* which is gone.                                                           *)
Lost(c) ==
    {log[i].id : i \in {j \in {staged[c]} \ {0} : Encrypted(j) /\ log[j].type = "proposal"}}

Crash(c) ==
    /\ c \in Faulty /\ Up(c) /\ crashes < MaxCrashes
    /\ crashes' = crashes + 1
    /\ dropped' = [dropped EXCEPT ![c] = @ \cup Lost(c)]
    /\ mem' = [mem EXCEPT ![c] = NoGroup]
    /\ staged' = [staged EXCEPT ![c] = 0]
    /\ UNCHANGED <<calls, global, disk, cursor, observer>>

(* MlsGroup::load, with PublicGroup::load. *)
Load(c) ==
    /\ ~Up(c) /\ disk[c].group # NoGroup
    /\ mem' = [mem EXCEPT ![c] = disk[c].group]
    /\ UNCHANGED <<global, disk, staged, cursor, dropped, local>>
-----------------------------------------------------------------------------
ObserverStep(next) ==
    /\ observer' = next
    /\ UNCHANGED <<calls, global, mem, disk, staged, cursor, dropped, crashes>>

ObserverNext == log[observer.cursor + 1]
Observing == observer.mem # NoPublicGroup /\ observer.cursor < Len(log)

(* PublicGroup::from_external with the group info and tree of the current   *)
(* epoch and an empty proposal store (store() would not write one that is   *)
(* handed in), to be filled from the log.  It follows PublicMessages only.  *)
FromExternal ==
    /\ "Observe" \in calls /\ ~Private /\ commits # <<>>
    /\ observer.mem = NoPublicGroup /\ observer.disk = NoPublicGroup
    /\ ObserverStep([mem |-> [ctx |-> Tip, queue |-> <<>>],
                     disk |-> [ctx |-> Tip, queue |-> <<>>], cursor |-> Position(Tip)])

(* PublicGroup::process_message and add_proposal. *)
ObserveProposal ==
    /\ Observing /\ ObserverNext.type = "proposal"
    /\ LET queue == IF ObserverNext.at = observer.mem.ctx
                    THEN Append(observer.mem.queue, ObserverNext.id) ELSE observer.mem.queue
       IN  ObserverStep([observer EXCEPT !.mem.queue = queue, !.disk.queue = queue, !.cursor = @ + 1])

(* PublicGroup::merge_commit: the queue is emptied in memory and in         *)
(* storage, then the new public state is stored.                            *)
ObserverMerge(id) ==
    [observer EXCEPT !.mem = [ctx |-> id, queue |-> <<>>],
                     !.disk = [ctx |-> id, queue |-> <<>>], !.cursor = @ + 1]

(* PublicGroup::process_message, stage_commit and merge_commit. *)
ObserveCommit ==
    /\ Observing /\ ObserverNext.type = "commit"
    /\ ObserverNext.at = observer.mem.ctx
    /\ commits[ObserverNext.id].refs \subseteq Elements(observer.mem.queue)
    /\ ObserverStep(ObserverMerge(ObserverNext.id))

ObserverCrash ==
    /\ observer.mem # NoPublicGroup /\ crashes < MaxCrashes
    /\ observer' = [observer EXCEPT !.mem = NoPublicGroup]
    /\ crashes' = crashes + 1
    /\ UNCHANGED <<calls, global, mem, disk, staged, cursor, dropped>>

(* PublicGroup::load. *)
ObserverLoad ==
    /\ observer.mem = NoPublicGroup /\ observer.disk # NoPublicGroup
    /\ ObserverStep([observer EXCEPT !.mem = observer.disk])
-----------------------------------------------------------------------------
Subjects == Clients \cup Psks

Reads(c) ==
    \/ MergePendingCommit(c) \/ SkipMessage(c) \/ ProcessMessage(c)
    \/ StorePendingProposal(c) \/ MergeStagedCommit(c)

ProposalKinds == {"Add", "Remove", "Update", "SelfRemove", "Psk", "Gce"}

Calls(c) ==
    \/ "NewGroup" \in calls /\ NewGroup(c)
    \/ "NewKeyPackage" \in calls /\ NewKeyPackage(c)
    \/ \E kind \in ProposalKinds \cap calls : \E t \in Subjects : Propose(c, kind, t)
    \/ "Drop" \in calls /\ Up(c) /\ \E i \in 1..Len(mem[c].queue) : RemovePendingProposal(c, i)
    \/ "Drop" \in calls /\ ClearPendingProposals(c)
    \/ CommitToPendingProposals(c)
    \/ "SelfUpdate" \in calls /\ SelfUpdate(c)
    \/ "AddMembers" \in calls /\ \E t \in Clients : \E force \in BOOLEAN : AddMembers(c, t, force)
    \/ "RemoveMembers" \in calls /\ \E t \in Clients : RemoveMembers(c, t)
    \/ "SwapMembers" \in calls /\ \E t, u \in Clients : SwapMembers(c, t, u)
    \/ "UpdateExtensions" \in calls /\ UpdateGroupContextExtensions(c)
    \/ "CommitWithPsk" \in calls /\ \E p \in Psks : CommitWithPsk(c, p)
    \/ Publish(c) \/ ClearPendingCommit(c)
    \/ commits # <<>> /\ JoinFromWelcome(c)
    \/ "ExternalCommit" \in calls /\ \E base \in Accepted : ExternalCommit(c, base)
    \/ Delete(c)
    \/ "Export" \in calls /\ \E component \in Components : SafeExportSecret(c, component)
    \/ "Configure" \in calls /\ SetConfiguration(c)

Observer == FromExternal \/ ObserveProposal \/ ObserveCommit \/ ObserverCrash \/ ObserverLoad

Next ==
    \/ \E c \in Clients : Reads(c) \/ Calls(c) \/ Crash(c) \/ Load(c)
    \/ Observer

Spec == Init /\ [][Next]_vars

(* Applications load their groups after a restart, read their log, and      *)
(* merge or store what they have read.                                      *)
Fairness ==
    /\ \A c \in Clients : WF_vars(Reads(c)) /\ WF_vars(Load(c))
    /\ WF_vars(ObserveProposal) /\ WF_vars(ObserveCommit) /\ WF_vars(ObserverLoad)

FairSpec == Spec /\ Fairness
-----------------------------------------------------------------------------
(* At any point between two calls the storage holds the group: load() gives *)
(* back the proposals, the pending commit, the own leaves, the secrets and  *)
(* the configuration that are in memory (only AAD is not kept), for members *)
(* and for observers.                                                       *)
LoadRestores ==
    /\ \A c \in Clients : Up(c) => disk[c].group = mem[c]
    /\ observer.mem # NoPublicGroup => observer.disk = observer.mem

LeftAfter(c, k) == \E id \in Accepted : commits[id].parent = k /\ SelfRemoved(c, id)

(* A member in line with its group holds the encryption key pairs of its    *)
(* epoch, and, as long as it never left the group, of no other epoch: older *)
(* ones are deleted when a commit is merged.                                *)
KeysFollowEpoch ==
    \A c \in Clients :
        Active(c) =>
            /\ mem[c].ctx \in disk[c].keys
            /\ \A k \in disk[c].keys : k = mem[c].ctx \/ LeftAfter(c, k)

(* The commit that the log has for the epoch of c is out of its reach:      *)
(*  - it refers to a proposal that c dropped, or read and lost in a crash;  *)
(*  - c read it from a PrivateMessage and crashed before it merged it;      *)
(*  - its committer loaded the PSKs in another order than the receivers do. *)
LeftBehind(c) ==
    \E i \in 1..Len(log) :
        /\ log[i].type = "commit" /\ log[i].at = mem[c].ctx
        /\ \/ commits[log[i].id].refs \cap dropped[c] # {}
           \/ i \in mem[c].msg.used /\ i # staged[c]
           \/ ~commits[log[i].id].agree

(* In spite of crashes, refused commits and joins from outside a member     *)
(* reaches the last epoch of the log or learns that it was removed, unless  *)
(* the next commit was put out of its reach in one of the three ways above; *)
(* an observer always does.                                                 *)
EventuallyCurrent ==
    /\ \A c \in Clients :
         <>[](InLine(c) /\ Active(c) => mem[c].ctx = Tip \/ LeftBehind(c))
    /\ <>[](observer.mem # NoPublicGroup => observer.mem.ctx = Tip)
=============================================================================
