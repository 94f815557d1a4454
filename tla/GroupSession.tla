---------------------------- MODULE GroupSession ----------------------------
(***************************************************************************)
(* One MLS group, the clients that use it through the mls-ts facade        *)
(* (src/client.ts over openmls-wasm), and the delivery service's log       *)
(* between them.                                                           *)
(*                                                                         *)
(* A facade call is synchronous: propose, commit and merge_pending_commit  *)
(* happen in one step, before anything is published.  The messages a call  *)
(* returns are queued in the client's outbox and published in order; log   *)
(* entries reach the members in log order (Ordered), or in any order and   *)
(* more than once, as they do when polling and pushed events are mixed.    *)
(*                                                                         *)
(* Secrets are modelled by what they allow.  An epoch is an index in       *)
(* `epochs`, the tree of all commits ever made: two clients share the      *)
(* secrets of an epoch iff they have the same index, while the epoch       *)
(* number in a message header is only the depth in that tree.  A message   *)
(* [type, from, at, id] is encrypted under epoch `at`.                     *)
(***************************************************************************)
EXTENDS MlsGroup, DeliveryOps, FiniteSets

CONSTANTS
    Clients,        \* the clients, each with its own identity
    Founders,       \* members of the group in its first epoch
    Ordered,        \* members read the log in order, each entry once
    MaxProposals,   \* bound: proposals made
    MaxEpochs,      \* bound: epochs, the first one included
    MaxMessages     \* bound: application messages sent

ASSUME FoundersAreClients == Founders \subseteq Clients
ASSUME OrderedIsBoolean == Ordered \in BOOLEAN
ASSUME BoundsAreNat == MaxProposals \in Nat /\ MaxEpochs \in Nat /\ MaxMessages \in Nat

VARIABLES
    state,      \* MlsGroup.group_state, "None" for a client without the group
    epoch,      \* epoch the client is in (GroupContext and epoch secrets)
    members,    \* members in the client's ratchet tree
    store,      \* ProposalStore
    used,       \* messages of the current epoch whose keys are consumed
    proposals,  \* all proposals made, indexed by ProposalRef
    epochs,     \* all epochs created, [by, parent, num, line, refs, members]
    sent,       \* number of application messages encrypted
    outbox,     \* messages a client has not published yet
    log,        \* the delivery service's log
    welcomes,   \* welcomes waiting for their joiners
    cursor      \* number of log entries a client has read (Ordered)

(* History: application messages decrypted, and who ever made a proposal or *)
(* a commit.                                                                *)
VARIABLES delivered, authors

groupVars == <<state, epoch, members, store, used>>
vars == <<groupVars, proposals, epochs, sent, outbox, log, welcomes, cursor,
          delivered, authors>>

Epochs == 1..Len(epochs)
Active(c) == state[c] = "Operational"

Message(type, from, at, id) == [type |-> type, from |-> from, at |-> at, id |-> id]

Proposal == [kind : {"Add", "Remove", "Update"}, sender : Clients, target : Clients, epoch : Nat]
MessageSet == [type : {"proposal", "commit", "application"}, from : Clients, at : Nat, id : Nat]
EpochSet == [by : Clients, parent : Nat, num : Nat, line : SUBSET Nat,
             refs : SUBSET Nat, members : SUBSET Clients]

TypeOK ==
    /\ state   \in [Clients -> {"None", "Operational", "Inactive"}]
    /\ epoch   \in [Clients -> Nat]
    /\ members \in [Clients -> SUBSET Clients]
    /\ store   \in [Clients -> Seq(Nat)]
    /\ used    \in [Clients -> SUBSET MessageSet]
    /\ proposals \in Seq(Proposal)
    /\ epochs  \in Seq(EpochSet)
    /\ sent    \in Nat
    /\ outbox  \in [Clients -> Seq(MessageSet)]
    /\ log     \in Seq([seq : Nat, message : MessageSet])
    /\ welcomes \in SUBSET [to : Clients, epoch : Nat]
    /\ cursor  \in [Clients -> Nat]
    /\ delivered \in SUBSET [to : Clients, message : MessageSet]
    /\ authors \in SUBSET Clients

(* A group that has been set up: createGroup by one founder, the others     *)
(* joined, and everything delivered.                                        *)
Init ==
    /\ state   = [c \in Clients |-> IF c \in Founders THEN "Operational" ELSE "None"]
    /\ epoch   = [c \in Clients |-> IF c \in Founders THEN 1 ELSE 0]
    /\ members = [c \in Clients |-> IF c \in Founders THEN Founders ELSE {}]
    /\ store   = [c \in Clients |-> <<>>]
    /\ used    = [c \in Clients |-> {}]
    /\ proposals = <<>>
    /\ \E f \in Founders :
         epochs = <<[by |-> f, parent |-> 0, num |-> 0, line |-> {1}, refs |-> {},
                     members |-> Founders]>>
    /\ sent = 0
    /\ outbox = [c \in Clients |-> <<>>]
    /\ log = <<>>
    /\ welcomes = {}
    /\ cursor = [c \in Clients |-> 0]
    /\ delivered = {}
    /\ authors = {}
-----------------------------------------------------------------------------
(* MlsGroup::propose_add_member, propose_remove_member, propose_self_update *)
(* and leave_group queue the new proposal in the sender's own store.        *)
NewProposal(c, kind, target) ==
    [kind |-> kind, sender |-> c, target |-> target, epoch |-> epoch[c]]

Propose(c, kind, target) ==
    /\ Active(c)
    /\ Len(proposals) < MaxProposals
    /\ proposals' = Append(proposals, NewProposal(c, kind, target))
    /\ authors' = authors \cup {c}

(* The messages a call returns go to the application, which posts them in   *)
(* order.  Where the order of the log does not matter they are taken as     *)
(* posted at once, for they may still be read as late as one likes.         *)
Distribute(c, messages) ==
    IF Ordered
    THEN /\ outbox' = [outbox EXCEPT ![c] = @ \o messages]
         /\ UNCHANGED log
    ELSE /\ log' = PublishAll(log, messages)
         /\ UNCHANGED outbox

ProposalMessage(c) == Message("proposal", c, epoch[c], Len(proposals) + 1)

(* Group.proposeAdd / proposeRemove / proposeUpdate / leave: the proposal   *)
(* alone, handed to the application to distribute.                          *)
ProposeOnly(c, kind, target) ==
    /\ Propose(c, kind, target)
    /\ store' = [store EXCEPT ![c] = Append(@, Len(proposals) + 1)]
    /\ Distribute(c, <<ProposalMessage(c)>>)
    /\ UNCHANGED <<state, epoch, members, used, epochs, sent, welcomes, cursor, delivered>>

ProposeAdd(c, t)    == ProposeOnly(c, "Add", t)
ProposeRemove(c, t) == t \in members[c] /\ ProposeOnly(c, "Remove", t)
ProposeUpdate(c)    == ProposeOnly(c, "Update", c)
Leave(c)            == ProposeOnly(c, "Remove", c)

(* Mutant: the commit is distributed ahead of its proposal. *)
CommitBeforeProposal(c, props, q, first) ==
    LET S   == FilterProposals(props, q, c)
        new == ApplyProposals(props, S, members[c])
        e   == Len(epochs) + 1
    IN  /\ Len(epochs) < MaxEpochs
        /\ CanCommit(props, S, members[c], c)
        /\ epochs' = Append(epochs,
              [by |-> c, parent |-> epoch[c], num |-> epochs[epoch[c]].num + 1,
               line |-> epochs[epoch[c]].line \cup {e}, refs |-> S, members |-> new])
        /\ epoch'   = [epoch EXCEPT ![c] = e]
        /\ members' = [members EXCEPT ![c] = new]
        /\ store'   = [store EXCEPT ![c] = <<>>]
        /\ used'    = [used EXCEPT ![c] = {}]
        /\ Distribute(c, <<Message("commit", c, epoch[c], e)>> \o first)
        /\ welcomes' = welcomes \cup {[to |-> t, epoch |-> e] : t \in Added(props, S)}
        /\ UNCHANGED <<state, sent, cursor, delivered>>

(* MlsGroup::commit_to_pending_proposals over the queue q, followed by      *)
(* merge_pending_commit: the client is in the new epoch before any other    *)
(* member, or the delivery service, has heard of the commit.  The messages  *)
(* `first` of the same call are distributed before the commit.              *)
CommitAndMerge(c, props, q, first) ==
    LET S   == FilterProposals(props, q, c)
        new == ApplyProposals(props, S, members[c])
        e   == Len(epochs) + 1
    IN  /\ Len(epochs) < MaxEpochs
        /\ CanCommit(props, S, members[c], c)
        /\ epochs' = Append(epochs,
              [by |-> c, parent |-> epoch[c], num |-> epochs[epoch[c]].num + 1,
               line |-> epochs[epoch[c]].line \cup {e}, refs |-> S, members |-> new])
        /\ epoch'   = [epoch EXCEPT ![c] = e]
        /\ members' = [members EXCEPT ![c] = new]
        /\ store'   = [store EXCEPT ![c] = <<>>]
        /\ used'    = [used EXCEPT ![c] = {}]
        /\ Distribute(c, Append(first, Message("commit", c, epoch[c], e)))
        /\ welcomes' = welcomes \cup {[to |-> t, epoch |-> e] : t \in Added(props, S)}
        /\ UNCHANGED <<state, sent, cursor, delivered>>

(* Group.commit *)
Commit(c) ==
    /\ Active(c)
    /\ CommitAndMerge(c, proposals, store[c], <<>>)
    /\ authors' = authors \cup {c}
    /\ UNCHANGED proposals

(* Group.add / remove / update: propose_and_commit_*, then merge.  When the *)
(* commit is refused the call throws after the proposal was queued: the     *)
(* proposal stays in the store, and its message is lost with the exception. *)
ProposeAndCommit(c, kind, target) ==
    LET props == Append(proposals, NewProposal(c, kind, target))
        q     == Append(store[c], Len(proposals) + 1)
    IN  /\ Propose(c, kind, target)
        /\ \/ CommitAndMerge(c, props, q, <<ProposalMessage(c)>>)
           \/ /\ ~CanCommit(props, FilterProposals(props, q, c), members[c], c)
              /\ store' = [store EXCEPT ![c] = q]
              /\ UNCHANGED <<state, epoch, members, used, epochs, sent, outbox, log,
                             welcomes, cursor, delivered>>

Add(c, t)    == ProposeAndCommit(c, "Add", t)
Remove(c, t) == t \in members[c] /\ ProposeAndCommit(c, "Remove", t)
Update(c)    == ProposeAndCommit(c, "Update", c)

(* Group.send: MlsGroup::create_message refuses while proposals are pending. *)
Send(c) ==
    /\ Active(c)
    /\ store[c] = <<>>
    /\ sent < MaxMessages
    /\ sent' = sent + 1
    /\ Distribute(c, <<Message("application", c, epoch[c], sent + 1)>>)
    /\ UNCHANGED <<groupVars, proposals, epochs, welcomes, cursor, delivered, authors>>

(* The application posts the oldest message it has not posted yet. *)
Publish(c) ==
    /\ outbox[c] # <<>>
    /\ log' = PublishTo(log, Head(outbox[c]))
    /\ outbox' = [outbox EXCEPT ![c] = Tail(@)]
    /\ UNCHANGED <<groupVars, proposals, epochs, sent, welcomes, cursor, delivered, authors>>
-----------------------------------------------------------------------------
(* Group.receive: process_message of openmls-wasm over MlsGroup.            *)

(* PublicGroup::validate_framing (ValSem003) and the secrets at hand.  With *)
(* max_past_epochs = 0 an application message of an earlier epoch number    *)
(* has no secrets left; one of the same number but another commit fails to  *)
(* decrypt.                                                                 *)
ValidFraming(c, m) ==
    IF m.type = "application" THEN epochs[m.at].num <= epochs[epoch[c]].num
                              ELSE epochs[m.at].num = epochs[epoch[c]].num

(* Mutant of HasSecrets: the epoch number of the header decides. *)
SameEpochNumber(c, m) == epochs[m.at].num = epochs[epoch[c]].num

HasSecrets(c, m) == m.at = epoch[c]

(* The message decrypts: it is not the client's own (those are skipped) and *)
(* its ratchet key was not consumed before (SecretReuseError).              *)
Decrypts(c, m) ==
    /\ Active(c)
    /\ ValidFraming(c, m) /\ HasSecrets(c, m)
    /\ m.from # c
    /\ m \notin used[c]

(* The next entry to read: the one after the cursor, or any. *)
Reads(c, i) ==
    /\ state[c] # "None"
    /\ i \in 1..Len(log)
    /\ IF Ordered THEN i = cursor[c] + 1 /\ cursor' = [cursor EXCEPT ![c] = i]
                  ELSE UNCHANGED cursor

(* Mutant of Consume: only the key used last is remembered. *)
ConsumeLast(c, m) == used' = [used EXCEPT ![c] = {m}]

(* Decryption consumes the message key, whatever is made of the content. *)
Consume(c, m) == used' = [used EXCEPT ![c] = @ \cup {m}]

(* Mutant of ReceiveProposal: the proposal is not stored. *)
ReceiveWithoutStoring(c, i) ==
    LET m == log[i].message IN
    /\ Reads(c, i)
    /\ Decrypts(c, m) /\ m.type = "proposal"
    /\ Consume(c, m)
    /\ UNCHANGED <<state, epoch, members, store, proposals, epochs, sent, outbox, log,
                   welcomes, delivered, authors>>

ReceiveProposal(c, i) ==
    LET m == log[i].message IN
    /\ Reads(c, i)
    /\ Decrypts(c, m) /\ m.type = "proposal"
    /\ Consume(c, m)
    /\ store' = [store EXCEPT ![c] = Append(@, m.id)]
    /\ UNCHANGED <<state, epoch, members, proposals, epochs, sent, outbox, log,
                   welcomes, delivered, authors>>

ReceiveApplication(c, i) ==
    LET m == log[i].message IN
    /\ Reads(c, i)
    /\ Decrypts(c, m) /\ m.type = "application"
    /\ Consume(c, m)
    /\ delivered' = delivered \cup {[to |-> c, message |-> m]}
    /\ UNCHANGED <<state, epoch, members, store, proposals, epochs, sent, outbox, log,
                   welcomes, authors>>

(* MlsGroup::stage_commit: every reference must be in the store             *)
(* (ProposalNotFound), the proposals must be valid against this client's    *)
(* tree, and the confirmation tag must match the resulting membership.  A   *)
(* client that the commit removes does not get to the tag.                  *)
Stages(c, e) ==
    LET S == epochs[e].refs IN
    /\ S \subseteq Queued(store[c])
    /\ CanCommit(proposals, S, members[c], epochs[e].by)
    /\ c \notin Removed(proposals, S) =>
         ApplyProposals(proposals, S, members[c]) = epochs[e].members

(* Mutant: own removal is not noticed. *)
MergeStagedStaysActive(c, m) ==
    /\ epoch'   = [epoch EXCEPT ![c] = m.id]
    /\ members' = [members EXCEPT ![c] = ApplyProposals(proposals, epochs[m.id].refs, @)]
    /\ store'   = [store EXCEPT ![c] = <<>>]
    /\ used'    = [used EXCEPT ![c] = {}]
    /\ UNCHANGED state

(* MlsGroup::merge_staged_commit: a client that the commit removes keeps    *)
(* the new public tree and the queued proposals, and is inactive for good;  *)
(* any other enters the new epoch with an empty store and fresh secrets.    *)
MergeStaged(c, m) ==
    LET e    == m.id
        gone == c \in Removed(proposals, epochs[e].refs)
    IN  /\ epoch'   = [epoch EXCEPT ![c] = e]
        /\ members' = [members EXCEPT ![c] = ApplyProposals(proposals, epochs[e].refs, @)]
        /\ state'   = [state EXCEPT ![c] = IF gone THEN "Inactive" ELSE @]
        /\ store'   = [store EXCEPT ![c] = IF gone THEN @ ELSE <<>>]
        /\ used'    = [used EXCEPT ![c] = IF gone THEN @ \cup {m} ELSE {}]

ReceiveCommit(c, i) ==
    LET m == log[i].message IN
    /\ Reads(c, i)
    /\ Decrypts(c, m) /\ m.type = "commit"
    /\ Stages(c, m.id)
    /\ MergeStaged(c, m)
    /\ UNCHANGED <<proposals, epochs, sent, outbox, log, welcomes, delivered, authors>>

(* The commit decrypts and is then refused: its key is gone all the same. *)
RefuseCommit(c, i) ==
    LET m == log[i].message IN
    /\ Reads(c, i)
    /\ Decrypts(c, m) /\ m.type = "commit"
    /\ ~Stages(c, m.id)
    /\ Consume(c, m)
    /\ UNCHANGED <<state, epoch, members, store, proposals, epochs, sent, outbox, log,
                   welcomes, delivered, authors>>

(* Every other entry is an error, or an own message that is skipped, and    *)
(* changes nothing; the client moves on.                                    *)
Skip(c, i) ==
    /\ Ordered
    /\ Reads(c, i)
    /\ ~Decrypts(c, log[i].message)
    /\ UNCHANGED <<groupVars, proposals, epochs, sent, outbox, log, welcomes, delivered, authors>>

(* MlsClient.joinGroup with a welcome from the inbox and the ratchet tree   *)
(* exported with it.  A client that has the group in its storage, even one  *)
(* that was removed from it, is refused (GroupAlreadyExists), and by then   *)
(* the welcome and the key package are gone.                                *)
Join(c, w) ==
    /\ w \in welcomes /\ w.to = c
    /\ welcomes' = welcomes \ {w}
    /\ \/ /\ state[c] = "None"
          /\ state'   = [state EXCEPT ![c] = "Operational"]
          /\ epoch'   = [epoch EXCEPT ![c] = w.epoch]
          /\ members' = [members EXCEPT ![c] = epochs[w.epoch].members]
          /\ UNCHANGED <<store, used>>
       \/ /\ state[c] # "None"
          /\ UNCHANGED groupVars
    /\ UNCHANGED <<proposals, epochs, sent, outbox, log, cursor, delivered, authors>>
-----------------------------------------------------------------------------
Next ==
    \/ \E c \in Clients :
        \/ \E t \in Clients : \/ ProposeAdd(c, t)
                              \/ ProposeRemove(c, t)
                              \/ Add(c, t)
                              \/ Remove(c, t)
        \/ ProposeUpdate(c)
        \/ Leave(c)
        \/ Update(c)
        \/ Commit(c)
        \/ Send(c)
        \/ Publish(c)
        \/ \E w \in welcomes : Join(c, w)
    \/ \E c \in Clients : \E i \in 1..Len(log) :
        \/ ReceiveProposal(c, i)
        \/ ReceiveApplication(c, i)
        \/ ReceiveCommit(c, i)
        \/ RefuseCommit(c, i)
        \/ Skip(c, i)

Spec == Init /\ [][Next]_vars
-----------------------------------------------------------------------------
(* Two members with the same epoch secrets have the same view of who is in  *)
(* the group, the one its committer had, and are in it themselves: nobody   *)
(* encrypts to a group that another member believes to be a different one.  *)
(* A client that its own removal made inactive has seen that removal.       *)
EpochAgreement ==
    \A c \in Clients : state[c] # "None" =>
        /\ epoch[c] \in Epochs
        /\ members[c] = epochs[epoch[c]].members
        /\ Active(c) => c \in members[c]

(* Only members read: whoever decrypts an application message was, like its *)
(* sender, a member in the epoch it was encrypted in, whatever joins,       *)
(* removals and forks happened between encryption and delivery.             *)
OnlyMembersRead ==
    \A d \in delivered :
        {d.to, d.message.from} \subseteq epochs[d.message.at].members

(* The proposals an active client may commit are proposals of its current   *)
(* epoch, by members of that epoch, and what they remove is a member: no    *)
(* proposal survives the commit that ends its epoch, none comes in late.    *)
StoreIsCurrent ==
    \A c \in Clients : Active(c) =>
        \A r \in Queued(store[c]) :
            /\ proposals[r].epoch = epoch[c]
            /\ proposals[r].sender \in members[c]
            /\ proposals[r].kind = "Remove" => proposals[r].target \in members[c]

(* A client that has the group moves from an epoch only to a commit made in *)
(* that epoch, and one that was removed never moves again: no rollback, no  *)
(* jump to another branch, no return after eviction.                        *)
EpochsAdvance ==
    [][\A c \in Clients :
         state[c] # "None" /\ <<epoch[c], state[c], members[c]>>' # <<epoch[c], state[c], members[c]>> =>
            /\ Active(c)
            /\ epochs'[epoch'[c]].parent = epoch[c]]_vars

(* An application message is handed to a client at most once, although the  *)
(* keys consumed are forgotten whenever the epoch changes.                  *)
DeliveredOnce ==
    [][\A c \in Clients, i \in 1..Len(log) :
         ReceiveApplication(c, i) => [to |-> c, message |-> log[i].message] \notin delivered]_vars

(* Members that only read stay together: two founders that never made a     *)
(* proposal or a commit are on one branch, and in the same state once they  *)
(* have read the same part of the log, whatever the others' concurrent      *)
(* commits did.  This is what the order of the log does give.               *)
BystandersAgree ==
    \A c, d \in epochs[1].members \ authors :
        Active(c) /\ Active(d) =>
            /\ epoch[c] \in epochs[epoch[d]].line \/ epoch[d] \in epochs[epoch[c]].line
            /\ cursor[c] = cursor[d] =>
                 epoch[c] = epoch[d] /\ members[c] = members[d] /\ store[c] = store[d]

(* With one committer nobody is left behind: when everything it made is in  *)
(* the log, a member that has read the log is in its epoch, with its view   *)
(* of the members, and knows no proposal it does not know.  The exception   *)
(* is a commit of a proposal whose message was lost with a refused call.    *)
OneCommitterConverges ==
    \A a \in Clients :
        /\ Ordered /\ authors = {a} /\ Active(a) /\ outbox[a] = <<>>
        /\ \A e \in Epochs : \A r \in epochs[e].refs : \E i \in 1..Len(log) :
              log[i].message.type = "proposal" /\ log[i].message.id = r
        => \A d \in Clients :
              Active(d) /\ cursor[d] = Len(log) =>
                 /\ epoch[d] = epoch[a] /\ members[d] = members[a]
                 /\ Queued(store[d]) \subseteq Queued(store[a])

(* Members that read in order refuse a commit that they can decrypt only if *)
(* it refers to a proposal that was never published before it (the message  *)
(* was lost with a refused call), or only ahead of the commit that started  *)
(* the epoch (a joiner was faster than the committer).                      *)
RefusedOnlyForLostProposals ==
    [][\A c \in Clients, i \in 1..Len(log) :
         RefuseCommit(c, i) =>
            \E r \in epochs[log[i].message.id].refs :
               \A j \in 1..i-1 :
                  log[j].message.type = "proposal" /\ log[j].message.id = r =>
                     \E k \in j+1..i-1 : log[k].message.type = "commit"
                                       /\ log[k].message.id = log[i].message.at]_vars
=============================================================================
