----------------------------- MODULE SecureGroup -----------------------------
(***************************************************************************)
(* Members of one MLS group that exchange protected messages over a        *)
(* network which loses, repeats, reorders and damages them.  A commit is   *)
(* turned into the secrets of the next epoch on four routes: by its        *)
(* committer, by a member that receives it, by a client that joins with    *)
(* the Welcome, and by a client that commits itself into the group.  The   *)
(* secrets, tags and hashes are those of KeySchedule and Framing.  How the *)
(* path secret reaches the members is TreeKEM's matter: who is in the new  *)
(* tree, and was in the old one, gets it.                                  *)
(***************************************************************************)
EXTENDS Framing, FiniteSets

CONSTANTS
    Clients, Founders,  \* the founders are members of the first epoch
    Encrypting,         \* clients whose handshake messages are PrivateMessages
    Stored,             \* Stored[c]: the external PSKs in the storage of c
    Scenarios,          \* what the applications do together, see Init
    MaxPast,            \* epochs whose message secrets are kept
    RingSize,           \* number_of_resumption_psks
    MaxQueue            \* bound: queued proposals of a member

VARIABLES
    scenario,   \* the scenario of this behaviour and its bounds
    group,      \* group[c]: the MlsGroup of c
    keyPackage, \* clients whose published key package is in their storage
    wire,       \* messages in the network, never removed
    welcomes,   \* Welcomes in the network
    infos,      \* GroupInfos in the network
    sent,       \* history: what was sent, by whom, in which context
    accepted,   \* history: accepted[c]: what c has accepted
    damage      \* damaged copies so far

vars == <<scenario, group, keyPackage, wire, welcomes, infos, sent, accepted, damage>>

NoGroup == [state |-> "none"]
NoPsk   == [type |-> "none", usage |-> "none", ref |-> 0, nonce |-> TRUE]
NoPath  == [leaf |-> NoTerm, secret |-> 0]
NoStaged == [tag |-> NoTerm]

Active(g) == g.state = "active"
Commits == {s \in sent : FrameType(s.frame) = "commit"}
Fresh   == Cardinality(Commits) + 1

SigKey(leaf) == [client |-> leaf.client, version |-> leaf.version]
Blank        == [client |-> "nobody", version |-> 0, enc |-> 0]
Leaf(c, version, enc) == [client |-> c, version |-> version, enc |-> enc]

Context(epoch, tree, confirmed) == [epoch |-> epoch, tree |-> tree, confirmed |-> confirmed]
Secrets(g) == EpochSecrets(g.secret)

InTree(tree, leaf) == leaf \in DOMAIN tree /\ tree[leaf] # Blank
Holds(tree, c) == \E i \in DOMAIN tree : tree[i].client = c
FreeLeaf(tree) ==
    IF \E i \in DOMAIN tree : tree[i] = Blank
    THEN CHOOSE i \in DOMAIN tree : tree[i] = Blank /\ \A j \in 1..(i - 1) : tree[j] # Blank
    ELSE Len(tree) + 1

-----------------------------------------------------------------------------
(* Proposals and what they do                                               *)

Proposal(kind, c, leaf, psk, kem) ==
    [kind |-> kind, client |-> c, leaf |-> leaf, psk |-> psk, kem |-> kem]
Entry(item, ref)  == [ref |-> ref, proposal |-> item.proposal, sender |-> item.sender]
Item(entry)       == [proposal |-> entry.proposal, sender |-> entry.sender]
OfKind(items, kind) == SelectSeq(items, LAMBDA x : x.proposal.kind = kind)
PskIds(items)     == LET psks == OfKind(items, "psk") IN [i \in DOMAIN psks |-> psks[i].proposal.psk]

(* The queue of a commit: each proposal once.                               *)
Distinct(items) ==
    FoldLeft(LAMBDA acc, x : IF x \in Range(acc) THEN acc ELSE Append(acc, x), <<>>, items)

(* Proposals that can be committed together; the rest is in GroupCommits.   *)
ValidProposals(tree, items) ==
    /\ \A i \in DOMAIN items :
         LET p == items[i].proposal IN
         /\ p.kind = "add" => ~Holds(tree, p.client)
         /\ p.kind = "remove" => InTree(tree, p.leaf)
         /\ p.kind = "psk" => ValidPskInProposal(p.psk)
    /\ Len(OfKind(items, "add")) <= 1
    /\ \A i, j \in DOMAIN items :
         items[i].proposal.kind = "remove" /\ items[j].proposal.kind = "remove" => i = j

PathRequired(items) ==
    items = <<>> \/ \E i \in DOMAIN items : items[i].proposal.kind \in {"remove", "external_init"}

(* apply_proposals: removals blank their leaves, additions take the         *)
(* leftmost free ones; an external committer is placed before additions.    *)
ApplyRemoves(tree, items) ==
    [i \in DOMAIN tree |->
        IF \E k \in DOMAIN items : items[k].proposal.kind = "remove" /\ items[k].proposal.leaf = i
        THEN Blank ELSE tree[i]]
SetLeaf(tree, i, leaf) == IF i > Len(tree) THEN Append(tree, leaf) ELSE [tree EXCEPT ![i] = leaf]
ApplyProposals(tree, items) ==
    FoldLeft(LAMBDA t, x : SetLeaf(t, FreeLeaf(t), Leaf(x.proposal.client, 0, 0)),
             ApplyRemoves(tree, items), OfKind(items, "add"))

-----------------------------------------------------------------------------
(* From a commit to the next epoch: the same derivation on every route      *)

(* The new context with the commit in its transcript, the joiner secret     *)
(* from the init secret and the commit secret, then the PSKs, the context,  *)
(* the confirmation tag, and the interim hash over that tag.                *)
NextEpoch(old, tree, auth, init_secret, path_secret, psks) ==
    LET context == Context(old.epoch + 1, tree, ConfirmedTranscriptHash(old.interim, auth))
        joiner  == JoinerSecret(init_secret, CommitSecret(path_secret), context)
        ks      == KsInit(joiner, PskSecret(psks))
        epoch   == KsAddContext(ks, context)
        tag     == ConfirmationTag(KsEpochSecrets(epoch), context.confirmed)
    IN  [context |-> context, joiner |-> joiner, welcome |-> KsWelcome(ks), secret |-> epoch.secret,
         tag |-> tag, interim |-> InterimTranscriptHash(context.confirmed, tag)]

Old(g) == [epoch |-> g.context.epoch, interim |-> g.interim, confirmed |-> g.context.confirmed]

PathSecret(path) == IF path = NoPath THEN NoTerm ELSE Term("path", path.secret, <<>>)

(* merge_commit: the old message secrets become past ones, the resumption   *)
(* PSK enters the ring, queue and pending commit are dropped.               *)
Merge(g, staged, leaf) ==
    LET olds == Append(g.past, [context |-> g.context, secret |-> g.secret, used |-> g.used])
    IN  [state |-> "active", leaf |-> leaf, version |-> staged.version,
         context |-> staged.next.context, secret |-> staged.next.secret,
         tag |-> staged.next.tag, interim |-> staged.next.interim,
         sent |-> [application |-> 0, handshake |-> 0], used |-> {},
         past |-> SubSeq(olds, Len(olds) - (IF Len(olds) < MaxPast THEN Len(olds) ELSE MaxPast) + 1,
                         Len(olds)),
         ring |-> RingAdd(g.ring, staged.next.context.epoch, ResumptionPsk(staged.next.secret)),
         queue |-> <<>>, pending |-> NoStaged]

-----------------------------------------------------------------------------
(* Sending                                                                  *)

(* encrypt and content_to_mls_message: the frame, and the group after it.   *)
Private(c, auth) == c \in Encrypting \/ auth.content.body.type = "application"
Frame(c, g, auth) ==
    IF Private(c, auth)
    THEN PrivateMessage(auth, Secrets(g), g.sent[SecretType(auth.content.body.type)])
    ELSE PublicMessage(auth, Secrets(g), g.context)
Framed(c, g, auth) ==
    IF Private(c, auth) THEN [g EXCEPT !.sent[SecretType(auth.content.body.type)] = @ + 1] ELSE g

Wire(c, type) == IF c \in Encrypting \/ type = "application" THEN "private" ELSE "public"
Author(c, g, body) ==
    NewAndSign(Wire(c, body.type), FramedContent(g.context.epoch, Member(g.leaf), body.aad, body),
               g.context, [client |-> c, version |-> g.version])

Sent(c, context, frame, next, inOrder) ==
    [n |-> Cardinality(sent), by |-> c, frame |-> frame, context |-> context,
     next |-> next, inOrder |-> inOrder]
NoNext == [secret |-> NoTerm]

(* create_message: not with proposals queued.                               *)
CreateMessage(c) ==
    LET g    == group[c]
        auth == Author(c, g, [type |-> "application", aad |-> 1, data |-> Cardinality(sent)])
    IN  /\ Active(g) /\ g.queue = <<>>
        /\ Cardinality(sent \ Commits) < scenario.sent
        /\ wire' = wire \cup {Frame(c, g, auth)}
        /\ group' = [group EXCEPT ![c] = Framed(c, g, auth)]
        /\ sent' = sent \cup {Sent(c, g.context, Frame(c, g, auth), NoNext, TRUE)}
        /\ UNCHANGED <<keyPackage, welcomes, infos, accepted, damage>>

(* propose_*: signed, queued, framed; not while a commit is pending.        *)
Propose(c, p) ==
    LET g    == group[c]
        auth == Author(c, g, [type |-> "proposal", aad |-> 1, proposal |-> p])
    IN  /\ Active(g) /\ g.pending = NoStaged
        /\ Cardinality(sent \ Commits) < scenario.sent /\ Len(g.queue) < MaxQueue
        /\ p.kind = "remove" => InTree(g.context.tree, p.leaf)
        /\ wire' = wire \cup {Frame(c, g, auth)}
        /\ group' = [group EXCEPT ![c] =
              [Framed(c, g, auth) EXCEPT !.queue = Append(@, [proposal |-> p, sender |-> g.leaf])]]
        /\ sent' = sent \cup {Sent(c, g.context, Frame(c, g, auth), NoNext, TRUE)}
        /\ UNCHANGED <<keyPackage, welcomes, infos, accepted, damage>>

(* The PSKs of a commit.  The committer loads its own first and then all    *)
(* that are queued; the commit, and so its receivers, have them the other   *)
(* way round and each one once.                                             *)
CommitterPsks(g, own) == PskIds(own \o g.queue)
ReceiverPsks(items)   == PskIds(items)

(* What a commit publishes besides itself.  The GroupInfo is signed with    *)
(* the key that was the committer's before the commit.                      *)
WelcomeFor(items, next, leaf, oldKey) ==
    LET info == GroupInfo(GroupInfoTbs(next.context, next.tag, leaf, NoTerm), oldKey)
    IN  {[to |-> items[i].proposal.client, joiner |-> next.joiner, psks |-> ReceiverPsks(items),
          info |-> Seal(WelcomeKeyNonce(next.welcome), NoTerm, info)] :
         i \in {k \in DOMAIN items : items[k].proposal.kind = "add"}}
ExportedInfo(next, leaf, oldKey) ==
    GroupInfo(GroupInfoTbs(next.context, next.tag, leaf,
                           Public(ExternalKeyPair(ExternalSecret(next.secret)))), oldKey)

(* CommitBuilder::build and stage_commit for a member.  A new signer comes  *)
(* with a path, whose leaf has the new key; the commit is signed with the   *)
(* old key, under the old context.                                          *)
Commit(c, ownProposals, force, newSigner) ==
    LET g     == group[c]
        own   == [i \in DOMAIN ownProposals |-> [proposal |-> ownProposals[i], sender |-> g.leaf]]
        items == Distinct(g.queue \o own)
        path  == PathRequired(items) \/ force \/ newSigner
        version == IF newSigner THEN g.version + 1 ELSE g.version
        leaf  == Leaf(c, version, Fresh)
        applied == ApplyProposals(g.context.tree, items)
        tree  == IF path THEN [applied EXCEPT ![g.leaf] = leaf] ELSE applied
        update == IF path THEN [leaf |-> leaf, secret |-> Fresh] ELSE NoPath
        entries == [i \in DOMAIN items |-> Entry(items[i], items[i] \in Range(g.queue))]
        signed == Author(c, g, [type |-> "commit", aad |-> 1, proposals |-> entries, path |-> update])
        psks  == CommitterPsks(g, own)
        next  == NextEpoch(Old(g), tree, signed, InitSecret(g.secret), PathSecret(update),
                           LoadPsks(g.ring, psks))
        auth  == [signed EXCEPT !.tag = next.tag]
    IN  /\ Active(g)
        /\ Fresh <= scenario.commits
        /\ ValidProposals(g.context.tree, items)
        /\ ~\E i \in DOMAIN items : items[i].proposal.kind = "remove" /\ items[i].proposal.leaf = g.leaf
        /\ CanLoadPsks(g.ring, Stored[c], psks)
        /\ wire' = wire \cup {Frame(c, g, auth)}
        /\ welcomes' = welcomes \cup WelcomeFor(items, next, g.leaf, [client |-> c, version |-> g.version])
        /\ infos' = infos \cup {ExportedInfo(next, g.leaf, [client |-> c, version |-> g.version])}
        /\ group' = [group EXCEPT ![c] =
              [Framed(c, g, auth) EXCEPT !.pending =
                  [tag |-> next.tag, next |-> next, version |-> version]]]
        /\ sent' = sent \cup {Sent(c, g.context, Frame(c, g, auth), next, psks = ReceiverPsks(items))}
        /\ UNCHANGED <<keyPackage, accepted, damage>>

MergePendingCommit(c) ==
    LET g == group[c]
    IN  /\ Active(g) /\ g.pending # NoStaged
        /\ group' = [group EXCEPT ![c] = Merge(g, g.pending, g.leaf)]
        /\ UNCHANGED <<keyPackage, wire, welcomes, infos, sent, accepted, damage>>

ClearPendingCommit(c) ==
    /\ Active(group[c]) /\ group[c].pending # NoStaged
    /\ group' = [group EXCEPT ![c].pending = NoStaged]
    /\ UNCHANGED <<keyPackage, wire, welcomes, infos, sent, accepted, damage>>

-----------------------------------------------------------------------------
(* Receiving                                                                *)

(* The message secrets of an epoch: the current ones, or kept past ones.    *)
PastOf(g, epoch) == {i \in DOMAIN g.past : g.past[i].context.epoch = epoch}
Has(g, epoch) == epoch = g.context.epoch \/ (epoch < g.context.epoch /\ PastOf(g, epoch) # {})
Held(g, epoch) ==
    IF epoch = g.context.epoch
    THEN [context |-> g.context, secret |-> g.secret, used |-> g.used]
    ELSE g.past[CHOOSE i \in PastOf(g, epoch) : TRUE]
Consume(g, epoch, key) ==
    IF epoch = g.context.epoch THEN [g EXCEPT !.used = @ \cup {key}]
    ELSE [g EXCEPT !.past[CHOOSE i \in PastOf(g, epoch) : TRUE].used = @ \cup {key}]

(* validate_framing: application messages of older epochs are let through.  *)
ValidFraming(g, frame) ==
    IF FrameType(frame) = "application" THEN FrameEpoch(frame) <= g.context.epoch
    ELSE FrameEpoch(frame) = g.context.epoch

(* The key of a PrivateMessage, once its sender data has been opened.       *)
KeyOf(frame) ==
    <<frame.sender_data.plain.leaf, SecretType(frame.type), frame.sender_data.plain.generation>>

(* Mutant: a key can be taken again. *)
TakesKeyAgain(g, frame) ==
    /\ frame.wire = "private"
    /\ Active(g) /\ ValidFraming(g, frame) /\ Has(g, FrameEpoch(frame))
    /\ LET held == Held(g, FrameEpoch(frame)) IN
       /\ SenderDataOpens(frame, EpochSecrets(held.secret))
       /\ frame.sender_data.plain.leaf # g.leaf
       /\ InTree(held.context.tree, frame.sender_data.plain.leaf)

(* from_inbound_ciphertext up to the ratchet: the key that the frame takes  *)
(* from the ratchet before it is decrypted.                                 *)
TakesKey(g, frame) ==
    /\ frame.wire = "private"
    /\ Active(g) /\ ValidFraming(g, frame) /\ Has(g, FrameEpoch(frame))
    /\ LET held == Held(g, FrameEpoch(frame)) IN
       /\ SenderDataOpens(frame, EpochSecrets(held.secret))
       /\ frame.sender_data.plain.leaf # g.leaf
       /\ InTree(held.context.tree, frame.sender_data.plain.leaf)
       /\ KeyOf(frame) \notin held.used

(* unprotect_message: a PublicMessage's membership tag, or the decryption   *)
(* of a PrivateMessage.                                                     *)
Unprotected(g, frame) ==
    /\ Active(g) /\ ValidFraming(g, frame) /\ Has(g, FrameEpoch(frame))
    /\ LET held == Held(g, FrameEpoch(frame)) IN
       IF frame.wire = "public"
       THEN VerifyMembership(frame, EpochSecrets(held.secret), held.context)
       ELSE TakesKey(g, frame) /\ ContentOpens(frame, EpochSecrets(held.secret))

Content(frame) == IF frame.wire = "public" THEN frame.auth ELSE Decrypted(frame)

(* The key that the signature is checked with: of the sender's leaf in the  *)
(* epoch of the message, or of the leaf in an external commit's path.       *)
Credential(context, auth) ==
    LET sender == auth.content.sender IN
    IF sender.type = "member" THEN SigKey(context.tree[sender.leaf])
    ELSE SigKey(auth.content.body.path.leaf)

(* Mutant: the credential of a past epoch is looked up in the current tree. *)
ParsedCurrentTree(g, auth) ==
    LET held   == Held(g, auth.content.epoch)
        sender == auth.content.sender
        body   == auth.content.body
    IN  /\ body.type = "application" => auth.wire = "private"
        /\ body.type = "commit" => auth.tag # NoTerm
        /\ sender.type = "member" => InTree(g.context.tree, sender.leaf)
        /\ sender.type # "member" => body.type = "commit" /\ body.path # NoPath
        /\ Verify(auth, held.context, Credential(g.context, auth))

(* parse_message and verify.                                                *)
Parsed(g, auth) ==
    LET held   == Held(g, auth.content.epoch)
        sender == auth.content.sender
        body   == auth.content.body
    IN  /\ body.type = "application" => auth.wire = "private"
        /\ body.type = "commit" => auth.tag # NoTerm
        /\ sender.type = "member" => InTree(held.context.tree, sender.leaf)
        /\ sender.type # "member" => body.type = "commit" /\ body.path # NoPath
        /\ Verify(auth, held.context, Credential(held.context, auth))

(* stage_commit: what a member derives from a commit.                       *)
Items(auth) == [i \in DOMAIN auth.content.body.proposals |-> Item(auth.content.body.proposals[i])]
External(auth) == auth.content.sender.type = "new_member_commit"
CommitLeaf(g, auth) ==
    IF External(auth) THEN FreeLeaf(ApplyRemoves(g.context.tree, Items(auth)))
    ELSE auth.content.sender.leaf
CommitTree(g, auth) ==
    LET applied == ApplyProposals(g.context.tree, Items(auth))
    IN  IF auth.content.body.path = NoPath THEN applied
        ELSE SetLeaf(applied, CommitLeaf(g, auth), auth.content.body.path.leaf)
SelfRemoved(g, auth) ==
    \E i \in DOMAIN Items(auth) : Items(auth)[i].proposal.kind = "remove"
                                  /\ Items(auth)[i].proposal.leaf = g.leaf

(* An external commit brings its init secret in the KEM output, which the   *)
(* external key of the old epoch opens.                                     *)
InitSecretOf(g, auth) ==
    LET inits == OfKind(Items(auth), "external_init")
    IN  IF inits = <<>> THEN InitSecret(g.secret)
        ELSE FromKemOutput(ExternalKeyPair(ExternalSecret(g.secret)), inits[1].proposal.kem)

Derived(g, auth) ==
    NextEpoch(Old(g), CommitTree(g, auth), auth, InitSecretOf(g, auth),
              PathSecret(auth.content.body.path), LoadPsks(g.ring, ReceiverPsks(Items(auth))))

(* Mutant: the confirmation tag is not compared. *)
StagedUntagged(c, g, auth) ==
    LET items == Items(auth) IN
    /\ auth.content.body.type = "commit"
    /\ \A i \in DOMAIN items : auth.content.body.proposals[i].ref => items[i] \in Range(g.queue)
    /\ ValidProposals(g.context.tree, items)
    /\ External(auth) => OfKind(items, "external_init") # <<>>
    /\ auth.content.sender = Member(g.leaf) => auth.content.body.path = NoPath
    /\ PathRequired(items) => auth.content.body.path # NoPath
    /\ SelfRemoved(g, auth) \/ CanLoadPsks(g.ring, Stored[c], ReceiverPsks(items))

(* The checks of stage_commit.  An own commit with a path is not staged.    *)
Staged(c, g, auth) ==
    LET items == Items(auth) IN
    /\ auth.content.body.type = "commit"
    /\ \A i \in DOMAIN items : auth.content.body.proposals[i].ref => items[i] \in Range(g.queue)
    /\ ValidProposals(g.context.tree, items)
    /\ External(auth) => Len(OfKind(items, "external_init")) = 1
    /\ auth.content.sender = Member(g.leaf) => auth.content.body.path = NoPath
    /\ PathRequired(items) => auth.content.body.path # NoPath
    /\ \/ SelfRemoved(g, auth)
       \/ /\ CanLoadPsks(g.ring, Stored[c], ReceiverPsks(items))
          /\ auth.tag = Derived(g, auth).tag

Log(c, auth, context) == [accepted EXCEPT ![c] = Append(@, [auth |-> auth, context |-> context])]

(* merge_staged_commit after process_message.  A removed member keeps its   *)
(* secrets and is inactive.                                                 *)
AfterCommit(g, auth) ==
    IF SelfRemoved(g, auth) THEN [g EXCEPT !.state = "inactive"]
    ELSE Merge(g, [next |-> Derived(g, auth), version |-> g.version], g.leaf)

(* process_message, and store_pending_proposal or merge_staged_commit.  A   *)
(* key that was taken from a ratchet is gone whatever comes after.          *)
ProcessMessage(c, frame) ==
    LET g == group[c] IN
    /\ TakesKey(g, frame) \/ (frame.wire = "public" /\ Unprotected(g, frame))
    /\ LET context == Held(g, FrameEpoch(frame)).context
           taken == IF frame.wire = "private" THEN Consume(g, FrameEpoch(frame), KeyOf(frame)) ELSE g
           ok    == Unprotected(g, frame) /\ Parsed(g, Content(frame))
           auth  == Content(frame)
       IN  \/ /\ ok /\ auth.content.body.type = "application"
              /\ group' = [group EXCEPT ![c] = taken]
              /\ accepted' = Log(c, auth, context)
           \/ /\ ok /\ auth.content.body.type = "proposal" /\ Len(g.queue) < MaxQueue
              /\ group' = [group EXCEPT ![c] = [taken EXCEPT !.queue =
                    Append(@, [proposal |-> auth.content.body.proposal,
                               sender |-> auth.content.sender.leaf])]]
              /\ accepted' = Log(c, auth, context)
           \/ /\ ok /\ Staged(c, g, auth)
              /\ ~(auth.content.sender = Member(g.leaf) /\ g.pending.tag = auth.tag)
              /\ group' = [group EXCEPT ![c] = AfterCommit(taken, auth)]
              /\ accepted' = Log(c, auth, context)
           \/ /\ frame.wire = "private"
              /\ ~ok \/ (auth.content.body.type = "commit" /\ ~Staged(c, g, auth))
              /\ group' = [group EXCEPT ![c] = taken]
              /\ UNCHANGED accepted
    /\ UNCHANGED <<keyPackage, wire, welcomes, infos, sent, damage>>

-----------------------------------------------------------------------------
(* Joining                                                                  *)

JoinedGroup(c, info, secret, ring) ==
    LET context == info.tbs.context
    IN  [state |-> "active", version |-> 0,
         leaf |-> CHOOSE i \in DOMAIN context.tree : SigKey(context.tree[i]) = [client |-> c, version |-> 0],
         context |-> context, secret |-> secret, tag |-> info.tbs.tag,
         interim |-> InterimTranscriptHash(context.confirmed, info.tbs.tag),
         sent |-> [application |-> 0, handshake |-> 0], used |-> {}, past |-> <<>>,
         ring |-> RingAdd(ring, context.epoch, ResumptionPsk(secret)),
         queue |-> <<>>, pending |-> NoStaged]

(* Mutant: the PSKs of the Welcome are left out. *)
WelcomeScheduleNoPsks(w) == KsInit(w.joiner, PskSecret(<<>>))

(* The key schedule of a joiner, with the PSKs that the Welcome names.      *)
WelcomeSchedule(w) == KsInit(w.joiner, PskSecret(LoadPsks(EmptyRing(RingSize), w.psks)))
WelcomeEpoch(w)    == KsAddContext(WelcomeSchedule(w), w.info.plain.tbs.context).secret

(* from_ratchet_tree: the signature of the GroupInfo is checked with the    *)
(* key of the signer's leaf in the tree that comes with it.                 *)
ValidGroupInfo(info) ==
    /\ InTree(info.tbs.context.tree, info.tbs.signer)
    /\ VerifyGroupInfo(info, SigKey(info.tbs.context.tree[info.tbs.signer]))

(* new_from_welcome and into_staged_welcome: the PSKs, the GroupInfo under  *)
(* the welcome key (a damaged one does not open the group secrets either),  *)
(* its signature, the own leaf, the confirmation tag.                       *)
CanJoin(c, w) ==
    /\ w.info.head /\ w.info.tail
    /\ ValidPsksInWelcome(w.psks)
    /\ CanLoadPsks(EmptyRing(RingSize), Stored[c], w.psks)
    /\ Opens(w.info, WelcomeKeyNonce(KsWelcome(WelcomeSchedule(w))), NoTerm)
    /\ ValidGroupInfo(w.info.plain)
    /\ \E i \in DOMAIN w.info.plain.tbs.context.tree :
          SigKey(w.info.plain.tbs.context.tree[i]) = [client |-> c, version |-> 0]
    /\ w.info.plain.tbs.tag = ConfirmationTag(EpochSecrets(WelcomeEpoch(w)),
                                              w.info.plain.tbs.context.confirmed)

(* The key package is deleted when it is found, before anything is checked. *)
Join(c, w) ==
    /\ w.to = c /\ c \in keyPackage
    /\ group[c] = NoGroup
    /\ keyPackage' = keyPackage \ {c}
    /\ group' = [group EXCEPT ![c] =
          IF CanJoin(c, w) THEN JoinedGroup(c, w.info.plain, WelcomeEpoch(w), EmptyRing(RingSize)) ELSE @]
    /\ UNCHANGED <<wire, welcomes, infos, sent, accepted, damage>>

(* An external commit of a client outside the group, or of a member that    *)
(* resynchronises: the init secret comes from the KEM, an old leaf with the *)
(* signature key is removed, the group is merged at once and replaces the   *)
(* one the client has.  What it keeps as the secrets of the epoch before    *)
(* was derived from zero.                                                   *)
ExternalCommit(c, info, psks) ==
    LET context == info.tbs.context
        key   == [client |-> c, version |-> 0]
        mine  == {i \in DOMAIN context.tree : SigKey(context.tree[i]) = key}
        removes == IF mine = {} THEN <<>>
                   ELSE <<Proposal("remove", "nobody", CHOOSE i \in mine : TRUE, NoPsk, 0)>>
        all   == <<Proposal("external_init", "nobody", 0, NoPsk, Fresh)>> \o removes
                 \o [i \in DOMAIN psks |-> Proposal("psk", "nobody", 0, psks[i], 0)]
        items == [i \in DOMAIN all |-> [proposal |-> all[i], sender |-> 0]]
        removed == ApplyRemoves(context.tree, items)
        leaf  == Leaf(c, 0, Fresh)
        place == FreeLeaf(removed)
        start == [state |-> "active", leaf |-> place, version |-> 0, context |-> context,
                  secret |-> Zero, used |-> {}, past |-> <<>>, ring |-> EmptyRing(RingSize)]
        old   == [epoch |-> context.epoch, confirmed |-> context.confirmed,
                  interim |-> InterimTranscriptHash(context.confirmed, info.tbs.tag)]
        before == WithInitSecret(FromGroupContext(info.tbs.external_pub, Fresh))
        update == [leaf |-> leaf, secret |-> Fresh]
        entries == [i \in DOMAIN items |-> Entry(items[i], FALSE)]
        signed == NewAndSign("public",
                     FramedContent(context.epoch, NewMemberCommit, 1,
                        [type |-> "commit", aad |-> 1, proposals |-> entries, path |-> update]),
                     context, key)
        next  == NextEpoch(old, SetLeaf(removed, place, leaf), signed,
                           before.init_secret, PathSecret(update),
                           LoadPsks(start.ring, psks))
        auth  == [signed EXCEPT !.tag = next.tag]
    IN  /\ Fresh <= scenario.commits
        /\ ValidGroupInfo(info)
        /\ CanLoadPsks(start.ring, Stored[c], psks)
        /\ wire' = wire \cup {PublicMessage(auth, before, context)}
        /\ infos' = infos \cup {ExportedInfo(next, place, key)}
        /\ group' = [group EXCEPT ![c] = Merge(start, [next |-> next, version |-> 0], place)]
        /\ sent' = sent \cup {Sent(c, context, PublicMessage(auth, before, context), next, TRUE)}
        /\ UNCHANGED <<keyPackage, welcomes, accepted, damage>>

-----------------------------------------------------------------------------
(* The network damages a copy of a message.                                 *)
Damaged(frame) ==
    IF frame.wire = "private"
    THEN {[frame EXCEPT !.ciphertext.tail = FALSE], [frame EXCEPT !.ciphertext.head = FALSE],
          [frame EXCEPT !.sender_data.tail = FALSE], [frame EXCEPT !.aad = 2],
          [frame EXCEPT !.epoch = @ + 1], [frame EXCEPT !.type = "proposal"]}
    ELSE {[frame EXCEPT !.membership = NoTerm], [frame EXCEPT !.auth.tag = Zero],
          [frame EXCEPT !.auth.content.aad = 2], [frame EXCEPT !.auth.content.epoch = @ + 1],
          [frame EXCEPT !.auth.content.sender = Member(1)],
          [frame EXCEPT !.auth.signature.over = NoTerm]}

Damage ==
    /\ damage < scenario.damage
    /\ damage' = damage + 1
    /\ \/ \E frame \in wire : \E copy \in Damaged(frame) : wire' = wire \cup {copy} /\ UNCHANGED welcomes
       \/ \E w \in welcomes : welcomes' = welcomes \cup {[w EXCEPT !.info.tail = FALSE]} /\ UNCHANGED wire
    /\ UNCHANGED <<group, keyPackage, infos, sent, accepted>>

-----------------------------------------------------------------------------
(* An established group: every founder has the same secrets.                *)
FirstTree(order) == [i \in DOMAIN order |-> Leaf(order[i], 0, 0)]
FirstGroup(leaf, order) ==
    LET context == Context(0, FirstTree(order), NoTerm)
        tag     == ConfirmationTag(EpochSecrets(Rand(0)), NoTerm)
    IN  [state |-> "active", leaf |-> leaf, version |-> 0, context |-> context, secret |-> Rand(0),
         tag |-> tag, interim |-> InterimTranscriptHash(NoTerm, tag),
         sent |-> [application |-> 0, handshake |-> 0], used |-> {}, past |-> <<>>,
         ring |-> RingAdd(EmptyRing(RingSize), 0, ResumptionPsk(Rand(0))),
         queue |-> <<>>, pending |-> NoStaged]

(* A scenario: [own: proposal lists that committers add to the queue,       *)
(* standalone: proposals sent on their own, force, signer: the choices of a *)
(* committer, external: PSK lists of external commits,      *)
(* and the bounds commits, sent, damage].                                   *)
Init ==
    /\ scenario \in Scenarios
    /\ group = [c \in Clients |->
                  IF c \in Range(Founders)
                  THEN FirstGroup(CHOOSE i \in DOMAIN Founders : Founders[i] = c, Founders) ELSE NoGroup]
    /\ keyPackage = Clients \ Range(Founders)
    /\ wire = {} /\ welcomes = {} /\ sent = {} /\ damage = 0
    /\ infos = {ExportedInfo([context |-> FirstGroup(1, Founders).context, secret |-> Rand(0),
                              tag |-> FirstGroup(1, Founders).tag], 1,
                             [client |-> Founders[1], version |-> 0])}
    /\ accepted = [c \in Clients |-> <<>>]

Next ==
    /\ \/ \E c \in Clients :
             \/ CreateMessage(c)
             \/ \E p \in scenario.standalone : Propose(c, p)
             \/ \E own \in scenario.own, force \in scenario.force, newSigner \in scenario.signer :
                   Commit(c, own, force, newSigner)
             \/ MergePendingCommit(c)
             \/ ClearPendingCommit(c)
             \/ \E frame \in wire : ProcessMessage(c, frame)
             \/ \E w \in welcomes : Join(c, w)
             \/ \E info \in infos, psks \in scenario.external : ExternalCommit(c, info, psks)
       \/ Damage
    /\ UNCHANGED scenario

Spec == Init /\ [][Next]_vars

-----------------------------------------------------------------------------
(* Two members have the same epoch secret exactly when they have the same   *)
(* group context (epoch, tree, transcript), whichever route led each of     *)
(* them there: merging the own commit, staging a received one               *)
(* (staged_commit.rs), joining by Welcome (creation.rs) or by an external   *)
(* commit (external_commits.rs).  They then have the same confirmation tag  *)
(* and interim transcript hash as well.                                     *)
Agreement ==
    \A c, d \in {x \in Clients : Active(group[x])} :
        /\ group[c].context = group[d].context <=> group[c].secret = group[d].secret
        /\ group[c].context = group[d].context =>
              group[c].tag = group[d].tag /\ group[c].interim = group[d].interim

(* What a client accepts (process_message) was sent, as it is and in the    *)
(* context in which it is accepted, by the client that has the sender's     *)
(* leaf there; an application message is accepted once.                     *)
AcceptedWasSent ==
    \A c \in Clients : \A i \in DOMAIN accepted[c] :
        LET a == accepted[c][i] IN
        /\ \E s \in sent :
              /\ Content(s.frame) = a.auth /\ s.context = a.context
              /\ a.auth.content.sender.type = "member" =>
                    s.by = a.context.tree[a.auth.content.sender.leaf].client
        /\ a.auth.content.body.type = "application" =>
              \A j \in DOMAIN accepted[c] : accepted[c][j] = a => j = i

(* A member with the secrets of the context in which a message was made can *)
(* process it, unless its ratchet key is gone; from a commit it derives the *)
(* secrets that the committer has.  Left out: proposals or PSKs that the    *)
(* member does not have, and PSKs that the committer loaded in another      *)
(* order than that of the commit (CommitBuilder::load_psks).                *)
CanProcess(c, s) ==
    LET g == group[c]
        auth == Content(s.frame)
        items == Items(auth)
        commit == auth.content.body.type = "commit"
        known == /\ g.context.epoch = s.context.epoch
                 /\ \A i \in DOMAIN items :
                       auth.content.body.proposals[i].ref => items[i] \in Range(g.queue)
                 /\ CanLoadPsks(g.ring, Stored[c], PskIds(items))
    IN  /\ Unprotected(g, s.frame) \/ KeyOf(s.frame) \in Held(g, s.context.epoch).used
        /\ Parsed(g, auth)
        /\ commit /\ known /\ s.inOrder =>
              /\ Staged(c, g, auth)
              /\ SelfRemoved(g, auth) \/ Derived(g, auth).secret = s.next.secret

MembersCanFollow ==
    \A s \in sent : \A c \in Clients \ {s.by} :
        LET g == group[c] IN
        /\ Active(g) /\ Has(g, s.context.epoch)
        /\ FrameType(s.frame) # "application" => g.context.epoch = s.context.epoch
        /\ Held(g, s.context.epoch).context = s.context
        /\ Held(g, s.context.epoch).secret # Zero
        => CanProcess(c, s)

(* The addressee of an intact Welcome, with its key package and the PSKs,   *)
(* joins and has the committer's secrets.  Left out: a commit with a new    *)
(* signer, and PSKs that validate_in_welcome refuses.                       *)
InvitedCanJoin ==
    \A w \in welcomes : \A s \in Commits :
        /\ s.next # NoNext /\ s.next.joiner = w.joiner /\ s.inOrder
        /\ w.info.tail
        /\ ValidPsksInWelcome(w.psks)
        /\ CanLoadPsks(EmptyRing(RingSize), Stored[w.to], w.psks)
        /\ s.next.context.tree[w.info.plain.tbs.signer].version = w.info.plain.signature.key.version
        => CanJoin(w.to, w) /\ WelcomeEpoch(w) = s.next.secret
=============================================================================
