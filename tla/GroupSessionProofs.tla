------------------------- MODULE GroupSessionProofs -------------------------
(***************************************************************************)
(* Proofs about GroupSession, for any set of clients and any number of     *)
(* proposals, commits and messages, in order or not.                       *)
(***************************************************************************)
EXTENDS GroupSession, SequenceTheorems, TLAPS

Entry == [seq : Nat, message : MessageSet]
Welcome == [to : Clients, epoch : Nat]
-----------------------------------------------------------------------------
(* The inductive invariant.                                                 *)

(* What the header of a message says is true: it was made in an existing    *)
(* epoch by a member of it; a commit is the one that ended that epoch, and  *)
(* a proposal is about it.                                                  *)
Genuine(m, eps, props) ==
    /\ m.at \in 1..Len(eps)
    /\ m.from \in eps[m.at].members
    /\ m.type = "commit" => m.id \in 1..Len(eps) /\ eps[m.id].parent = m.at
    /\ m.type = "proposal" =>
         /\ m.id \in 1..Len(props)
         /\ props[m.id].epoch = m.at
         /\ props[m.id].sender = m.from
         /\ props[m.id].kind = "Remove" => props[m.id].target \in eps[m.at].members

MessagesGenuine ==
    /\ \A c \in Clients : \A i \in 1..Len(outbox[c]) : Genuine(outbox[c][i], epochs, proposals)
    /\ \A i \in 1..Len(log) : Genuine(log[i].message, epochs, proposals)

(* A welcome leads to an epoch that its addressee is a member of. *)
WelcomesGenuine ==
    \A w \in welcomes : w.epoch \in Epochs /\ w.to \in epochs[w.epoch].members

(* Every epoch is created after the one that its commit ends. *)
ParentsFirst == \A e \in Epochs : epochs[e].parent < e

(* An epoch has the members that its proposals make of those of its parent. *)
Computed(e, eps, props) ==
    LET x == eps[e] IN
    /\ x.refs \subseteq 1..Len(props)
    /\ x.parent \in 1..Len(eps) =>
         ApplyProposals(props, x.refs, eps[x.parent].members) = x.members

MembersComputed == \A e \in Epochs : Computed(e, epochs, proposals)

(* The references an active client has stored are those of proposals, and a *)
(* client without the group has none.                                       *)
StoreKnown ==
    \A c \in Clients :
        /\ Active(c) => Queued(store[c]) \subseteq 1..Len(proposals)
        /\ state[c] = "None" => store[c] = <<>>

(* What a client decrypted is of its epoch, and then the key is consumed, or *)
(* of an earlier one.                                                        *)
DeliveredBefore ==
    \A d \in delivered :
        /\ state[d.to] # "None"
        /\ d.message.at \in Epochs
        /\ d.message.at <= epoch[d.to]
        /\ d.message.at = epoch[d.to] => d.message \in used[d.to]

Inv ==
    /\ TypeOK
    /\ MessagesGenuine
    /\ WelcomesGenuine
    /\ ParentsFirst
    /\ MembersComputed
    /\ StoreKnown
    /\ EpochAgreement
    /\ StoreIsCurrent
    /\ OnlyMembersRead
    /\ DeliveredBefore
-----------------------------------------------------------------------------
(* The proposals a commit covers come from the queue: filter_proposals      *)
(* selects, it never invents.                                               *)
LEMMA FilterSelects ==
    ASSUME NEW props, NEW q, NEW own
    PROVE  FilterProposals(props, q, own) \subseteq Queued(q)
  BY DEF FilterProposals, Queued

(* Applying proposals adds the added and removes the removed, nobody else,  *)
(* and stays among the clients.                                             *)
LEMMA ApplyProperties ==
    ASSUME NEW props \in Seq(Proposal), NEW S \in SUBSET (1..Len(props)),
           NEW M \in SUBSET Clients
    PROVE  /\ ApplyProposals(props, S, M) \in SUBSET Clients
           /\ Added(props, S) \in SUBSET Clients
           /\ Added(props, S) \subseteq ApplyProposals(props, S, M)
           /\ \A c \in M : c \notin Removed(props, S) => c \in ApplyProposals(props, S, M)
<1>1. \A r \in S : props[r] \in Proposal
  BY ElementOfSeq
<1> QED
  BY <1>1 DEF ApplyProposals, Added, Removed, Proposal

(* A queue with one more reference. *)
LEMMA QueuedAppend ==
    ASSUME NEW q \in Seq(Nat), NEW r \in Nat
    PROVE  Queued(Append(q, r)) = Queued(q) \cup {r}
<1>1. Len(q) \in Nat /\ Len(Append(q, r)) = Len(q) + 1 /\ Append(q, r)[Len(q) + 1] = r
      /\ \A i \in 1..Len(q) : Append(q, r)[i] = q[i]
  BY AppendProperties, LenProperties
<1> QED
  BY <1>1 DEF Queued

(* An empty ProposalStore holds no reference. *)
LEMMA QueuedEmpty == Queued(<<>>) = {}
  BY EmptySeq DEF Queued

(* Epochs and proposals are only ever added, so what a message says stays   *)
(* true.                                                                    *)
Extended(s, t) == Len(s) <= Len(t) /\ \A i \in 1..Len(s) : t[i] = s[i]

(* A message that matches the proposals and epochs made so far still matches *)
(* them after more have been made.                                           *)
LEMMA GenuineStays ==
    ASSUME NEW eps1 \in Seq(EpochSet), NEW eps2 \in Seq(EpochSet), Extended(eps1, eps2),
           NEW props1 \in Seq(Proposal), NEW props2 \in Seq(Proposal), Extended(props1, props2),
           NEW m \in MessageSet, Genuine(m, eps1, props1)
    PROVE  Genuine(m, eps2, props2)
<1>1. /\ Len(eps1) \in Nat /\ Len(eps2) \in Nat /\ Len(props1) \in Nat /\ Len(props2) \in Nat
      /\ m.at \in Nat /\ m.id \in Nat
  BY LenProperties DEF MessageSet
<1>2. m.at \in 1..Len(eps2) /\ eps2[m.at] = eps1[m.at]
  BY <1>1 DEF Genuine, Extended
<1>3. m.type = "commit" => m.id \in 1..Len(eps2) /\ eps2[m.id] = eps1[m.id]
  BY <1>1 DEF Genuine, Extended
<1>4. m.type = "proposal" => m.id \in 1..Len(props2) /\ props2[m.id] = props1[m.id]
  BY <1>1 DEF Genuine, Extended
<1> QED
  BY <1>2, <1>3, <1>4 DEF Genuine

(* Making one more proposal or epoch leaves the earlier ones as they were. *)
LEMMA AppendExtends ==
    ASSUME NEW S, NEW s \in Seq(S), NEW x \in S
    PROVE  /\ Append(s, x) \in Seq(S)
           /\ Extended(s, Append(s, x))
           /\ Len(Append(s, x)) = Len(s) + 1
           /\ Append(s, x)[Len(s) + 1] = x
<1>1. Len(s) \in Nat
  BY LenProperties
<1> QED
  BY <1>1, AppendProperties DEF Extended

(* Whether references can be committed, and to what effect, does not depend *)
(* on later proposals.                                                      *)
LEMMA LaterProposals ==
    ASSUME NEW ps, NEW qs, Extended(ps, qs), NEW S \in SUBSET (1..Len(ps)), NEW M, NEW own
    PROVE  /\ Removed(qs, S) = Removed(ps, S) /\ Added(qs, S) = Added(ps, S)
           /\ CanCommit(qs, S, M, own) <=> CanCommit(ps, S, M, own)
           /\ ApplyProposals(qs, S, M) = ApplyProposals(ps, S, M)
<1>1. \A r \in S : qs[r] = ps[r]
  BY DEF Extended
<1>2. Removed(qs, S) = Removed(ps, S) /\ Added(qs, S) = Added(ps, S)
  BY <1>1 DEF Removed, Added
<1>3. CanCommit(qs, S, M, own) <=> CanCommit(ps, S, M, own)
  BY <1>1, <1>2 DEF CanCommit, KeysAreUnique
<1> QED
  BY <1>2, <1>3 DEF ApplyProposals

(* So the members of an epoch stay those that its proposals make. *)
LEMMA ComputedStays ==
    ASSUME NEW eps1 \in Seq(EpochSet), NEW eps2 \in Seq(EpochSet), Extended(eps1, eps2),
           NEW props1 \in Seq(Proposal), NEW props2 \in Seq(Proposal), Extended(props1, props2),
           NEW e \in 1..Len(eps1), eps1[e].parent < e, Computed(e, eps1, props1)
    PROVE  Computed(e, eps2, props2)
<1> DEFINE x == eps1[e]
<1>1. /\ Len(eps1) \in Nat /\ Len(eps2) \in Nat /\ Len(props1) \in Nat /\ Len(props2) \in Nat
      /\ x \in EpochSet
  BY LenProperties, ElementOfSeq
<1>2. eps2[e] = x /\ x.parent \in Nat /\ x.refs \in SUBSET (1..Len(props1))
  BY <1>1 DEF Extended, EpochSet, Computed
<1> HIDE DEF x
<1>3. x.refs \subseteq 1..Len(props2)
  BY <1>1, <1>2 DEF Extended
<1>4. ASSUME x.parent \in 1..Len(eps2)
      PROVE  ApplyProposals(props2, x.refs, eps2[x.parent].members) = x.members
  <2>1. x.parent \in 1..Len(eps1)
    BY <1>1, <1>2, <1>4 DEF x
  <2>2. eps2[x.parent] = eps1[x.parent]
    BY <2>1 DEF Extended
  <2> DEFINE M == eps1[x.parent].members
  <2>3. ApplyProposals(props1, x.refs, M) = x.members
    BY <2>1 DEF Computed, x
  <2> HIDE DEF M
  <2>4. ApplyProposals(props2, x.refs, M) = ApplyProposals(props1, x.refs, M)
    BY <1>2, LaterProposals, Zenon
  <2> QED
    BY <2>2, <2>3, <2>4 DEF M
<1> QED
  BY <1>2, <1>3, <1>4 DEF Computed

(* A sequence extends itself. *)
LEMMA ExtendedRefl ==
    ASSUME NEW S, NEW s \in Seq(S)
    PROVE  Extended(s, s)
  BY LenProperties DEF Extended

(* PublishAll puts the messages after the log, in their order. *)
LEMMA PublishAllProperties ==
    ASSUME NEW l \in Seq(Entry), NEW ms \in Seq(MessageSet)
    PROVE  /\ PublishAll(l, ms) \in Seq(Entry)
           /\ Len(PublishAll(l, ms)) = Len(l) + Len(ms)
           /\ \A i \in 1..Len(l) : PublishAll(l, ms)[i] = l[i]
           /\ \A i \in Len(l)+1..Len(l) + Len(ms) : PublishAll(l, ms)[i].message = ms[i - Len(l)]
<1> DEFINE t == [k \in 1..Len(ms) |-> StoredMessage(Len(l) + k, ms[k])]
<1>1. Len(l) \in Nat /\ Len(ms) \in Nat
  BY LenProperties
<1>2. \A k \in 1..Len(ms) : t[k] \in Entry /\ t[k].message = ms[k]
  BY <1>1, ElementOfSeq DEF StoredMessage, Entry
<1>3. t \in Seq(Entry) /\ Len(t) = Len(ms)
  <2>1. t \in [1..Len(ms) -> Entry]
    BY <1>2
  <2> HIDE DEF t
  <2>2. t \in Seq(Entry)
    BY <1>1, <2>1, IsASeq
  <2> QED
    BY <1>1, <2>1, <2>2, LenProperties
<1>4. PublishAll(l, ms) = l \o t
  BY DEF PublishAll
<1> HIDE DEF t
<1>5. /\ l \o t \in Seq(Entry)
      /\ Len(l \o t) = Len(l) + Len(ms)
      /\ \A i \in 1..Len(l) + Len(ms) : (l \o t)[i] =
            IF i <= Len(l) THEN l[i] ELSE t[i - Len(l)]
  <2>1. /\ l \o t \in Seq(Entry)
        /\ Len(l \o t) = Len(l) + Len(t)
        /\ \A i \in 1..Len(l) + Len(t) : (l \o t)[i] =
              IF i <= Len(l) THEN l[i] ELSE t[i - Len(l)]
    BY <1>3, ConcatProperties, Zenon
  <2> QED
    BY <1>3, <2>1
<1>6. \A i \in Len(l)+1..Len(l) + Len(ms) : (l \o t)[i].message = ms[i - Len(l)]
  BY <1>1, <1>2, <1>5
<1> QED
  BY <1>1, <1>4, <1>5, <1>6

(* Distributing genuine messages keeps all messages genuine. *)
LEMMA DistributeKeeps ==
    ASSUME TypeOK, MessagesGenuine, NEW c \in Clients, NEW ms \in Seq(MessageSet),
           Distribute(c, ms),
           epochs' \in Seq(EpochSet), Extended(epochs, epochs'),
           proposals' \in Seq(Proposal), Extended(proposals, proposals'),
           \A i \in 1..Len(ms) : Genuine(ms[i], epochs', proposals')
    PROVE  /\ outbox' \in [Clients -> Seq(MessageSet)]
           /\ log' \in Seq(Entry)
           /\ MessagesGenuine'
<1>0. /\ outbox \in [Clients -> Seq(MessageSet)] /\ log \in Seq(Entry)
      /\ epochs \in Seq(EpochSet) /\ proposals \in Seq(Proposal)
      /\ Len(log) \in Nat /\ Len(ms) \in Nat
      /\ \A d \in Clients : Len(outbox[d]) \in Nat
  BY LenProperties DEF TypeOK, Entry
<1>1. \A d \in Clients : \A i \in 1..Len(outbox[d]) : Genuine(outbox[d][i], epochs', proposals')
  <2> SUFFICES ASSUME NEW d \in Clients, NEW i \in 1..Len(outbox[d])
               PROVE  Genuine(outbox[d][i], epochs', proposals')
    OBVIOUS
  <2>1. outbox[d][i] \in MessageSet
    BY <1>0, ElementOfSeq
  <2>2. Genuine(outbox[d][i], epochs, proposals)
    BY DEF MessagesGenuine
  <2> QED
    BY <1>0, <2>1, <2>2, GenuineStays
<1>2. \A i \in 1..Len(log) : Genuine(log[i].message, epochs', proposals')
  <2> SUFFICES ASSUME NEW i \in 1..Len(log)
               PROVE  Genuine(log[i].message, epochs', proposals')
    OBVIOUS
  <2>0. log[i] \in Entry
    BY <1>0, ElementOfSeq
  <2>1. log[i].message \in MessageSet
    BY <2>0 DEF Entry
  <2>2. Genuine(log[i].message, epochs, proposals)
    BY DEF MessagesGenuine
  <2> QED
    BY <1>0, <2>1, <2>2, GenuineStays
<1>3. CASE Ordered
  <2>1. outbox' = [outbox EXCEPT ![c] = @ \o ms] /\ log' = log
    BY <1>3 DEF Distribute
  <2>2. /\ outbox[c] \o ms \in Seq(MessageSet)
        /\ Len(outbox[c] \o ms) = Len(outbox[c]) + Len(ms)
        /\ \A i \in 1..Len(outbox[c]) + Len(ms) : (outbox[c] \o ms)[i] =
               IF i <= Len(outbox[c]) THEN outbox[c][i] ELSE ms[i - Len(outbox[c])]
    BY <1>0, ConcatProperties
  <2>3. ASSUME NEW i \in 1..Len(outbox'[c])
        PROVE  Genuine(outbox'[c][i], epochs', proposals')
    <3>1. i \in 1..Len(outbox[c]) + Len(ms) /\ outbox'[c][i] = (outbox[c] \o ms)[i]
      BY <1>0, <2>1, <2>2
    <3>2. CASE i <= Len(outbox[c])
      BY <1>0, <1>1, <2>2, <3>1, <3>2
    <3>3. CASE ~(i <= Len(outbox[c]))
      <4>1. i - Len(outbox[c]) \in 1..Len(ms) /\ outbox'[c][i] = ms[i - Len(outbox[c])]
        BY <1>0, <2>2, <3>1, <3>3, SMTT(30)
      <4> QED
        BY <4>1
    <3> QED
      BY <3>2, <3>3
  <2>4. \A d \in Clients : d # c => outbox'[d] = outbox[d]
    BY <1>0, <2>1
  <2>5. outbox' \in [Clients -> Seq(MessageSet)]
    BY <1>0, <2>1, <2>2
  <2> QED
    BY <1>0, <1>1, <1>2, <2>1, <2>3, <2>4, <2>5 DEF MessagesGenuine
<1>4. CASE ~Ordered
  <2>1. log' = PublishAll(log, ms) /\ outbox' = outbox
    BY <1>4 DEF Distribute
  <2>2. /\ log' \in Seq(Entry) /\ Len(log') = Len(log) + Len(ms)
        /\ \A i \in 1..Len(log) : log'[i] = log[i]
        /\ \A i \in Len(log)+1..Len(log) + Len(ms) : log'[i].message = ms[i - Len(log)]
    BY <1>0, <2>1, PublishAllProperties
  <2>3. ASSUME NEW i \in 1..Len(log')
        PROVE  Genuine(log'[i].message, epochs', proposals')
    <3>1. CASE i \in 1..Len(log)
      BY <1>2, <2>2, <3>1
    <3>2. CASE i \notin 1..Len(log)
      <4>1. i \in Len(log)+1..Len(log) + Len(ms) /\ i - Len(log) \in 1..Len(ms)
        BY <1>0, <2>2, <3>2
      <4> QED
        BY <2>2, <4>1
    <3> QED
      BY <3>1, <3>2
  <2> QED
    BY <1>0, <1>1, <2>1, <2>2, <2>3 DEF MessagesGenuine
<1> QED
  BY <1>3, <1>4

(* The group that has just been set up satisfies the invariant. *)
LEMMA InvInit == Init => Inv
<1> SUFFICES ASSUME Init PROVE Inv
  OBVIOUS
<1>1. PICK f \in Founders :
         epochs = <<[by |-> f, parent |-> 0, num |-> 0, line |-> {1}, refs |-> {},
                     members |-> Founders]>>
  BY DEF Init
<1>2. /\ Epochs = {1} /\ epochs[1].members = Founders /\ epochs[1].parent = 0
      /\ epochs \in Seq(EpochSet)
  BY <1>1, FoundersAreClients DEF Epochs, EpochSet
<1>3. TypeOK
  BY <1>2, FoundersAreClients, EmptySeq DEF Init, TypeOK
<1>4. MessagesGenuine /\ WelcomesGenuine /\ ParentsFirst /\ StoreKnown
  BY <1>2, QueuedEmpty, EmptySeq DEF Init, MessagesGenuine, WelcomesGenuine, ParentsFirst,
     StoreKnown
<1>5. EpochAgreement /\ StoreIsCurrent
  BY <1>2, QueuedEmpty DEF Init, EpochAgreement, StoreIsCurrent, Active
<1>6. OnlyMembersRead /\ DeliveredBefore
  BY DEF Init, OnlyMembersRead, DeliveredBefore
<1>7. MembersComputed
  BY <1>1, <1>2 DEF MembersComputed, Computed
<1> QED
  BY <1>3, <1>4, <1>5, <1>6, <1>7 DEF Inv
-----------------------------------------------------------------------------
(* Preservation of the invariant, action by action.                         *)

(* What is used of the invariant's types everywhere. *)
LEMMA Types ==
    ASSUME TypeOK
    PROVE  /\ epochs \in Seq(EpochSet) /\ proposals \in Seq(Proposal)
           /\ Len(epochs) \in Nat /\ Len(proposals) \in Nat /\ Epochs = 1..Len(epochs)
           /\ log \in Seq(Entry) /\ Len(log) \in Nat
           /\ epoch \in [Clients -> Nat] /\ members \in [Clients -> SUBSET Clients]
           /\ state \in [Clients -> {"None", "Operational", "Inactive"}]
           /\ store \in [Clients -> Seq(Nat)] /\ used \in [Clients -> SUBSET MessageSet]
           /\ outbox \in [Clients -> Seq(MessageSet)]
           /\ welcomes \in SUBSET Welcome
           /\ delivered \in SUBSET [to : Clients, message : MessageSet]
  BY LenProperties DEF TypeOK, Entry, Welcome, Epochs

(* Making epochs and proposals longer disturbs nothing that is said about a *)
(* client, nor about welcomes and deliveries.                               *)
LEMMA GrowthKeeps ==
    ASSUME Inv,
           epochs' \in Seq(EpochSet), Extended(epochs, epochs'),
           proposals' \in Seq(Proposal), Extended(proposals, proposals')
    PROVE  /\ Len(epochs') \in Nat /\ Len(proposals') \in Nat
           /\ Epochs' = 1..Len(epochs') /\ Epochs \subseteq Epochs'
           /\ 1..Len(proposals) \subseteq 1..Len(proposals')
           /\ \A e \in Epochs : epochs'[e] = epochs[e]
           /\ \A r \in 1..Len(proposals) : proposals'[r] = proposals[r]
<1>1. Len(epochs) \in Nat /\ Len(proposals) \in Nat /\ Epochs = 1..Len(epochs)
  BY Types DEF Inv
<1>2. Len(epochs') \in Nat /\ Len(proposals') \in Nat
  BY LenProperties
<1> QED
  BY <1>1, <1>2 DEF Extended, Epochs

(* A call of propose_* without a commit. *)
LEMMA ProposeOnlyStep ==
    ASSUME Inv, NEW c \in Clients, NEW t \in Clients, NEW kind \in {"Add", "Remove", "Update"},
           kind = "Remove" => t \in members[c], ProposeOnly(c, kind, t)
    PROVE  Inv'
<1> DEFINE p == NewProposal(c, kind, t)
           r == Len(proposals) + 1
           m == ProposalMessage(c)
<1>0. TypeOK /\ MessagesGenuine /\ Active(c)
  BY DEF Inv, ProposeOnly, Propose
<1>1. /\ proposals' = Append(proposals, p) /\ authors' = authors \cup {c}
      /\ store' = [store EXCEPT ![c] = Append(@, r)]
      /\ Distribute(c, <<m>>)
      /\ UNCHANGED <<state, epoch, members, used, epochs, sent, welcomes, cursor, delivered>>
  BY DEF ProposeOnly, Propose
<1>2. epoch[c] \in Epochs /\ members[c] = epochs[epoch[c]].members /\ c \in members[c]
  BY <1>0 DEF Inv, EpochAgreement, Active
<1>3. p \in Proposal /\ p.epoch = epoch[c] /\ p.sender = c /\ p.kind = kind /\ p.target = t
  BY <1>0, Types DEF NewProposal, Proposal
<1>4. /\ m \in MessageSet /\ m.type = "proposal" /\ m.from = c /\ m.at = epoch[c] /\ m.id = r
      /\ r \in Nat
  BY <1>0, Types DEF ProposalMessage, Message, MessageSet
<1> HIDE DEF p, m
<1>5. /\ proposals' \in Seq(Proposal) /\ Extended(proposals, proposals')
      /\ Len(proposals') = r /\ proposals'[r] = p
      /\ epochs' \in Seq(EpochSet) /\ Extended(epochs, epochs')
  BY <1>0, <1>1, <1>3, Types, AppendExtends, ExtendedRefl
<1>6. /\ Epochs' = Epochs /\ 1..Len(proposals) \subseteq 1..Len(proposals')
      /\ \A x \in 1..Len(proposals) : proposals'[x] = proposals[x]
  BY <1>1, <1>5, GrowthKeeps DEF Epochs
<1>7. Genuine(m, epochs', proposals')
  BY <1>0, <1>1, <1>2, <1>3, <1>4, <1>5, Types DEF Genuine
<1>8. <<m>> \in Seq(MessageSet) /\ \A i \in 1..Len(<<m>>) : Genuine(<<m>>[i], epochs', proposals')
  BY <1>4, <1>7
<1>9. outbox' \in [Clients -> Seq(MessageSet)] /\ log' \in Seq(Entry) /\ MessagesGenuine'
  BY <1>0, <1>1, <1>5, <1>8, DistributeKeeps
<1>10. Queued(store'[c]) = Queued(store[c]) \cup {r} /\ store' \in [Clients -> Seq(Nat)]
  BY <1>0, <1>1, <1>4, Types, QueuedAppend, AppendProperties
<1>11. \A d \in Clients : d # c => store'[d] = store[d]
  BY <1>0, <1>1, Types
<1>12. TypeOK'
  BY <1>0, <1>1, <1>5, <1>9, <1>10 DEF TypeOK, Entry
<1>13. StoreKnown'
  BY <1>0, <1>1, <1>4, <1>5, <1>6, <1>10, <1>11, Types, SMTT(30) DEF Inv, StoreKnown, Active
<1>14. StoreIsCurrent'
  <2> SUFFICES ASSUME NEW d \in Clients, Active(d), NEW x \in Queued(store'[d])
               PROVE  /\ proposals'[x].epoch = epoch[d]
                      /\ proposals'[x].sender \in members[d]
                      /\ proposals'[x].kind = "Remove" => proposals'[x].target \in members[d]
    BY <1>1 DEF StoreIsCurrent, Active
  <2>1. CASE x \in Queued(store[d])
    BY <1>6, <2>1 DEF Inv, StoreKnown, StoreIsCurrent
  <2>2. CASE x \notin Queued(store[d])
    <3>1. d = c /\ x = r
      BY <1>10, <1>11, <2>2
    <3> QED
      BY <1>2, <1>3, <1>5, <3>1
  <2> QED
    BY <2>1, <2>2
<1>15. WelcomesGenuine' /\ ParentsFirst' /\ EpochAgreement' /\ OnlyMembersRead' /\ DeliveredBefore'
  BY <1>1, <1>6 DEF Inv, WelcomesGenuine, ParentsFirst, EpochAgreement, OnlyMembersRead,
     DeliveredBefore, Active
<1>16. MembersComputed'
  <2>1. ASSUME NEW e \in Epochs PROVE Computed(e, epochs', proposals')
    <3>1. /\ e \in 1..Len(epochs) /\ epochs[e].parent < e /\ Computed(e, epochs, proposals)
          /\ epochs \in Seq(EpochSet) /\ proposals \in Seq(Proposal)
      BY <1>0, <2>1, Types DEF Inv, ParentsFirst, MembersComputed, Epochs
    <3> QED
      BY <1>5, <3>1, ComputedStays
  <2> QED
    BY <1>6, <2>1 DEF MembersComputed
<1> QED
  BY <1>9, <1>12, <1>13, <1>14, <1>15, <1>16 DEF Inv

(* commit_to_pending_proposals and merge_pending_commit, alone or after the *)
(* proposal of the same call.                                               *)
LEMMA CommitStep ==
    ASSUME Inv, NEW c \in Clients, Active(c), NEW props \in Seq(Proposal), NEW q \in Seq(Nat),
           NEW first \in Seq(MessageSet), proposals' = props, Extended(proposals, props),
           Queued(q) \subseteq 1..Len(props),
           \A i \in 1..Len(first) : Genuine(first[i], epochs, props),
           authors' \in SUBSET Clients, CommitAndMerge(c, props, q, first)
    PROVE  Inv'
<1> DEFINE S   == FilterProposals(props, q, c)
           new == ApplyProposals(props, S, members[c])
           e   == Len(epochs) + 1
           x   == [by |-> c, parent |-> epoch[c], num |-> epochs[epoch[c]].num + 1,
                   line |-> epochs[epoch[c]].line \cup {e}, refs |-> S, members |-> new]
           m   == Message("commit", c, epoch[c], e)
<1>0. TypeOK /\ MessagesGenuine
  BY DEF Inv
<1>1. /\ CanCommit(props, S, members[c], c)
      /\ epochs' = Append(epochs, x)
      /\ epoch' = [epoch EXCEPT ![c] = e]
      /\ members' = [members EXCEPT ![c] = new]
      /\ store' = [store EXCEPT ![c] = <<>>]
      /\ used' = [used EXCEPT ![c] = {}]
      /\ Distribute(c, Append(first, m))
      /\ welcomes' = welcomes \cup {[to |-> t, epoch |-> e] : t \in Added(props, S)}
      /\ UNCHANGED <<state, sent, cursor, delivered>>
  BY DEF CommitAndMerge
<1>2. epoch[c] \in Epochs /\ members[c] = epochs[epoch[c]].members /\ c \in members[c]
  BY DEF Inv, EpochAgreement, Active
<1>3. /\ S \subseteq 1..Len(props) /\ S \subseteq Nat
      /\ new \in SUBSET Clients /\ Added(props, S) \in SUBSET Clients
      /\ Added(props, S) \subseteq new /\ c \in new
  <2>1. S \subseteq 1..Len(props)
    BY FilterSelects
  <2>2. members[c] \in SUBSET Clients /\ Len(props) \in Nat
    BY <1>0, Types, LenProperties
  <2>3. c \notin Removed(props, S)
    BY <1>1 DEF CanCommit
  <2> HIDE DEF S
  <2>4. S \in SUBSET (1..Len(props)) /\ S \subseteq Nat
    BY <2>1, <2>2
  <2>5. /\ new \in SUBSET Clients /\ Added(props, S) \in SUBSET Clients
        /\ Added(props, S) \subseteq new
        /\ \A d \in members[c] : d \notin Removed(props, S) => d \in new
    BY <2>2, <2>4, ApplyProperties, Zenon
  <2> QED
    BY <1>2, <2>1, <2>3, <2>4, <2>5
<1>4. /\ x \in EpochSet /\ x.members = new /\ x.parent = epoch[c] /\ e \in Nat
  <2>1. epochs[epoch[c]] \in EpochSet /\ epoch[c] \in Nat /\ e \in Nat
    BY <1>0, <1>2, Types, ElementOfSeq
  <2>2. epochs[epoch[c]].num \in Nat /\ epochs[epoch[c]].line \in SUBSET Nat
    BY <2>1 DEF EpochSet
  <2> HIDE DEF S, new, e
  <2> QED
    BY <1>3, <2>1, <2>2 DEF EpochSet
<1>5. /\ m \in MessageSet /\ m.type = "commit" /\ m.from = c /\ m.at = epoch[c] /\ m.id = e
  BY <1>0, <1>4, Types DEF Message, MessageSet
<1> HIDE DEF S, new, x, m
<1>6. /\ epochs' \in Seq(EpochSet) /\ Extended(epochs, epochs')
      /\ Len(epochs') = e /\ epochs'[e] = x /\ proposals' \in Seq(Proposal)
  BY <1>0, <1>1, <1>4, Types, AppendExtends
<1>7. /\ Epochs' = 1..e /\ Epochs \subseteq Epochs' /\ Epochs = 1..Len(epochs)
      /\ Len(epochs) \in Nat
      /\ 1..Len(proposals) \subseteq 1..Len(proposals')
      /\ \A i \in Epochs : epochs'[i] = epochs[i]
      /\ \A r \in 1..Len(proposals) : proposals'[r] = proposals[r]
  BY <1>0, <1>6, GrowthKeeps, Types
<1>8. Genuine(m, epochs', proposals')
  BY <1>2, <1>4, <1>5, <1>6, <1>7 DEF Genuine
<1>9. /\ Append(first, m) \in Seq(MessageSet)
      /\ \A i \in 1..Len(Append(first, m)) : Genuine(Append(first, m)[i], epochs', proposals')
  <2>1. /\ Append(first, m) \in Seq(MessageSet) /\ Len(first) \in Nat
        /\ Len(Append(first, m)) = Len(first) + 1 /\ Append(first, m)[Len(first) + 1] = m
        /\ \A i \in 1..Len(first) : Append(first, m)[i] = first[i]
    BY <1>5, AppendProperties, LenProperties
  <2>2. \A i \in 1..Len(first) : Genuine(first[i], epochs', proposals')
    <3> SUFFICES ASSUME NEW i \in 1..Len(first)
                 PROVE  Genuine(first[i], epochs', proposals')
      OBVIOUS
    <3>1. first[i] \in MessageSet
      BY ElementOfSeq
    <3>2. Extended(props, props)
      BY ExtendedRefl
    <3> QED
      BY <1>0, <1>6, <3>1, <3>2, Types, GenuineStays
  <2>3. ASSUME NEW i \in 1..Len(Append(first, m))
        PROVE  Genuine(Append(first, m)[i], epochs', proposals')
    <3>1. CASE i \in 1..Len(first)
      BY <2>1, <2>2, <3>1
    <3>2. CASE i = Len(first) + 1
      BY <1>8, <2>1, <3>2
    <3> QED
      BY <2>1, <2>3, <3>1, <3>2
  <2> QED
    BY <2>1, <2>3
<1>10. outbox' \in [Clients -> Seq(MessageSet)] /\ log' \in Seq(Entry) /\ MessagesGenuine'
  BY <1>0, <1>1, <1>6, <1>9, DistributeKeeps
<1>11. welcomes' \in SUBSET Welcome /\ WelcomesGenuine'
  <2> SUFFICES ASSUME NEW w \in welcomes'
               PROVE  w \in Welcome /\ w.epoch \in Epochs' /\ w.to \in epochs'[w.epoch].members
    BY DEF WelcomesGenuine
  <2>1. CASE w \in welcomes
    BY <1>0, <1>7, <2>1, Types DEF Inv, WelcomesGenuine
  <2>2. CASE w \notin welcomes
    <3>1. PICK t \in Added(props, S) : w = [to |-> t, epoch |-> e]
      BY <1>1, <2>2
    <3> QED
      BY <1>3, <1>4, <1>6, <1>7, <3>1 DEF Welcome
  <2> QED
    BY <2>1, <2>2
<1>12. /\ epoch'[c] = e /\ members'[c] = new /\ store'[c] = <<>> /\ used'[c] = {}
       /\ \A d \in Clients : d # c =>
            /\ epoch'[d] = epoch[d] /\ members'[d] = members[d]
            /\ store'[d] = store[d] /\ used'[d] = used[d]
       /\ state' = state
  BY <1>0, <1>1, Types
<1>13. TypeOK'
  <2>1. /\ epoch' \in [Clients -> Nat] /\ members' \in [Clients -> SUBSET Clients]
        /\ used' \in [Clients -> SUBSET MessageSet]
    BY <1>0, <1>1, <1>3, <1>4, Types
  <2>2. store' \in [Clients -> Seq(Nat)]
    BY <1>0, <1>1, Types, EmptySeq
  <2> QED
    BY <1>0, <1>1, <1>6, <1>10, <1>11, <2>1, <2>2 DEF TypeOK, Entry, Welcome
<1>14. ParentsFirst'
  <2> SUFFICES ASSUME NEW i \in 1..e
               PROVE  epochs'[i].parent < i
    BY <1>7 DEF ParentsFirst
  <2>1. CASE i = e
    BY <1>2, <1>4, <1>6, <1>7, <2>1
  <2>2. CASE i # e
    <3>1. i \in Epochs
      BY <1>7, <2>2
    <3> QED
      BY <1>7, <3>1 DEF Inv, ParentsFirst
  <2> QED
    BY <2>1, <2>2
<1>15. StoreKnown'
  BY <1>7, <1>12, QueuedEmpty DEF Inv, StoreKnown, Active
<1>16. StoreIsCurrent'
  <2> SUFFICES ASSUME NEW d \in Clients, Active(d), NEW r \in Queued(store'[d])
               PROVE  /\ proposals'[r].epoch = epoch'[d]
                      /\ proposals'[r].sender \in members'[d]
                      /\ proposals'[r].kind = "Remove" => proposals'[r].target \in members'[d]
    BY <1>12 DEF StoreIsCurrent, Active
  <2>1. d # c
    BY <1>12, QueuedEmpty
  <2>2. epoch'[d] = epoch[d] /\ members'[d] = members[d] /\ r \in Queued(store[d])
    BY <1>12, <2>1
  <2>3. /\ r \in 1..Len(proposals)
        /\ proposals[r].epoch = epoch[d]
        /\ proposals[r].sender \in members[d]
        /\ proposals[r].kind = "Remove" => proposals[r].target \in members[d]
    BY <2>2 DEF Inv, StoreKnown, StoreIsCurrent
  <2> QED
    BY <1>7, <2>2, <2>3
<1>17. EpochAgreement'
  <2> SUFFICES ASSUME NEW d \in Clients, state[d] # "None"
               PROVE  /\ epoch'[d] \in Epochs'
                      /\ members'[d] = epochs'[epoch'[d]].members
                      /\ Active(d) => d \in members'[d]
    BY <1>12 DEF EpochAgreement, Active
  <2>1. CASE d = c
    BY <1>3, <1>4, <1>6, <1>7, <1>12, <2>1
  <2>2. CASE d # c
    <3>1. epoch'[d] = epoch[d] /\ members'[d] = members[d]
      BY <1>12, <2>2
    <3>2. /\ epoch[d] \in Epochs /\ members[d] = epochs[epoch[d]].members
          /\ Active(d) => d \in members[d]
      BY DEF Inv, EpochAgreement
    <3> QED
      BY <1>7, <3>1, <3>2
  <2> QED
    BY <2>1, <2>2
<1>18. OnlyMembersRead'
  BY <1>1, <1>7 DEF Inv, OnlyMembersRead, DeliveredBefore
<1>19. DeliveredBefore'
  <2> SUFFICES ASSUME NEW d \in delivered
               PROVE  /\ state[d.to] # "None"
                      /\ d.message.at \in Epochs'
                      /\ d.message.at <= epoch'[d.to]
                      /\ d.message.at = epoch'[d.to] => d.message \in used'[d.to]
    BY <1>1 DEF DeliveredBefore
  <2>1. /\ d.to \in Clients /\ state[d.to] # "None" /\ d.message.at \in Epochs
        /\ d.message.at <= epoch[d.to]
        /\ d.message.at = epoch[d.to] => d.message \in used[d.to]
    BY <1>0, Types DEF Inv, DeliveredBefore
  <2>2. CASE d.to = c
    BY <1>7, <1>12, <2>1, <2>2
  <2>3. CASE d.to # c
    BY <1>7, <1>12, <2>1, <2>3
  <2> QED
    BY <2>2, <2>3
<1>20. MembersComputed'
  <2>1. ASSUME NEW i \in Epochs PROVE Computed(i, epochs', proposals')
    <3>1. /\ i \in 1..Len(epochs) /\ epochs[i].parent < i /\ Computed(i, epochs, proposals)
          /\ epochs \in Seq(EpochSet) /\ proposals \in Seq(Proposal)
      BY <1>0, <2>1, Types DEF Inv, ParentsFirst, MembersComputed, Epochs
    <3>2. Extended(proposals, proposals')
      OBVIOUS
    <3> QED
      BY <1>6, <3>1, <3>2, ComputedStays
  <2>2. Computed(e, epochs', proposals')
    <3>1. x.refs = S /\ epochs'[x.parent].members = members[c] /\ proposals' = props
      BY <1>2, <1>4, <1>7 DEF x
    <3> QED
      BY <1>3, <1>4, <1>6, <3>1 DEF Computed, new
  <2>3. \A i \in 1..e : i \in Epochs \/ i = e
    BY <1>7
  <2> QED
    BY <1>7, <2>1, <2>2, <2>3 DEF MembersComputed
<1> QED
  BY <1>10, <1>11, <1>13, <1>14, <1>15, <1>16, <1>17, <1>18, <1>19, <1>20 DEF Inv

(* Group.commit *)
LEMMA CommitOnlyStep ==
    ASSUME Inv, NEW c \in Clients, Commit(c)
    PROVE  Inv'
<1>1. /\ TypeOK /\ Active(c) /\ CommitAndMerge(c, proposals, store[c], <<>>)
      /\ authors' = authors \cup {c} /\ proposals' = proposals
  BY DEF Inv, Commit
<1>2. /\ proposals \in Seq(Proposal) /\ store[c] \in Seq(Nat) /\ Extended(proposals, proposals)
      /\ Queued(store[c]) \subseteq 1..Len(proposals)
  BY <1>1, Types, ExtendedRefl DEF Inv, StoreKnown
<1>3. <<>> \in Seq(MessageSet) /\ 1..Len(<<>>) = {}
  BY EmptySeq
<1>4. authors' \in SUBSET Clients
  BY <1>1 DEF TypeOK
<1> QED
  BY <1>1, <1>2, <1>3, <1>4, CommitStep

(* Group.add, remove and update: with the commit, or with the refusal that  *)
(* leaves the proposal in the queue.                                        *)
LEMMA ProposeAndCommitStep ==
    ASSUME Inv, NEW c \in Clients, NEW t \in Clients, NEW kind \in {"Add", "Remove", "Update"},
           kind = "Remove" => t \in members[c], ProposeAndCommit(c, kind, t)
    PROVE  Inv'
<1> DEFINE p == NewProposal(c, kind, t)
           r == Len(proposals) + 1
           m == ProposalMessage(c)
           props == Append(proposals, p)
           q == Append(store[c], r)
<1>0. TypeOK /\ MessagesGenuine /\ Active(c)
  BY DEF Inv, ProposeAndCommit, Propose
<1>1. proposals' = props /\ authors' = authors \cup {c}
  BY DEF ProposeAndCommit, Propose
<1>2. epoch[c] \in Epochs /\ members[c] = epochs[epoch[c]].members /\ c \in members[c]
  BY <1>0 DEF Inv, EpochAgreement, Active
<1>3. p \in Proposal /\ p.epoch = epoch[c] /\ p.sender = c /\ p.kind = kind /\ p.target = t
  BY <1>0, Types DEF NewProposal, Proposal
<1>4. /\ m \in MessageSet /\ m.type = "proposal" /\ m.from = c /\ m.at = epoch[c] /\ m.id = r
      /\ r \in Nat
  BY <1>0, Types DEF ProposalMessage, Message, MessageSet
<1>5. \/ CommitAndMerge(c, props, q, <<m>>)
      \/ /\ store' = [store EXCEPT ![c] = q]
         /\ UNCHANGED <<state, epoch, members, used, epochs, sent, outbox, log,
                        welcomes, cursor, delivered>>
  BY DEF ProposeAndCommit
<1> HIDE DEF p, m
<1>6. /\ props \in Seq(Proposal) /\ Extended(proposals, props) /\ Len(props) = r /\ props[r] = p
      /\ Len(proposals) \in Nat
      /\ \A x \in 1..Len(proposals) : props[x] = proposals[x]
  BY <1>0, <1>3, Types, AppendExtends DEF Extended
<1>7. q \in Seq(Nat) /\ Queued(q) = Queued(store[c]) \cup {r}
  BY <1>0, <1>4, Types, QueuedAppend, AppendProperties
<1>8. Queued(store[c]) \subseteq 1..Len(proposals)
  BY <1>0 DEF Inv, StoreKnown
<1> HIDE DEF props, q
<1>9. Queued(q) \subseteq 1..Len(props)
  BY <1>6, <1>7, <1>8
<1>10. CASE CommitAndMerge(c, props, q, <<m>>)
  <2>1. Genuine(m, epochs, props)
    BY <1>0, <1>2, <1>3, <1>4, <1>6, Types DEF Genuine
  <2>2. <<m>> \in Seq(MessageSet) /\ \A i \in 1..Len(<<m>>) : Genuine(<<m>>[i], epochs, props)
    BY <1>4, <2>1
  <2>3. authors' \in SUBSET Clients
    BY <1>0, <1>1 DEF TypeOK
  <2> QED
    BY <1>0, <1>1, <1>6, <1>7, <1>9, <1>10, <2>2, <2>3, CommitStep
<1>11. CASE /\ store' = [store EXCEPT ![c] = q]
            /\ UNCHANGED <<state, epoch, members, used, epochs, sent, outbox, log,
                           welcomes, cursor, delivered>>
  <2>1. store'[c] = q /\ \A d \in Clients : d # c => store'[d] = store[d]
    BY <1>0, <1>11, Types
  <2>2. TypeOK'
    BY <1>0, <1>1, <1>6, <1>7, <1>11 DEF TypeOK
  <2>3. MessagesGenuine'
    <3>1. epochs \in Seq(EpochSet) /\ Extended(epochs, epochs)
      BY <1>0, Types, ExtendedRefl
    <3>2. ASSUME NEW d \in Clients, NEW i \in 1..Len(outbox[d])
          PROVE  Genuine(outbox[d][i], epochs, props)
      <4>1. outbox[d][i] \in MessageSet /\ Genuine(outbox[d][i], epochs, proposals)
        BY <1>0, Types, ElementOfSeq DEF MessagesGenuine
      <4> QED
        BY <1>0, <1>6, <3>1, <4>1, Types, GenuineStays
    <3>3. ASSUME NEW i \in 1..Len(log)
          PROVE  Genuine(log[i].message, epochs, props)
      <4>1. log[i] \in Entry /\ Genuine(log[i].message, epochs, proposals)
        BY <1>0, Types, ElementOfSeq DEF MessagesGenuine
      <4>2. log[i].message \in MessageSet
        BY <4>1 DEF Entry
      <4> QED
        BY <1>0, <1>6, <3>1, <4>1, <4>2, Types, GenuineStays
    <3> QED
      BY <1>1, <1>11, <3>2, <3>3 DEF MessagesGenuine
  <2>4. StoreKnown'
    <3> SUFFICES ASSUME NEW d \in Clients
                 PROVE  /\ Active(d) => Queued(store'[d]) \subseteq 1..Len(props)
                        /\ state[d] = "None" => store'[d] = <<>>
      BY <1>1, <1>11 DEF StoreKnown, Active
    <3>1. CASE d = c
      BY <1>0, <1>9, <2>1, <3>1 DEF Active
    <3>2. CASE d # c
      BY <1>6, <2>1, <3>2 DEF Inv, StoreKnown
    <3> QED
      BY <3>1, <3>2
  <2>5. StoreIsCurrent'
    <3> SUFFICES ASSUME NEW d \in Clients, Active(d), NEW x \in Queued(store'[d])
                 PROVE  /\ props[x].epoch = epoch[d]
                        /\ props[x].sender \in members[d]
                        /\ props[x].kind = "Remove" => props[x].target \in members[d]
      BY <1>1, <1>11 DEF StoreIsCurrent, Active
    <3>1. CASE x \in Queued(store[d])
      BY <1>6, <3>1 DEF Inv, StoreKnown, StoreIsCurrent
    <3>2. CASE x \notin Queued(store[d])
      <4>1. d = c /\ x = r
        BY <1>7, <2>1, <3>2
      <4> QED
        BY <1>2, <1>3, <1>6, <4>1
    <3> QED
      BY <3>1, <3>2
  <2>6. /\ WelcomesGenuine' /\ ParentsFirst' /\ EpochAgreement' /\ OnlyMembersRead'
        /\ DeliveredBefore'
    BY <1>11 DEF Inv, WelcomesGenuine, ParentsFirst, EpochAgreement, OnlyMembersRead,
       DeliveredBefore, Active, Epochs
  <2>7. MembersComputed'
    <3>1. ASSUME NEW e \in Epochs PROVE Computed(e, epochs, props)
      <4>1. /\ e \in 1..Len(epochs) /\ epochs[e].parent < e /\ Computed(e, epochs, proposals)
            /\ epochs \in Seq(EpochSet) /\ proposals \in Seq(Proposal) /\ Extended(epochs, epochs)
        BY <1>0, <3>1, Types, ExtendedRefl DEF Inv, ParentsFirst, MembersComputed, Epochs
      <4> QED
        BY <1>6, <4>1, ComputedStays
    <3> QED
      BY <1>1, <1>11, <3>1 DEF MembersComputed, Epochs
  <2> QED
    BY <2>2, <2>3, <2>4, <2>5, <2>6, <2>7 DEF Inv
<1> QED
  BY <1>5, <1>10, <1>11

(* Group.send *)
LEMMA SendStep ==
    ASSUME Inv, NEW c \in Clients, Send(c)
    PROVE  Inv'
<1> DEFINE m == Message("application", c, epoch[c], sent + 1)
<1>0. TypeOK /\ MessagesGenuine /\ Active(c)
  BY DEF Inv, Send
<1>1. /\ Distribute(c, <<m>>) /\ sent' = sent + 1
      /\ UNCHANGED <<state, epoch, members, store, used, proposals, epochs, welcomes, cursor,
                     delivered, authors>>
  BY DEF Send, groupVars
<1>2. epoch[c] \in Epochs /\ members[c] = epochs[epoch[c]].members /\ c \in members[c]
  BY <1>0 DEF Inv, EpochAgreement, Active
<1>3. m \in MessageSet /\ m.type = "application" /\ m.from = c /\ m.at = epoch[c] /\ sent' \in Nat
  BY <1>0, <1>1 DEF Message, MessageSet, TypeOK
<1> HIDE DEF m
<1>4. /\ epochs' \in Seq(EpochSet) /\ Extended(epochs, epochs')
      /\ proposals' \in Seq(Proposal) /\ Extended(proposals, proposals')
  BY <1>0, <1>1, Types, ExtendedRefl
<1>5. Genuine(m, epochs', proposals')
  BY <1>0, <1>1, <1>2, <1>3, Types DEF Genuine
<1>6. <<m>> \in Seq(MessageSet) /\ \A i \in 1..Len(<<m>>) : Genuine(<<m>>[i], epochs', proposals')
  BY <1>3, <1>5
<1>7. outbox' \in [Clients -> Seq(MessageSet)] /\ log' \in Seq(Entry) /\ MessagesGenuine'
  BY <1>0, <1>1, <1>4, <1>6, DistributeKeeps
<1>8. TypeOK'
  BY <1>0, <1>1, <1>3, <1>7 DEF TypeOK, Entry
<1> QED
  BY <1>1, <1>7, <1>8 DEF Inv, WelcomesGenuine, ParentsFirst, MembersComputed, StoreKnown, EpochAgreement,
     StoreIsCurrent, OnlyMembersRead, DeliveredBefore, Active, Epochs

(* The delivery service appends a message of an outbox to the log. *)
LEMMA PublishStep ==
    ASSUME Inv, NEW c \in Clients, Publish(c)
    PROVE  Inv'
<1> DEFINE m == Head(outbox[c])
<1>0. TypeOK /\ MessagesGenuine
  BY DEF Inv
<1>1. /\ outbox[c] # <<>> /\ log' = PublishTo(log, m)
      /\ outbox' = [outbox EXCEPT ![c] = Tail(@)]
      /\ UNCHANGED <<state, epoch, members, store, used, proposals, epochs, sent, welcomes, cursor,
                     delivered, authors>>
  BY DEF Publish, groupVars
<1>2. /\ m \in MessageSet /\ m = outbox[c][1] /\ 1 \in 1..Len(outbox[c])
      /\ Tail(outbox[c]) \in Seq(MessageSet) /\ Len(Tail(outbox[c])) = Len(outbox[c]) - 1
      /\ \A i \in 1..Len(Tail(outbox[c])) : Tail(outbox[c])[i] = outbox[c][i + 1]
      /\ Len(outbox[c]) \in Nat
  <2>1. outbox[c] \in Seq(MessageSet) /\ Len(outbox[c]) \in Nat
    BY <1>0, Types, LenProperties
  <2> QED
    BY <1>1, <2>1, HeadTailProperties, EmptySeq
<1> HIDE DEF m
<1>3. /\ log' \in Seq(Entry) /\ Len(log') = Len(log) + 1 /\ log'[Len(log) + 1].message = m
      /\ \A i \in 1..Len(log) : log'[i] = log[i]
  <2>1. StoredMessage(Len(log) + 1, m) \in Entry /\ StoredMessage(Len(log) + 1, m).message = m
    BY <1>0, <1>2, Types DEF StoredMessage, Entry
  <2>2. log' = Append(log, StoredMessage(Len(log) + 1, m))
    BY <1>1 DEF PublishTo
  <2> QED
    BY <1>0, <2>1, <2>2, Types, AppendProperties
<1>4. outbox' \in [Clients -> Seq(MessageSet)]
  BY <1>0, <1>1, <1>2, Types
<1>5. MessagesGenuine'
  <2>1. ASSUME NEW d \in Clients, NEW i \in 1..Len(outbox'[d])
        PROVE  Genuine(outbox'[d][i], epochs, proposals)
    <3>1. CASE d = c
      <4>1. outbox'[d][i] = outbox[c][i + 1] /\ i + 1 \in 1..Len(outbox[c])
        BY <1>0, <1>1, <1>2, <3>1, Types
      <4> QED
        BY <1>0, <4>1 DEF MessagesGenuine
    <3>2. CASE d # c
      <4>1. outbox'[d] = outbox[d]
        BY <1>0, <1>1, <3>2, Types
      <4> QED
        BY <1>0, <4>1 DEF MessagesGenuine
    <3> QED
      BY <3>1, <3>2
  <2>2. Genuine(m, epochs, proposals)
    BY <1>0, <1>2 DEF MessagesGenuine
  <2>3. ASSUME NEW i \in 1..Len(log')
        PROVE  Genuine(log'[i].message, epochs, proposals)
    <3>1. CASE i \in 1..Len(log)
      BY <1>0, <1>3, <3>1 DEF MessagesGenuine
    <3>2. CASE i = Len(log) + 1
      BY <1>3, <2>2, <3>2
    <3> QED
      BY <1>0, <1>3, <2>3, <3>1, <3>2, Types
  <2> QED
    BY <1>1, <2>1, <2>3 DEF MessagesGenuine
<1>6. TypeOK'
  BY <1>0, <1>1, <1>3, <1>4 DEF TypeOK, Entry
<1> QED
  BY <1>1, <1>5, <1>6 DEF Inv, WelcomesGenuine, ParentsFirst, MembersComputed, StoreKnown, EpochAgreement,
     StoreIsCurrent, OnlyMembersRead, DeliveredBefore, Active, Epochs

(* An entry of the log that Group.receive reads is a genuine message, and    *)
(* the cursors stay numbers.                                                 *)
LEMMA ReadsGenuine ==
    ASSUME Inv, NEW c \in Clients, NEW i \in 1..Len(log), Reads(c, i)
    PROVE  /\ log[i].message \in MessageSet
           /\ Genuine(log[i].message, epochs, proposals)
           /\ cursor' \in [Clients -> Nat]
<1>1. TypeOK
  BY DEF Inv
<1>2. log[i] \in Entry /\ i \in Nat
  BY <1>1, Types, ElementOfSeq
<1>3. cursor \in [Clients -> Nat]
  BY <1>1 DEF TypeOK
<1> QED
  BY <1>2, <1>3 DEF Inv, MessagesGenuine, Entry, Reads

(* Nothing but the cursor, and the keys that a client has consumed. *)
LEMMA ConsumeStep ==
    ASSUME Inv, NEW c \in Clients, cursor' \in [Clients -> Nat],
           used' \in [Clients -> SUBSET MessageSet],
           \A d \in Clients : used[d] \subseteq used'[d],
           UNCHANGED <<state, epoch, members, store, proposals, epochs, sent, outbox, log,
                       welcomes, delivered, authors>>
    PROVE  Inv'
<1>1. TypeOK
  BY DEF Inv
<1>2. TypeOK'
  BY <1>1 DEF TypeOK
<1>3. \A d \in delivered : d.to \in Clients
  BY <1>1, Types
<1>4. DeliveredBefore'
  BY <1>3 DEF Inv, DeliveredBefore, Epochs
<1> QED
  BY <1>2, <1>4 DEF Inv, MessagesGenuine, WelcomesGenuine, ParentsFirst, MembersComputed, StoreKnown,
     EpochAgreement, StoreIsCurrent, OnlyMembersRead, Active, Epochs

(* A commit that is refused after decryption only consumes its key. *)
LEMMA RefuseStep ==
    ASSUME Inv, NEW c \in Clients, NEW i \in 1..Len(log), RefuseCommit(c, i)
    PROVE  Inv'
<1>1. used \in [Clients -> SUBSET MessageSet]
  BY Types DEF Inv
<1>2. log[i].message \in MessageSet /\ cursor' \in [Clients -> Nat]
  BY ReadsGenuine DEF RefuseCommit
<1>3. used' = [used EXCEPT ![c] = @ \cup {log[i].message}]
  BY DEF RefuseCommit, Consume
<1>4. /\ used' \in [Clients -> SUBSET MessageSet]
      /\ \A d \in Clients : used[d] \subseteq used'[d]
  BY <1>1, <1>2, <1>3
<1>5. UNCHANGED <<state, epoch, members, store, proposals, epochs, sent, outbox, log,
                  welcomes, delivered, authors>>
  BY DEF RefuseCommit
<1> QED
  BY <1>2, <1>4, <1>5, ConsumeStep

(* A log entry that does not decrypt only moves the cursor. *)
LEMMA SkipStep ==
    ASSUME Inv, NEW c \in Clients, NEW i \in 1..Len(log), Skip(c, i)
    PROVE  Inv'
<1>1. used \in [Clients -> SUBSET MessageSet]
  BY Types DEF Inv
<1>2. cursor' \in [Clients -> Nat]
  BY ReadsGenuine DEF Skip
<1>3. UNCHANGED <<state, epoch, members, store, used, proposals, epochs, sent, outbox, log,
                  welcomes, delivered, authors>>
  BY DEF Skip, groupVars
<1> QED
  BY <1>1, <1>2, <1>3, ConsumeStep

(* A message that decrypts is of the client's epoch, and its sender a member. *)
LEMMA DecryptedInEpoch ==
    ASSUME Inv, NEW c \in Clients, NEW m \in MessageSet, Genuine(m, epochs, proposals),
           Decrypts(c, m)
    PROVE  /\ Active(c) /\ m.at = epoch[c] /\ m \notin used[c]
           /\ epoch[c] \in Epochs /\ members[c] = epochs[epoch[c]].members
           /\ c \in members[c] /\ m.from \in members[c]
  BY DEF Inv, Decrypts, HasSecrets, EpochAgreement, Genuine, Active

(* Storing a received proposal: it is of the current epoch, by a member. *)
LEMMA ReceiveProposalStep ==
    ASSUME Inv, NEW c \in Clients, NEW i \in 1..Len(log), ReceiveProposal(c, i)
    PROVE  Inv'
<1> DEFINE m == log[i].message
<1>0. TypeOK
  BY DEF Inv
<1>1. m \in MessageSet /\ Genuine(m, epochs, proposals) /\ cursor' \in [Clients -> Nat]
  BY ReadsGenuine DEF ReceiveProposal
<1>2. /\ Decrypts(c, m) /\ m.type = "proposal"
      /\ used' = [used EXCEPT ![c] = @ \cup {m}]
      /\ store' = [store EXCEPT ![c] = Append(@, m.id)]
      /\ UNCHANGED <<state, epoch, members, proposals, epochs, sent, outbox, log,
                     welcomes, delivered, authors>>
  BY DEF ReceiveProposal, Consume
<1> HIDE DEF m
<1>3. /\ Active(c) /\ m.at = epoch[c] /\ members[c] = epochs[epoch[c]].members
      /\ m.from \in members[c] /\ m.id \in Nat
  BY <1>1, <1>2, DecryptedInEpoch DEF MessageSet
<1>4. /\ m.id \in 1..Len(proposals) /\ proposals[m.id].epoch = m.at
      /\ proposals[m.id].sender = m.from
      /\ proposals[m.id].kind = "Remove" => proposals[m.id].target \in epochs[m.at].members
  BY <1>1, <1>2 DEF Genuine
<1>5. Queued(store'[c]) = Queued(store[c]) \cup {m.id} /\ store' \in [Clients -> Seq(Nat)]
  BY <1>0, <1>2, <1>3, Types, QueuedAppend, AppendProperties
<1>6. \A d \in Clients : /\ d # c => store'[d] = store[d]
                         /\ used[d] \subseteq used'[d]
  BY <1>0, <1>2, Types
<1>7. used' \in [Clients -> SUBSET MessageSet]
  BY <1>0, <1>1, <1>2, Types
<1>8. TypeOK'
  BY <1>0, <1>1, <1>2, <1>5, <1>7 DEF TypeOK
<1>9. StoreKnown'
  BY <1>2, <1>3, <1>4, <1>5, <1>6 DEF Inv, StoreKnown, Active
<1>10. StoreIsCurrent'
  <2> SUFFICES ASSUME NEW d \in Clients, Active(d), NEW x \in Queued(store'[d])
               PROVE  /\ proposals[x].epoch = epoch[d]
                      /\ proposals[x].sender \in members[d]
                      /\ proposals[x].kind = "Remove" => proposals[x].target \in members[d]
    BY <1>2 DEF StoreIsCurrent, Active
  <2>1. CASE x \in Queued(store[d])
    BY <2>1 DEF Inv, StoreIsCurrent
  <2>2. CASE x \notin Queued(store[d])
    <3>1. d = c /\ x = m.id
      BY <1>5, <1>6, <2>2
    <3> QED
      BY <1>3, <1>4, <3>1
  <2> QED
    BY <2>1, <2>2
<1>11. DeliveredBefore'
  <2>1. \A d \in delivered : d.to \in Clients
    BY <1>0, Types
  <2> QED
    BY <1>2, <1>6, <2>1 DEF Inv, DeliveredBefore, Epochs
<1> QED
  BY <1>2, <1>8, <1>9, <1>10, <1>11 DEF Inv, MessagesGenuine, WelcomesGenuine, ParentsFirst, MembersComputed,
     EpochAgreement, OnlyMembersRead, Active, Epochs

(* Decrypting an application message: its reader and its sender are members *)
(* of its epoch.                                                            *)
LEMMA ReceiveApplicationStep ==
    ASSUME Inv, NEW c \in Clients, NEW i \in 1..Len(log), ReceiveApplication(c, i)
    PROVE  Inv'
<1> DEFINE m == log[i].message
           n == [to |-> c, message |-> m]
<1>0. TypeOK
  BY DEF Inv
<1>1. m \in MessageSet /\ Genuine(m, epochs, proposals) /\ cursor' \in [Clients -> Nat]
  BY ReadsGenuine DEF ReceiveApplication
<1>2. /\ Decrypts(c, m)
      /\ used' = [used EXCEPT ![c] = @ \cup {m}]
      /\ delivered' = delivered \cup {n}
      /\ UNCHANGED <<state, epoch, members, store, proposals, epochs, sent, outbox, log,
                     welcomes, authors>>
  BY DEF ReceiveApplication, Consume
<1> HIDE DEF m
<1>3. /\ Active(c) /\ m.at = epoch[c] /\ epoch[c] \in Epochs
      /\ members[c] = epochs[epoch[c]].members /\ c \in members[c] /\ m.from \in members[c]
  BY <1>1, <1>2, DecryptedInEpoch
<1>4. used'[c] = used[c] \cup {m} /\ \A d \in Clients : used[d] \subseteq used'[d]
  BY <1>0, <1>2, Types
<1>5. used' \in [Clients -> SUBSET MessageSet]
  BY <1>0, <1>1, <1>2, Types
<1>6. n \in [to : Clients, message : MessageSet] /\ n.to = c /\ n.message = m
  BY <1>1
<1> HIDE DEF n
<1>7. TypeOK'
  BY <1>0, <1>1, <1>2, <1>5, <1>6 DEF TypeOK
<1>8. OnlyMembersRead'
  BY <1>2, <1>3, <1>6 DEF Inv, OnlyMembersRead
<1>9. DeliveredBefore'
  <2> SUFFICES ASSUME NEW d \in delivered'
               PROVE  /\ state[d.to] # "None"
                      /\ d.message.at \in Epochs
                      /\ d.message.at <= epoch[d.to]
                      /\ d.message.at = epoch[d.to] => d.message \in used'[d.to]
    BY <1>2 DEF DeliveredBefore, Epochs
  <2>1. CASE d \in delivered
    <3>1. d.to \in Clients
      BY <1>0, <2>1, Types
    <3> QED
      BY <1>4, <2>1, <3>1 DEF Inv, DeliveredBefore
  <2>2. CASE d = n
    BY <1>0, <1>3, <1>4, <1>6, <2>2, Types DEF Active
  <2> QED
    BY <1>2, <2>1, <2>2
<1> QED
  BY <1>2, <1>7, <1>8, <1>9 DEF Inv, MessagesGenuine, WelcomesGenuine, ParentsFirst, MembersComputed, StoreKnown,
     EpochAgreement, StoreIsCurrent, Active, Epochs

(* merge_staged_commit: the client enters the epoch of the commit with the *)
(* membership its committer computed, or becomes inactive.                 *)
LEMMA ReceiveCommitStep ==
    ASSUME Inv, NEW c \in Clients, NEW i \in 1..Len(log), ReceiveCommit(c, i)
    PROVE  Inv' /\ epochs'[epoch'[c]].parent = epoch[c] /\ Active(c)
                /\ \A d \in Clients : d # c =>
                     epoch'[d] = epoch[d] /\ members'[d] = members[d] /\ state'[d] = state[d]
<1> DEFINE m == log[i].message
           e == m.id
           S == epochs[e].refs
           new == ApplyProposals(proposals, S, members[c])
           gone == c \in Removed(proposals, S)
<1>0. TypeOK
  BY DEF Inv
<1>1. m \in MessageSet /\ Genuine(m, epochs, proposals) /\ cursor' \in [Clients -> Nat]
  BY ReadsGenuine DEF ReceiveCommit
<1>2. /\ Decrypts(c, m) /\ m.type = "commit" /\ Stages(c, e)
      /\ UNCHANGED <<proposals, epochs, sent, outbox, log, welcomes, delivered, authors>>
  BY DEF ReceiveCommit
<1>3. /\ epoch' = [epoch EXCEPT ![c] = e]
      /\ members' = [members EXCEPT ![c] = new]
      /\ state' = [state EXCEPT ![c] = IF gone THEN "Inactive" ELSE @]
      /\ store' = [store EXCEPT ![c] = IF gone THEN @ ELSE <<>>]
      /\ used' = [used EXCEPT ![c] = IF gone THEN @ \cup {m} ELSE {}]
  BY <1>0, Types DEF ReceiveCommit, MergeStaged
<1> HIDE DEF m
<1>4. /\ Active(c) /\ m.at = epoch[c] /\ members[c] = epochs[epoch[c]].members
      /\ c \in members[c] /\ epoch[c] \in Epochs
  BY <1>1, <1>2, DecryptedInEpoch
<1>5. e \in Epochs /\ epochs[e].parent = epoch[c] /\ e \in Nat
  BY <1>0, <1>1, <1>2, <1>4, Types DEF Genuine
<1>6. epoch[c] < e
  BY <1>5 DEF Inv, ParentsFirst
<1>7. new = epochs[e].members /\ new \in SUBSET Clients /\ (~gone => c \in new)
  <2>1. new = epochs[e].members /\ S \subseteq Queued(store[c])
    <3>1. Computed(e, epochs, proposals) /\ epochs[e].parent \in 1..Len(epochs)
      BY <1>4, <1>5 DEF Inv, MembersComputed, Epochs
    <3> QED
      BY <1>2, <1>4, <1>5, <3>1 DEF Stages, Computed
  <2>2. S \in SUBSET (1..Len(proposals)) /\ members[c] \in SUBSET Clients
        /\ proposals \in Seq(Proposal)
    BY <1>0, <1>4, <2>1, Types DEF Inv, StoreKnown
  <2> HIDE DEF S
  <2>3. new \in SUBSET Clients /\ \A d \in members[c] : d \notin Removed(proposals, S) => d \in new
    BY <2>2, ApplyProperties, Zenon
  <2> QED
    BY <1>4, <2>1, <2>3
<1> HIDE DEF e, S, new, gone
<1>8. /\ epoch'[c] = e /\ members'[c] = new
      /\ state'[c] = (IF gone THEN "Inactive" ELSE state[c])
      /\ ~gone => store'[c] = <<>>
      /\ \A d \in Clients : d # c =>
           /\ epoch'[d] = epoch[d] /\ members'[d] = members[d] /\ state'[d] = state[d]
           /\ store'[d] = store[d] /\ used'[d] = used[d]
  BY <1>0, <1>3, Types
<1>9. state[c] = "Operational" /\ (state'[c] = "Operational" => ~gone) /\ state'[c] # "None"
  BY <1>4, <1>8 DEF Active
<1>10. TypeOK'
  <2>1. /\ epoch' \in [Clients -> Nat] /\ members' \in [Clients -> SUBSET Clients]
    BY <1>0, <1>3, <1>5, <1>7, Types
  <2>2. state' \in [Clients -> {"None", "Operational", "Inactive"}]
    BY <1>0, <1>3, Types
  <2>3. store' \in [Clients -> Seq(Nat)]
    BY <1>0, <1>3, Types, EmptySeq
  <2>4. used' \in [Clients -> SUBSET MessageSet]
    BY <1>0, <1>1, <1>3, Types
  <2> QED
    BY <1>0, <1>1, <1>2, <2>1, <2>2, <2>3, <2>4 DEF TypeOK
<1>11. StoreKnown' /\ StoreIsCurrent'
  <2>0. \A d \in Clients : state'[d] = "None" => store'[d] = <<>>
    BY <1>8, <1>9 DEF Inv, StoreKnown
  <2> SUFFICES ASSUME NEW d \in Clients, state'[d] = "Operational", NEW x \in Queued(store'[d])
               PROVE  /\ x \in 1..Len(proposals)
                      /\ proposals[x].epoch = epoch'[d]
                      /\ proposals[x].sender \in members'[d]
                      /\ proposals[x].kind = "Remove" => proposals[x].target \in members'[d]
    BY <1>2, <2>0 DEF StoreKnown, StoreIsCurrent, Active
  <2>1. d # c
    BY <1>8, <1>9, QueuedEmpty
  <2>2. /\ epoch'[d] = epoch[d] /\ members'[d] = members[d] /\ x \in Queued(store[d])
        /\ Active(d)
    BY <1>8, <2>1 DEF Active
  <2> QED
    BY <2>2 DEF Inv, StoreKnown, StoreIsCurrent
<1>12. EpochAgreement'
  <2> SUFFICES ASSUME NEW d \in Clients, state'[d] # "None"
               PROVE  /\ epoch'[d] \in Epochs
                      /\ members'[d] = epochs[epoch'[d]].members
                      /\ state'[d] = "Operational" => d \in members'[d]
    BY <1>2 DEF EpochAgreement, Active, Epochs
  <2>1. CASE d = c
    BY <1>5, <1>7, <1>8, <1>9, <2>1
  <2>2. CASE d # c
    BY <1>8, <2>2 DEF Inv, EpochAgreement, Active
  <2> QED
    BY <2>1, <2>2
<1>13. DeliveredBefore'
  <2> SUFFICES ASSUME NEW d \in delivered
               PROVE  /\ state'[d.to] # "None"
                      /\ d.message.at \in Epochs
                      /\ d.message.at <= epoch'[d.to]
                      /\ d.message.at = epoch'[d.to] => d.message \in used'[d.to]
    BY <1>2 DEF DeliveredBefore, Epochs
  <2>1. /\ d.to \in Clients /\ state[d.to] # "None" /\ d.message.at \in Epochs
        /\ d.message.at <= epoch[d.to]
        /\ d.message.at = epoch[d.to] => d.message \in used[d.to]
    BY <1>0, Types DEF Inv, DeliveredBefore
  <2>2. CASE d.to = c
    <3>1. epoch[c] \in Nat /\ d.message.at \in Nat
      BY <1>0, <2>1, Types
    <3> QED
      BY <1>5, <1>6, <1>8, <1>9, <2>1, <2>2, <3>1
  <2>3. CASE d.to # c
    BY <1>8, <2>1, <2>3
  <2> QED
    BY <2>2, <2>3
<1>14. Inv'
  BY <1>2, <1>10, <1>11, <1>12, <1>13 DEF Inv, MessagesGenuine, WelcomesGenuine, ParentsFirst, MembersComputed,
     OnlyMembersRead, Epochs
<1> QED
  BY <1>2, <1>4, <1>5, <1>8, <1>14

(* joinGroup: the joiner enters the epoch that added it; a client that has *)
(* the group is refused and unchanged.                                     *)
LEMMA JoinStep ==
    ASSUME Inv, NEW c \in Clients, NEW w \in welcomes, Join(c, w)
    PROVE  Inv'
<1>0. TypeOK /\ w \in Welcome /\ w.to = c /\ w.epoch \in Epochs
      /\ c \in epochs[w.epoch].members
  BY Types DEF Inv, WelcomesGenuine, Join
<1>1. /\ welcomes' = welcomes \ {w}
      /\ UNCHANGED <<store, used, proposals, epochs, sent, outbox, log, cursor, delivered, authors>>
  BY DEF Join, groupVars
<1>2. CASE /\ state[c] = "None"
           /\ state'   = [state EXCEPT ![c] = "Operational"]
           /\ epoch'   = [epoch EXCEPT ![c] = w.epoch]
           /\ members' = [members EXCEPT ![c] = epochs[w.epoch].members]
  <2>1. /\ state'[c] = "Operational" /\ epoch'[c] = w.epoch
        /\ members'[c] = epochs[w.epoch].members
        /\ \A d \in Clients : d # c =>
             state'[d] = state[d] /\ epoch'[d] = epoch[d] /\ members'[d] = members[d]
    BY <1>0, <1>2, Types
  <2>2. store[c] = <<>>
    BY <1>2 DEF Inv, StoreKnown
  <2>3. TypeOK'
    <3>1. epochs[w.epoch] \in EpochSet
      BY <1>0, Types, ElementOfSeq
    <3>2. epochs[w.epoch].members \in SUBSET Clients /\ w.epoch \in Nat
      BY <1>0, <3>1 DEF EpochSet, Welcome
    <3>3. /\ state' \in [Clients -> {"None", "Operational", "Inactive"}]
          /\ epoch' \in [Clients -> Nat] /\ members' \in [Clients -> SUBSET Clients]
      BY <1>0, <1>2, <3>2, Types
    <3> QED
      BY <1>0, <1>1, <3>3 DEF TypeOK
  <2>4. StoreKnown' /\ StoreIsCurrent'
    <3> SUFFICES ASSUME NEW d \in Clients
                 PROVE  /\ state'[d] = "None" => store[d] = <<>>
                        /\ state'[d] = "Operational" => \A x \in Queued(store[d]) :
                             /\ x \in 1..Len(proposals)
                             /\ proposals[x].epoch = epoch'[d]
                             /\ proposals[x].sender \in members'[d]
                             /\ proposals[x].kind = "Remove" =>
                                  proposals[x].target \in members'[d]
      BY <1>1 DEF StoreKnown, StoreIsCurrent, Active
    <3>1. CASE d = c
      BY <2>1, <2>2, <3>1, QueuedEmpty
    <3>2. CASE d # c
      BY <2>1, <3>2 DEF Inv, StoreKnown, StoreIsCurrent, Active
    <3> QED
      BY <3>1, <3>2
  <2>5. EpochAgreement'
    <3> SUFFICES ASSUME NEW d \in Clients, state'[d] # "None"
                 PROVE  /\ epoch'[d] \in Epochs
                        /\ members'[d] = epochs[epoch'[d]].members
                        /\ state'[d] = "Operational" => d \in members'[d]
      BY <1>1 DEF EpochAgreement, Active, Epochs
    <3>1. CASE d = c
      BY <1>0, <2>1, <3>1
    <3>2. CASE d # c
      BY <2>1, <3>2 DEF Inv, EpochAgreement, Active
    <3> QED
      BY <3>1, <3>2
  <2>6. DeliveredBefore'
    <3>1. \A d \in delivered : d.to \in Clients /\ d.to # c
      BY <1>0, <1>2, Types DEF Inv, DeliveredBefore
    <3> QED
      BY <1>1, <2>1, <3>1 DEF Inv, DeliveredBefore, Epochs
  <2> QED
    BY <1>1, <2>3, <2>4, <2>5, <2>6 DEF Inv, MessagesGenuine, WelcomesGenuine, ParentsFirst, MembersComputed,
       OnlyMembersRead, Epochs
<1>3. CASE UNCHANGED <<state, epoch, members>>
  <2>1. TypeOK'
    BY <1>0, <1>1, <1>3 DEF TypeOK
  <2> QED
    BY <1>1, <1>3, <2>1 DEF Inv, MessagesGenuine, WelcomesGenuine, ParentsFirst, MembersComputed, StoreKnown,
       EpochAgreement, StoreIsCurrent, OnlyMembersRead, DeliveredBefore, Active, Epochs
<1> QED
  BY <1>2, <1>3 DEF Join, groupVars

(* Every call of the facade and every delivery preserves the invariant. *)
LEMMA InvNext == Inv /\ [Next]_vars => Inv'
<1> SUFFICES ASSUME Inv, [Next]_vars
             PROVE  Inv'
  OBVIOUS
<1>1. ASSUME NEW c \in Clients, NEW t \in Clients,
             ProposeAdd(c, t) \/ ProposeRemove(c, t) \/ Add(c, t) \/ Remove(c, t)
      PROVE  Inv'
  BY <1>1, ProposeOnlyStep, ProposeAndCommitStep DEF ProposeAdd, ProposeRemove, Add, Remove
<1>2. ASSUME NEW c \in Clients, ProposeUpdate(c) \/ Update(c)
      PROVE  Inv'
  BY <1>2, ProposeOnlyStep, ProposeAndCommitStep DEF ProposeUpdate, Update
<1>3. ASSUME NEW c \in Clients, Leave(c)
      PROVE  Inv'
  <2>1. c \in members[c] /\ ProposeOnly(c, "Remove", c)
    BY <1>3 DEF Inv, EpochAgreement, Active, Leave, ProposeOnly, Propose
  <2> QED
    BY <2>1, ProposeOnlyStep
<1>4. ASSUME NEW c \in Clients, Commit(c) \/ Send(c) \/ Publish(c)
      PROVE  Inv'
  BY <1>4, CommitOnlyStep, SendStep, PublishStep
<1>5. ASSUME NEW c \in Clients, NEW w \in welcomes, Join(c, w)
      PROVE  Inv'
  BY <1>5, JoinStep
<1>6. ASSUME NEW c \in Clients, NEW i \in 1..Len(log),
             ReceiveProposal(c, i) \/ ReceiveApplication(c, i) \/ ReceiveCommit(c, i)
               \/ RefuseCommit(c, i) \/ Skip(c, i)
      PROVE  Inv'
  BY <1>6, ReceiveProposalStep, ReceiveApplicationStep, ReceiveCommitStep, RefuseStep, SkipStep
<1>7. CASE UNCHANGED vars
  <2>1. TypeOK'
    BY <1>7 DEF Inv, TypeOK, vars, groupVars
  <2> QED
    BY <1>7, <2>1 DEF vars, groupVars, Inv, MessagesGenuine, WelcomesGenuine, ParentsFirst, MembersComputed,
       StoreKnown, EpochAgreement, StoreIsCurrent, OnlyMembersRead, DeliveredBefore, Active, Epochs
<1> QED
  BY <1>1, <1>2, <1>3, <1>4, <1>5, <1>6, <1>7 DEF Next

(* Inv is an invariant of the session. *)
LEMMA InvAlways == Spec => []Inv
  BY InvInit, InvNext, PTL DEF Spec
-----------------------------------------------------------------------------
(* The state of every client, of the log and of the messages under way has   *)
(* its type, for every number of clients and calls of the facade.            *)
THEOREM TypeCorrect == Spec => []TypeOK
<1>1. Inv => TypeOK
  BY DEF Inv
<1> QED
  BY <1>1, InvAlways, PTL

(* Clients that share the secrets of an epoch agree on who is in the group,  *)
(* and an active client is one of them: commit_to_pending_proposals and      *)
(* merge_staged_commit compute the same membership, however calls and        *)
(* deliveries interleave and whatever forks they lead to.                    *)
THEOREM MembersAgree == Spec => []EpochAgreement
<1>1. Inv => EpochAgreement
  BY DEF Inv
<1> QED
  BY <1>1, InvAlways, PTL

(* Whoever decrypts an application message was a member in the epoch it was  *)
(* encrypted in, and so was its sender.                                      *)
THEOREM MembersRead == Spec => []OnlyMembersRead
<1>1. Inv => OnlyMembersRead
  BY DEF Inv
<1> QED
  BY <1>1, InvAlways, PTL

(* An active client's ProposalStore holds proposals of its current epoch, by *)
(* its members, and removes only members.                                    *)
THEOREM StoresAreCurrent == Spec => []StoreIsCurrent
<1>1. Inv => StoreIsCurrent
  BY DEF Inv
<1> QED
  BY <1>1, InvAlways, PTL

(* No application message is handed out twice: a message decrypted in the    *)
(* current epoch has its key consumed, and an epoch that was left is never   *)
(* entered again, because a client only moves to later commits.              *)
THEOREM NoSecondDelivery == Spec => DeliveredOnce
<1> DEFINE Once == \A c \in Clients, i \in 1..Len(log) :
             ReceiveApplication(c, i) => [to |-> c, message |-> log[i].message] \notin delivered
<1>1. Inv => Once
  <2> SUFFICES ASSUME Inv, NEW c \in Clients, NEW i \in 1..Len(log), ReceiveApplication(c, i)
               PROVE  [to |-> c, message |-> log[i].message] \notin delivered
    OBVIOUS
  <2> DEFINE m == log[i].message
  <2>1. m.at = epoch[c] /\ m \notin used[c]
    BY DEF ReceiveApplication, Decrypts, HasSecrets
  <2> HIDE DEF m
  <2>2. \A d \in delivered : d.to = c /\ d.message = m => m \in used[c]
    BY <2>1 DEF Inv, DeliveredBefore
  <2>3. [to |-> c, message |-> m] \notin delivered
    BY <2>1, <2>2
  <2> QED
    BY <2>3 DEF m
<1> QED
  BY <1>1, InvAlways, PTL DEF Spec, DeliveredOnce

(* The client that commits moves from its epoch to the one it creates. *)
LEMMA CommitAdvances ==
    ASSUME TypeOK, NEW c \in Clients, Active(c), NEW props, NEW q, NEW first,
           CommitAndMerge(c, props, q, first)
    PROVE  \A d \in Clients :
              \/ <<epoch[d], state[d], members[d]>>' = <<epoch[d], state[d], members[d]>>
              \/ Active(d) /\ epochs'[epoch'[d]].parent = epoch[d]
<1> DEFINE S   == FilterProposals(props, q, c)
           new == ApplyProposals(props, S, members[c])
           e   == Len(epochs) + 1
           x   == [by |-> c, parent |-> epoch[c], num |-> epochs[epoch[c]].num + 1,
                   line |-> epochs[epoch[c]].line \cup {e}, refs |-> S, members |-> new]
<1>1. /\ epochs' = Append(epochs, x) /\ epoch' = [epoch EXCEPT ![c] = e]
      /\ members' = [members EXCEPT ![c] = new] /\ state' = state
  BY DEF CommitAndMerge
<1>2. x.parent = epoch[c]
  OBVIOUS
<1> HIDE DEF x, new
<1>3. epochs'[e] = x
  BY <1>1, Types, LenProperties
<1>4. epoch'[c] = e
  BY <1>1, Types
<1>5. \A d \in Clients : d # c => epoch'[d] = epoch[d] /\ members'[d] = members[d]
  BY <1>1, Types
<1> HIDE DEF e
<1> QED
  BY <1>1, <1>2, <1>3, <1>4, <1>5

(* A client that has the group moves from an epoch only to one that a commit *)
(* made in that epoch created, and a removed client never moves again.       *)
THEOREM NoRollback == Spec => EpochsAdvance
<1> DEFINE Moves(d) == \/ <<epoch[d], state[d], members[d]>>' = <<epoch[d], state[d], members[d]>>
                       \/ Active(d) /\ epochs'[epoch'[d]].parent = epoch[d]
           Advance == \A d \in Clients : state[d] # "None" => Moves(d)
           Stays == UNCHANGED <<epoch, state, members>>
<1>1. Inv /\ [Next]_vars => Advance
  <2> SUFFICES ASSUME Inv, [Next]_vars
               PROVE  Advance
    OBVIOUS
  <2>0. TypeOK
    BY DEF Inv
  <2>1. ASSUME Stays PROVE Advance
    BY <2>1
  <2>2. ASSUME NEW c \in Clients, NEW kind, NEW t, ProposeOnly(c, kind, t)
        PROVE  Stays
    BY <2>2 DEF ProposeOnly
  <2>3. ASSUME NEW c \in Clients, NEW kind, NEW t, ProposeAndCommit(c, kind, t)
        PROVE  Advance
    <3>1. Active(c)
      BY <2>3 DEF ProposeAndCommit, Propose
    <3>2. \/ Stays
          \/ CommitAndMerge(c, Append(proposals, NewProposal(c, kind, t)),
                            Append(store[c], Len(proposals) + 1), <<ProposalMessage(c)>>)
      BY <2>3 DEF ProposeAndCommit
    <3> QED
      BY <2>0, <2>1, <3>1, <3>2, CommitAdvances
  <2>4. ASSUME NEW c \in Clients, Commit(c)
        PROVE  Advance
    BY <2>0, <2>4, CommitAdvances DEF Commit
  <2>5. ASSUME NEW c \in Clients, Send(c) \/ Publish(c)
        PROVE  Stays
    BY <2>5 DEF Send, Publish, groupVars
  <2>6. ASSUME NEW c \in Clients, NEW i \in 1..Len(log), ReceiveCommit(c, i)
        PROVE  Advance
    BY <2>6, ReceiveCommitStep
  <2>7. ASSUME NEW c \in Clients, NEW i \in 1..Len(log),
               ReceiveProposal(c, i) \/ ReceiveApplication(c, i) \/ RefuseCommit(c, i) \/ Skip(c, i)
        PROVE  Stays
    BY <2>7 DEF ReceiveProposal, ReceiveApplication, RefuseCommit, Skip, groupVars
  <2>8. ASSUME NEW c \in Clients, NEW w \in welcomes, Join(c, w)
        PROVE  Advance
    BY <2>0, <2>8, Types DEF Join, groupVars
  <2>9. CASE UNCHANGED vars
    BY <2>9 DEF vars, groupVars
  <2> HIDE DEF Advance, Stays
  <2> QED
    BY <2>1, <2>2, <2>3, <2>4, <2>5, <2>6, <2>7, <2>8, <2>9 DEF Next, ProposeAdd, ProposeRemove,
       ProposeUpdate, Leave, Add, Remove, Update
<1>2. Advance => \A c \in Clients :
         state[c] # "None" /\ <<epoch[c], state[c], members[c]>>' # <<epoch[c], state[c], members[c]>> =>
            /\ Active(c)
            /\ epochs'[epoch'[c]].parent = epoch[c]
  OBVIOUS
<1> QED
  BY <1>1, <1>2, InvAlways, PTL DEF Spec, EpochsAdvance
-----------------------------------------------------------------------------
(***************************************************************************)
(* What the order of the log gives the members of a group that read it in  *)
(* order (Ordered), for any number of clients, proposals and commits: when *)
(* a commit can be refused, that one committer leaves nobody behind, and   *)
(* that members which only read agree.                                     *)
(***************************************************************************)
IsProposal(m, r) == m.type = "proposal" /\ m.id = r
IsCommit(m, e) == m.type = "commit" /\ m.id = e
-----------------------------------------------------------------------------
(* The steps of the session, by what they do to the messages and to the     *)
(* client that takes them.                                                  *)

(* A call that leaves a proposal in the caller's store: its message goes to *)
(* the outbox, or is lost with the exception of a refused commit.           *)
Proposes(c) ==
    /\ Active(c)
    /\ \E p \in Proposal : p.sender = c /\ p.epoch = epoch[c] /\ proposals' = Append(proposals, p)
    /\ store' = [store EXCEPT ![c] = Append(@, Len(proposals) + 1)]
    /\ authors' = authors \cup {c} /\ log' = log
    /\ \/ outbox' = outbox
       \/ outbox' = [outbox EXCEPT ![c] = @ \o <<ProposalMessage(c)>>]
    /\ UNCHANGED <<state, epoch, members, used, epochs, welcomes, cursor>>

(* The epoch that a commit of c over the references S creates. *)
NewEpoch(c, props, S) ==
    [by |-> c, parent |-> epoch[c], num |-> epochs[epoch[c]].num + 1,
     line |-> epochs[epoch[c]].line \cup {Len(epochs) + 1}, refs |-> S,
     members |-> ApplyProposals(props, S, members[c])]

CommitMessage(c) == Message("commit", c, epoch[c], Len(epochs) + 1)

(* A call that commits, alone or with a proposal of its own. *)
Commits(c) ==
    /\ Active(c)
    /\ \/ proposals' = proposals /\ outbox' = [outbox EXCEPT ![c] = @ \o <<CommitMessage(c)>>]
       \/ /\ \E p \in Proposal : p.sender = c /\ p.epoch = epoch[c] /\ proposals' = Append(proposals, p)
          /\ outbox' = [outbox EXCEPT ![c] = @ \o Append(<<ProposalMessage(c)>>, CommitMessage(c))]
    /\ \E S \in SUBSET (1..Len(proposals')) :
         /\ \A r \in S : proposals'[r].epoch = epoch[c]
         /\ CanCommit(proposals', S, members[c], c)
         /\ epochs' = Append(epochs, NewEpoch(c, proposals', S))
         /\ welcomes' = welcomes \cup {[to |-> t, epoch |-> Len(epochs) + 1] : t \in Added(proposals', S)}
    /\ epoch' = [epoch EXCEPT ![c] = Len(epochs) + 1]
    /\ \A d \in Clients : d # c => members'[d] = members[d]
    /\ store' = [store EXCEPT ![c] = <<>>]
    /\ used' = [used EXCEPT ![c] = {}]
    /\ authors' = authors \cup {c} /\ log' = log
    /\ UNCHANGED <<state, cursor>>

(* The next entry of the log, by a client that has the group. *)
ReadsNext(c, i) ==
    /\ state[c] # "None" /\ i = cursor[c] + 1 /\ i \in 1..Len(log)
    /\ cursor' = [cursor EXCEPT ![c] = i]
    /\ UNCHANGED <<proposals, epochs, outbox, log, welcomes, authors>>

Stores(c, i) ==
    /\ ReadsNext(c, i) /\ Decrypts(c, log[i].message) /\ log[i].message.type = "proposal"
    /\ store' = [store EXCEPT ![c] = Append(@, log[i].message.id)]
    /\ used' = [used EXCEPT ![c] = @ \cup {log[i].message}]
    /\ UNCHANGED <<state, epoch, members>>

Enters(c, i) ==
    LET m == log[i].message
        gone == c \in Removed(proposals, epochs[m.id].refs)
    IN  /\ ReadsNext(c, i) /\ Decrypts(c, m) /\ m.type = "commit" /\ Stages(c, m.id)
        /\ epoch' = [epoch EXCEPT ![c] = m.id]
        /\ members' = [members EXCEPT ![c] = ApplyProposals(proposals, epochs[m.id].refs, @)]
        /\ state' = [state EXCEPT ![c] = IF gone THEN "Inactive" ELSE @]
        /\ store' = [store EXCEPT ![c] = IF gone THEN @ ELSE <<>>]
        /\ used' = [used EXCEPT ![c] = IF gone THEN @ \cup {m} ELSE {}]

(* A refused commit or an application message costs its key. *)
Consumes(c, i) ==
    /\ ReadsNext(c, i) /\ Decrypts(c, log[i].message)
    /\ \/ log[i].message.type = "application"
       \/ log[i].message.type = "commit" /\ ~Stages(c, log[i].message.id)
    /\ used' = [used EXCEPT ![c] = @ \cup {log[i].message}]
    /\ UNCHANGED <<state, epoch, members, store>>

Skips(c, i) ==
    /\ ReadsNext(c, i) /\ ~Decrypts(c, log[i].message)
    /\ UNCHANGED <<state, epoch, members, store, used>>

Joins(c) ==
    /\ state[c] = "None"
    /\ \E w \in welcomes : w.to = c /\ epoch' = [epoch EXCEPT ![c] = w.epoch]
                        /\ members' = [members EXCEPT ![c] = epochs[w.epoch].members]
    /\ state' = [state EXCEPT ![c] = "Operational"]
    /\ UNCHANGED <<store, used, proposals, epochs, outbox, log, cursor, authors>>

(* Nothing that the order is about. *)
Idles ==
    UNCHANGED <<state, epoch, members, store, used, proposals, epochs, log, cursor, authors>>

Sends(c) ==
    /\ Active(c)
    /\ \E k \in Nat : outbox' = [outbox EXCEPT ![c] = @ \o <<Message("application", c, epoch[c], k)>>]
    /\ Idles

Publishes(c) ==
    /\ Publish(c)
    /\ UNCHANGED <<state, epoch, members, store, used, proposals, epochs, cursor, authors>>

(* Every step of members that read in order is one of these. *)
LEMMA StepKinds ==
    ASSUME Ordered, Inv, [Next]_vars
    PROVE  \/ \E c \in Clients : Proposes(c) \/ Commits(c) \/ Joins(c) \/ Sends(c) \/ Publishes(c)
           \/ \E c \in Clients : \E i \in 1..Len(log) :
                Stores(c, i) \/ Enters(c, i) \/ Consumes(c, i) \/ Skips(c, i)
           \/ Idles /\ UNCHANGED outbox
<1> DEFINE Goal == \/ \E c \in Clients : Proposes(c) \/ Commits(c) \/ Joins(c) \/ Sends(c) \/ Publishes(c)
                   \/ \E c \in Clients : \E i \in 1..Len(log) :
                        Stores(c, i) \/ Enters(c, i) \/ Consumes(c, i) \/ Skips(c, i)
                   \/ Idles /\ UNCHANGED outbox
<1>0. TypeOK
  BY DEF Inv
<1>1. /\ epoch \in [Clients -> Nat] /\ store \in [Clients -> Seq(Nat)] /\ proposals \in Seq(Proposal)
      /\ Len(proposals) \in Nat /\ outbox \in [Clients -> Seq(MessageSet)] /\ sent \in Nat
  BY <1>0, Types DEF TypeOK
<1>2. ASSUME NEW c \in Clients, NEW kind \in {"Add", "Remove", "Update"}, NEW t \in Clients
      PROVE  NewProposal(c, kind, t) \in Proposal /\ NewProposal(c, kind, t).sender = c
             /\ NewProposal(c, kind, t).epoch = epoch[c]
  BY <1>1 DEF NewProposal, Proposal
<1>3. ASSUME NEW c \in Clients, NEW kind \in {"Add", "Remove", "Update"}, NEW t \in Clients,
             ProposeOnly(c, kind, t)
      PROVE  Proposes(c)
  BY <1>2, <1>3 DEF ProposeOnly, Propose, Distribute, Proposes
<1>4. ASSUME NEW c \in Clients, NEW props \in Seq(Proposal), NEW q \in Seq(Nat), NEW first,
             Active(c), CommitAndMerge(c, props, q, first), proposals' = props, authors' = authors \cup {c},
             Queued(q) \subseteq 1..Len(props), \A r \in Queued(q) : props[r].epoch = epoch[c],
             \/ props = proposals /\ first = <<>>
             \/ /\ \E p \in Proposal : p.sender = c /\ p.epoch = epoch[c] /\ props = Append(proposals, p)
                /\ first = <<ProposalMessage(c)>>
      PROVE  Commits(c)
  <2> DEFINE S == FilterProposals(props, q, c)
             m == CommitMessage(c)
  <2>1. S \in SUBSET (1..Len(proposals')) /\ \A r \in S : proposals'[r].epoch = epoch[c]
    BY <1>4, FilterSelects
  <2>2. /\ CanCommit(proposals', S, members[c], c)
        /\ epochs' = Append(epochs, NewEpoch(c, proposals', S))
        /\ welcomes' = welcomes \cup {[to |-> x, epoch |-> Len(epochs) + 1] : x \in Added(proposals', S)}
    BY <1>4 DEF CommitAndMerge, NewEpoch
  <2>3. /\ epoch' = [epoch EXCEPT ![c] = Len(epochs) + 1]
        /\ store' = [store EXCEPT ![c] = <<>>]
        /\ used' = [used EXCEPT ![c] = {}]
        /\ UNCHANGED <<state, cursor>>
        /\ Distribute(c, Append(first, m))
    BY <1>4 DEF CommitAndMerge, CommitMessage
  <2>7. \A d \in Clients : d # c => members'[d] = members[d]
    BY <1>0, <1>4, Types DEF CommitAndMerge
  <2> HIDE DEF S, m
  <2>4. log' = log /\ outbox' = [outbox EXCEPT ![c] = @ \o Append(first, m)]
    BY <2>3 DEF Distribute
  <2>5. CASE props = proposals /\ first = <<>>
    <3>1. Append(first, m) = <<m>>
      BY <2>5
    <3>2. outbox' = [outbox EXCEPT ![c] = @ \o <<m>>]
      BY <2>4, <3>1
    <3> QED
      BY <1>4, <2>1, <2>2, <2>3, <2>4, <2>5, <2>7, <3>2 DEF Commits, m
  <2>6. CASE /\ \E p \in Proposal : p.sender = c /\ p.epoch = epoch[c] /\ props = Append(proposals, p)
             /\ first = <<ProposalMessage(c)>>
    <3>1. Append(first, m) = Append(<<ProposalMessage(c)>>, m)
      BY <2>6
    <3>2. outbox' = [outbox EXCEPT ![c] = @ \o Append(<<ProposalMessage(c)>>, m)]
      BY <2>4, <3>1
    <3> QED
      BY <1>4, <2>1, <2>2, <2>3, <2>4, <2>6, <2>7, <3>2 DEF Commits, m
  <2> QED
    BY <1>4, <2>5, <2>6
<1>5. ASSUME NEW c \in Clients, Active(c)
      PROVE  Queued(store[c]) \subseteq 1..Len(proposals) /\ \A r \in Queued(store[c]) : proposals[r].epoch = epoch[c]
  BY <1>5 DEF Inv, StoreKnown, StoreIsCurrent
<1>6. ASSUME NEW c \in Clients, Commit(c) PROVE Commits(c)
  <2>1. /\ Active(c) /\ CommitAndMerge(c, proposals, store[c], <<>>)
        /\ authors' = authors \cup {c} /\ proposals' = proposals
    BY <1>6 DEF Commit
  <2> QED
    BY <1>1, <1>4, <1>5, <2>1
<1>7. ASSUME NEW c \in Clients, NEW kind \in {"Add", "Remove", "Update"}, NEW t \in Clients,
             ProposeAndCommit(c, kind, t)
      PROVE  Proposes(c) \/ Commits(c)
  <2> DEFINE p == NewProposal(c, kind, t)
             props == Append(proposals, p)
             q == Append(store[c], Len(proposals) + 1)
  <2>1. Active(c) /\ proposals' = props /\ authors' = authors \cup {c}
    BY <1>7 DEF ProposeAndCommit, Propose
  <2>2. p \in Proposal /\ p.sender = c /\ p.epoch = epoch[c]
    BY <1>2
  <2>3. \/ CommitAndMerge(c, props, q, <<ProposalMessage(c)>>)
        \/ /\ store' = [store EXCEPT ![c] = q]
           /\ UNCHANGED <<state, epoch, members, used, epochs, outbox, log, welcomes, cursor>>
    BY <1>7 DEF ProposeAndCommit
  <2> HIDE DEF p
  <2>4. /\ props \in Seq(Proposal) /\ Len(props) = Len(proposals) + 1 /\ props[Len(proposals) + 1] = p
        /\ \A r \in 1..Len(proposals) : props[r] = proposals[r]
    BY <1>1, <2>2, AppendProperties
  <2>5. q \in Seq(Nat) /\ Queued(q) = Queued(store[c]) \cup {Len(proposals) + 1}
    BY <1>1, QueuedAppend, AppendProperties
  <2>6. Queued(q) \subseteq 1..Len(props) /\ \A r \in Queued(q) : props[r].epoch = epoch[c]
    <3>1. /\ Queued(store[c]) \subseteq 1..Len(proposals)
          /\ \A r \in Queued(store[c]) : proposals[r].epoch = epoch[c]
      BY <1>5, <2>1
    <3>2. 1..Len(proposals) \subseteq 1..Len(props) /\ Len(proposals) + 1 \in 1..Len(props)
      BY <1>1, <2>4
    <3> QED
      BY <2>2, <2>4, <2>5, <3>1, <3>2
  <2>7. \E x \in Proposal : x.sender = c /\ x.epoch = epoch[c] /\ props = Append(proposals, x)
    BY <2>2
  <2>8. CASE CommitAndMerge(c, props, q, <<ProposalMessage(c)>>)
    <3> HIDE DEF props, q
    <3> QED
      BY <1>4, <2>1, <2>4, <2>5, <2>6, <2>7, <2>8
  <2>9. CASE /\ store' = [store EXCEPT ![c] = q]
             /\ UNCHANGED <<state, epoch, members, used, epochs, outbox, log, welcomes, cursor>>
    BY <2>1, <2>7, <2>9 DEF Proposes
  <2> QED
    BY <2>3, <2>8, <2>9
<1>8. ASSUME NEW c \in Clients, Send(c) PROVE Sends(c)
  <2>1. sent + 1 \in Nat
    BY <1>1
  <2> QED
    BY <1>8, <2>1 DEF Send, Distribute, Sends, Idles, groupVars
<1>9. ASSUME NEW c \in Clients, Publish(c) PROVE Publishes(c)
  BY <1>9 DEF Publish, Publishes, groupVars
<1>10. ASSUME NEW c \in Clients, NEW w \in welcomes, Join(c, w) PROVE Joins(c) \/ (Idles /\ UNCHANGED outbox)
  BY <1>10 DEF Join, Joins, Idles, groupVars
<1>11. ASSUME NEW c \in Clients, NEW i \in 1..Len(log), Reads(c, i),
              UNCHANGED <<proposals, epochs, outbox, log, welcomes, authors>>
       PROVE  ReadsNext(c, i)
  BY <1>11 DEF Reads, ReadsNext
<1>12. ASSUME NEW c \in Clients, NEW i \in 1..Len(log), ReceiveProposal(c, i) PROVE Stores(c, i)
  BY <1>11, <1>12 DEF ReceiveProposal, Consume, Stores
<1>13. ASSUME NEW c \in Clients, NEW i \in 1..Len(log), ReceiveApplication(c, i) \/ RefuseCommit(c, i)
       PROVE  Consumes(c, i)
  BY <1>11, <1>13 DEF ReceiveApplication, RefuseCommit, Consume, Consumes
<1>14. ASSUME NEW c \in Clients, NEW i \in 1..Len(log), ReceiveCommit(c, i) PROVE Enters(c, i)
  BY <1>11, <1>14 DEF ReceiveCommit, MergeStaged, Enters
<1>15. ASSUME NEW c \in Clients, NEW i \in 1..Len(log), Skip(c, i) PROVE Skips(c, i)
  BY <1>11, <1>15 DEF Skip, Skips, groupVars
<1>16. CASE UNCHANGED vars
  BY <1>16 DEF vars, groupVars, Idles
<1> SUFFICES Goal
  OBVIOUS
<1> HIDE DEF Goal
<1>17. CASE Next
  <2>1. ASSUME NEW c \in Clients, NEW t \in Clients,
               ProposeAdd(c, t) \/ ProposeRemove(c, t) \/ Add(c, t) \/ Remove(c, t)
        PROVE  Goal
    BY <1>3, <1>7, <2>1 DEF ProposeAdd, ProposeRemove, Add, Remove, Goal
  <2>2. ASSUME NEW c \in Clients, ProposeUpdate(c) \/ Update(c) \/ Leave(c) PROVE Goal
    BY <1>3, <1>7, <2>2 DEF ProposeUpdate, Update, Leave, Goal
  <2>3. ASSUME NEW c \in Clients, Commit(c) \/ Send(c) \/ Publish(c) PROVE Goal
    BY <1>6, <1>8, <1>9, <2>3 DEF Goal
  <2>4. ASSUME NEW c \in Clients, NEW w \in welcomes, Join(c, w) PROVE Goal
    BY <1>10, <2>4 DEF Goal
  <2>5. ASSUME NEW c \in Clients, NEW i \in 1..Len(log),
               ReceiveProposal(c, i) \/ ReceiveApplication(c, i) \/ ReceiveCommit(c, i)
                 \/ RefuseCommit(c, i) \/ Skip(c, i)
        PROVE  Goal
    BY <1>12, <1>13, <1>14, <1>15, <2>5 DEF Goal
  <2> QED
    BY <1>17, <2>1, <2>2, <2>3, <2>4, <2>5 DEF Next
<1> QED
  BY <1>16, <1>17 DEF Goal
-----------------------------------------------------------------------------
(* When a commit can be refused.                                            *)

(* A client without the group has read nothing, and nobody reads ahead. *)
CursorsInLog ==
    \A c \in Clients : cursor[c] <= Len(log) /\ (state[c] = "None" => cursor[c] = 0 /\ used[c] = {})

(* A proposal was made by a client with the group, in an epoch it has been in. *)
SendersKnown ==
    \A r \in 1..Len(proposals) :
        /\ state[proposals[r].sender] # "None"
        /\ proposals[r].epoch <= epoch[proposals[r].sender]

(* The own proposals of the current epoch are in the own store, and so are  *)
(* those that have been decrypted in it.                                    *)
OwnQueued ==
    \A c \in Clients : Active(c) =>
        /\ \A r \in 1..Len(proposals) :
             proposals[r].sender = c /\ proposals[r].epoch = epoch[c] => r \in Queued(store[c])
        /\ \A m \in used[c] : m.type = "proposal" => m.id \in Queued(store[c])

(* A commit covers proposals of the epoch it ends, and was valid there. *)
CommitsValid ==
    \A e \in Epochs :
        LET x == epochs[e] IN
        /\ x.parent = 0 \/ x.parent \in Epochs
        /\ x.refs \subseteq 1..Len(proposals)
        /\ \A r \in x.refs : proposals[r].epoch = x.parent
        /\ x.parent # 0 =>
             /\ CanCommit(proposals, x.refs, epochs[x.parent].members, x.by)
             /\ ApplyProposals(proposals, x.refs, epochs[x.parent].members) = x.members

(* What a member has read of proposals of its epoch is in its store, unless *)
(* it has read the commit that started the epoch after them.                *)
SeenBy(c, j) ==
    LET m == log[j].message IN
    m.type = "proposal" /\ m.at = epoch[c] /\ m.from # c =>
        \/ m.id \in Queued(store[c])
        \/ \E k \in j+1..cursor[c] : IsCommit(log[k].message, epoch[c])

SeenQueued == \A c \in Clients : Active(c) => \A j \in 1..cursor[c] : SeenBy(c, j)

ReadInv == CursorsInLog /\ SendersKnown /\ OwnQueued /\ CommitsValid /\ SeenQueued

(* A commit stays valid when there are more proposals and epochs. *)
LEMMA CommitsStay ==
    ASSUME Inv, CommitsValid, epochs' \in Seq(EpochSet), Extended(epochs, epochs'),
           proposals' \in Seq(Proposal), Extended(proposals, proposals'),
           NEW e \in Epochs
    PROVE  LET x == epochs'[e] IN
           /\ x = epochs[e]
           /\ x.parent = 0 \/ x.parent \in Epochs'
           /\ x.refs \subseteq 1..Len(proposals')
           /\ \A r \in x.refs : proposals'[r].epoch = x.parent
           /\ x.parent # 0 =>
                /\ CanCommit(proposals', x.refs, epochs'[x.parent].members, x.by)
                /\ ApplyProposals(proposals', x.refs, epochs'[x.parent].members) = x.members
<1> DEFINE x == epochs[e]
           S == x.refs
           M == epochs[x.parent].members
<1>1. /\ Epochs \subseteq Epochs' /\ 1..Len(proposals) \subseteq 1..Len(proposals')
      /\ \A i \in Epochs : epochs'[i] = epochs[i]
      /\ \A r \in 1..Len(proposals) : proposals'[r] = proposals[r]
  BY GrowthKeeps
<1>2. /\ x.parent = 0 \/ x.parent \in Epochs
      /\ S \in SUBSET (1..Len(proposals)) /\ \A r \in S : proposals[r].epoch = x.parent
      /\ x.parent # 0 => CanCommit(proposals, S, M, x.by) /\ ApplyProposals(proposals, S, M) = x.members
  BY DEF CommitsValid
<1>3. /\ CanCommit(proposals', S, M, x.by) <=> CanCommit(proposals, S, M, x.by)
      /\ ApplyProposals(proposals', S, M) = ApplyProposals(proposals, S, M)
  <2> DEFINE ps == proposals
             qs == proposals'
  <2>1. Extended(ps, qs) /\ S \in SUBSET (1..Len(ps))
    BY <1>2
  <2> HIDE DEF qs, S, M, x, ps
  <2>2. /\ CanCommit(qs, S, M, x.by) <=> CanCommit(ps, S, M, x.by)
        /\ ApplyProposals(qs, S, M) = ApplyProposals(ps, S, M)
    BY <2>1, LaterProposals
  <2> QED
    BY <2>2 DEF ps, qs
<1>4. epochs'[e] = x
  BY <1>1
<1>5. x.parent # 0 => epochs'[x.parent].members = M
  BY <1>1, <1>2
<1> HIDE DEF x, S, M
<1>6. /\ x.parent = 0 \/ x.parent \in Epochs'
      /\ S \subseteq 1..Len(proposals')
      /\ \A r \in S : proposals'[r].epoch = x.parent
  BY <1>1, <1>2
<1>7. x.parent # 0 =>
         /\ CanCommit(proposals', S, epochs'[x.parent].members, x.by)
         /\ ApplyProposals(proposals', S, epochs'[x.parent].members) = x.members
  BY <1>2, <1>3, <1>5
<1> QED
  BY <1>4, <1>6, <1>7 DEF x, S

(* One more proposal. *)
LEMMA OneMoreProposal ==
    ASSUME TypeOK, NEW p \in Proposal, proposals' = Append(proposals, p)
    PROVE  /\ proposals' \in Seq(Proposal) /\ Extended(proposals, proposals')
           /\ Len(proposals) \in Nat /\ Len(proposals') = Len(proposals) + 1
           /\ proposals'[Len(proposals) + 1] = p
           /\ \A r \in 1..Len(proposals') :
                (r \in 1..Len(proposals) /\ proposals'[r] = proposals[r]) \/ r = Len(proposals) + 1
<1>1. proposals \in Seq(Proposal) /\ Len(proposals) \in Nat
  BY Types
<1>2. /\ proposals' \in Seq(Proposal) /\ Extended(proposals, proposals')
      /\ Len(proposals') = Len(proposals) + 1 /\ proposals'[Len(proposals) + 1] = p
  BY <1>1, AppendExtends
<1>3. \A r \in 1..(Len(proposals) + 1) : r \in 1..Len(proposals) \/ r = Len(proposals) + 1
  BY <1>1
<1> QED
  BY <1>1, <1>2, <1>3 DEF Extended

(* Proposing. *)
LEMMA ProposesRead ==
    ASSUME Inv, ReadInv, NEW c \in Clients, Proposes(c)
    PROVE  ReadInv'
<1>0. TypeOK
  BY DEF Inv
<1>1. PICK p \in Proposal : p.sender = c /\ p.epoch = epoch[c] /\ proposals' = Append(proposals, p)
  BY DEF Proposes
<1>2. /\ Active(c) /\ store' = [store EXCEPT ![c] = Append(@, Len(proposals) + 1)] /\ log' = log
      /\ UNCHANGED <<state, epoch, members, used, epochs, cursor>>
  BY DEF Proposes
<1>3. /\ proposals' \in Seq(Proposal) /\ Extended(proposals, proposals')
      /\ Len(proposals) \in Nat /\ Len(proposals') = Len(proposals) + 1
      /\ proposals'[Len(proposals) + 1] = p
      /\ \A r \in 1..Len(proposals') :
                (r \in 1..Len(proposals) /\ proposals'[r] = proposals[r]) \/ r = Len(proposals) + 1
  BY <1>0, <1>1, OneMoreProposal
<1>4. /\ store \in [Clients -> Seq(Nat)] /\ epoch \in [Clients -> Nat] /\ epochs \in Seq(EpochSet)
      /\ \A r \in 1..Len(proposals) : proposals[r] \in Proposal
  BY <1>0, Types, ElementOfSeq
<1>5. /\ Queued(store'[c]) = Queued(store[c]) \cup {Len(proposals) + 1}
      /\ \A d \in Clients : d # c => store'[d] = store[d]
      /\ \A d \in Clients : Queued(store[d]) \subseteq Queued(store'[d])
  BY <1>2, <1>3, <1>4, QueuedAppend
<1>6. CursorsInLog'
  BY <1>2 DEF ReadInv, CursorsInLog
<1>7. SendersKnown'
  BY <1>1, <1>2, <1>3, <1>4 DEF ReadInv, SendersKnown, Active
<1>8. OwnQueued'
  <2> SUFFICES ASSUME NEW d \in Clients, Active(d)
               PROVE  /\ \A r \in 1..Len(proposals') :
                           proposals'[r].sender = d /\ proposals'[r].epoch = epoch[d] => r \in Queued(store'[d])
                      /\ \A m \in used[d] : m.type = "proposal" => m.id \in Queued(store'[d])
    BY <1>2 DEF OwnQueued, Active
  <2>1. /\ \A r \in 1..Len(proposals) :
             proposals[r].sender = d /\ proposals[r].epoch = epoch[d] => r \in Queued(store[d])
        /\ \A m \in used[d] : m.type = "proposal" => m.id \in Queued(store[d])
    BY DEF ReadInv, OwnQueued
  <2>2. ASSUME NEW r \in 1..Len(proposals'), proposals'[r].sender = d, proposals'[r].epoch = epoch[d]
        PROVE  r \in Queued(store'[d])
    <3>1. CASE r \in 1..Len(proposals) /\ proposals'[r] = proposals[r]
      BY <1>5, <2>1, <2>2, <3>1
    <3>2. CASE r = Len(proposals) + 1
      BY <1>1, <1>3, <1>5, <2>2, <3>2
    <3> QED
      BY <1>3, <3>1, <3>2
  <2> QED
    BY <1>5, <2>1, <2>2
<1>9. CommitsValid'
  <2>1. epochs' \in Seq(EpochSet) /\ Extended(epochs, epochs') /\ Epochs' = Epochs
    BY <1>2, <1>4, ExtendedRefl DEF Epochs
  <2> QED
    BY <1>3, <2>1, CommitsStay DEF ReadInv, CommitsValid
<1>10. SeenQueued'
  BY <1>2, <1>5 DEF ReadInv, SeenQueued, SeenBy, Active
<1> QED
  BY <1>6, <1>7, <1>8, <1>9, <1>10 DEF ReadInv

(* A commit appends the epoch it creates, and perhaps a proposal before it. *)
LEMMA CommitGrowth ==
    ASSUME Inv, NEW c \in Clients, Commits(c)
    PROVE  /\ proposals' \in Seq(Proposal) /\ Extended(proposals, proposals') /\ Len(proposals') \in Nat
           /\ Len(proposals) \in Nat
           /\ \A r \in 1..Len(proposals') :
                \/ r \in 1..Len(proposals) /\ proposals'[r] = proposals[r]
                \/ proposals'[r].sender = c /\ proposals'[r].epoch = epoch[c]
           /\ epochs' \in Seq(EpochSet) /\ Extended(epochs, epochs') /\ Len(epochs') = Len(epochs) + 1
           /\ epoch[c] \in Epochs /\ members[c] = epochs[epoch[c]].members
           /\ Epochs' = 1..(Len(epochs) + 1) /\ Epochs \subseteq Epochs'
           /\ \A i \in Epochs' : i \in Epochs \/ i = Len(epochs) + 1
           /\ LET x == epochs'[Len(epochs) + 1] IN
              /\ x.by = c /\ x.parent = epoch[c]
              /\ x.line = epochs[epoch[c]].line \cup {Len(epochs) + 1}
              /\ x.refs \subseteq 1..Len(proposals') /\ \A r \in x.refs : proposals'[r].epoch = epoch[c]
              /\ CanCommit(proposals', x.refs, members[c], c)
              /\ x.members = ApplyProposals(proposals', x.refs, members[c])
<1> DEFINE e == Len(epochs) + 1
<1>0. TypeOK
  BY DEF Inv
<1>1. Active(c)
  BY DEF Commits
<1>2. PICK S \in SUBSET (1..Len(proposals')) :
         /\ \A r \in S : proposals'[r].epoch = epoch[c]
         /\ CanCommit(proposals', S, members[c], c)
         /\ epochs' = Append(epochs, NewEpoch(c, proposals', S))
  BY DEF Commits
<1> DEFINE x == NewEpoch(c, proposals', S)
<1>3. /\ proposals' \in Seq(Proposal) /\ Extended(proposals, proposals') /\ Len(proposals') \in Nat
      /\ Len(proposals) \in Nat
      /\ \A r \in 1..Len(proposals') :
           \/ r \in 1..Len(proposals) /\ proposals'[r] = proposals[r]
           \/ proposals'[r].sender = c /\ proposals'[r].epoch = epoch[c]
  <2>1. proposals \in Seq(Proposal) /\ Len(proposals) \in Nat
    BY <1>0, Types
  <2>2. CASE proposals' = proposals
    BY <2>1, <2>2, ExtendedRefl
  <2>3. CASE \E p \in Proposal : p.sender = c /\ p.epoch = epoch[c] /\ proposals' = Append(proposals, p)
    <3>1. PICK p \in Proposal : p.sender = c /\ p.epoch = epoch[c] /\ proposals' = Append(proposals, p)
      BY <2>3
    <3>2. /\ proposals' \in Seq(Proposal) /\ Extended(proposals, proposals')
          /\ Len(proposals) \in Nat /\ Len(proposals') = Len(proposals) + 1
          /\ proposals'[Len(proposals) + 1] = p
          /\ \A r \in 1..Len(proposals') :
                (r \in 1..Len(proposals) /\ proposals'[r] = proposals[r]) \/ r = Len(proposals) + 1
      BY <1>0, <3>1, OneMoreProposal
    <3> QED
      BY <3>1, <3>2
  <2> QED
    BY <2>2, <2>3 DEF Commits
<1>4. /\ epoch \in [Clients -> Nat] /\ epochs \in Seq(EpochSet)
      /\ Len(epochs) \in Nat /\ Epochs = 1..Len(epochs)
  BY <1>0, Types
<1>5. epoch[c] \in Epochs /\ members[c] = epochs[epoch[c]].members
  BY <1>1 DEF Inv, EpochAgreement, Active
<1>6. /\ x.parent = epoch[c] /\ x.by = c /\ x.refs = S
      /\ x.line = epochs[epoch[c]].line \cup {e}
      /\ x.members = ApplyProposals(proposals', S, members[c])
  BY DEF NewEpoch
<1>7. x \in EpochSet
  <2>1. epochs[epoch[c]] \in EpochSet
    BY <1>4, <1>5, ElementOfSeq
  <2>2. ApplyProposals(proposals', S, members[c]) \in SUBSET Clients
    <3>1. members[c] \in SUBSET Clients
      BY <1>0, Types
    <3> QED
      BY <1>3, <3>1, ApplyProperties, Zenon
  <2>3. S \in SUBSET Nat
    BY <1>3
  <2>4. epochs[epoch[c]].num + 1 \in Nat /\ epochs[epoch[c]].line \cup {e} \in SUBSET Nat /\ epoch[c] \in Nat
    BY <1>4, <2>1, SMTT(30) DEF EpochSet
  <2> DEFINE n == epochs[epoch[c]].num + 1
             l == epochs[epoch[c]].line \cup {e}
             M == ApplyProposals(proposals', S, members[c])
  <2>5. x = [by |-> c, parent |-> epoch[c], num |-> n, line |-> l, refs |-> S, members |-> M]
    BY DEF NewEpoch
  <2> HIDE DEF n, l, M, x
  <2> QED
    BY <2>2, <2>3, <2>4, <2>5 DEF EpochSet, n, l, M
<1> HIDE DEF x
<1>8. /\ epochs' \in Seq(EpochSet) /\ Extended(epochs, epochs') /\ Len(epochs') = e /\ epochs'[e] = x
  BY <1>2, <1>4, <1>7, AppendExtends DEF x
<1>9. Epochs' = 1..e /\ Epochs \subseteq Epochs' /\ \A i \in Epochs' : i \in Epochs \/ i = e
  BY <1>4, <1>8 DEF Epochs
<1> QED
  BY <1>2, <1>3, <1>5, <1>6, <1>8, <1>9

(* Committing: nothing of the new epoch has been made or read. *)
LEMMA CommitsRead ==
    ASSUME Inv, ReadInv, NEW c \in Clients, Commits(c)
    PROVE  ReadInv'
<1> DEFINE e == Len(epochs) + 1
<1>0. TypeOK
  BY DEF Inv
<1>1. /\ Active(c) /\ epoch' = [epoch EXCEPT ![c] = e] /\ store' = [store EXCEPT ![c] = <<>>]
      /\ used' = [used EXCEPT ![c] = {}] /\ log' = log /\ UNCHANGED <<state, cursor>>
  BY DEF Commits
<1> DEFINE x == epochs'[e]
<1>3. /\ proposals' \in Seq(Proposal) /\ Extended(proposals, proposals') /\ Len(proposals') \in Nat
      /\ Len(proposals) \in Nat
      /\ \A r \in 1..Len(proposals') :
           \/ r \in 1..Len(proposals) /\ proposals'[r] = proposals[r]
           \/ proposals'[r].sender = c /\ proposals'[r].epoch = epoch[c]
  BY CommitGrowth
<1>4. /\ store \in [Clients -> Seq(Nat)] /\ epoch \in [Clients -> Nat] /\ epochs \in Seq(EpochSet)
      /\ used \in [Clients -> SUBSET MessageSet] /\ Len(epochs) \in Nat /\ Epochs = 1..Len(epochs)
      /\ \A r \in 1..Len(proposals) : proposals[r] \in Proposal
  BY <1>0, Types, ElementOfSeq
<1>5. epoch[c] \in Epochs /\ members[c] = epochs[epoch[c]].members
  BY CommitGrowth
<1>6. /\ x.parent = epoch[c] /\ x.by = c
      /\ x.refs \subseteq 1..Len(proposals') /\ \A r \in x.refs : proposals'[r].epoch = epoch[c]
      /\ CanCommit(proposals', x.refs, members[c], c)
      /\ x.members = ApplyProposals(proposals', x.refs, members[c])
  BY CommitGrowth
<1> HIDE DEF x
<1>8. /\ epochs' \in Seq(EpochSet) /\ Extended(epochs, epochs') /\ Len(epochs') = e /\ epochs'[e] = x
  BY CommitGrowth DEF x
<1>9. Epochs' = 1..e /\ Epochs \subseteq Epochs' /\ \A i \in Epochs' : i \in Epochs \/ i = e
  BY CommitGrowth
<1>10. /\ epoch'[c] = e /\ store'[c] = <<>> /\ used'[c] = {} /\ epoch[c] < e /\ epoch[c] # 0
       /\ \A d \in Clients : d # c => epoch'[d] = epoch[d] /\ store'[d] = store[d] /\ used'[d] = used[d]
  BY <1>1, <1>4, <1>5
<1>11. CursorsInLog'
  BY <1>1, <1>10 DEF ReadInv, CursorsInLog
<1>12. SendersKnown'
  <2> SUFFICES ASSUME NEW r \in 1..Len(proposals')
               PROVE  /\ state[proposals'[r].sender] # "None"
                      /\ proposals'[r].epoch <= epoch'[proposals'[r].sender]
    BY <1>1 DEF SendersKnown
  <2>1. CASE r \in 1..Len(proposals) /\ proposals'[r] = proposals[r]
    <3> DEFINE s == proposals[r].sender
               n == proposals[r].epoch
    <3>1. s \in Clients /\ n \in Nat /\ state[s] # "None" /\ n <= epoch[s]
      BY <1>4, <2>1 DEF ReadInv, SendersKnown, Proposal
    <3>2. epoch[s] \in Nat /\ epoch'[s] \in Nat /\ epoch[s] <= epoch'[s]
      <4>1. CASE s = c
        <5>1. epoch[c] \in Nat /\ e \in Nat /\ epoch[c] <= e
          BY <1>4, <1>10
        <5> HIDE DEF s, e
        <5> QED
          BY <1>10, <4>1, <5>1
      <4>2. CASE s # c
        <5>1. epoch[s] \in Nat /\ epoch'[s] = epoch[s]
          BY <1>4, <1>10, <3>1, <4>2
        <5> QED
          BY <5>1
      <4> QED
        BY <4>1, <4>2
    <3>3. n <= epoch'[s]
      BY <3>1, <3>2
    <3> QED
      BY <2>1, <3>1, <3>3
  <2>2. CASE proposals'[r].sender = c /\ proposals'[r].epoch = epoch[c]
    <3>1. epoch[c] <= e
      BY <1>4, <1>10
    <3> QED
      BY <1>1, <1>10, <2>2, <3>1 DEF Active
  <2> QED
    BY <1>3, <2>1, <2>2
<1>13. OwnQueued'
  <2> SUFFICES ASSUME NEW d \in Clients, Active(d)
               PROVE  /\ \A r \in 1..Len(proposals') :
                           proposals'[r].sender = d /\ proposals'[r].epoch = epoch'[d] => r \in Queued(store'[d])
                      /\ \A m \in used'[d] : m.type = "proposal" => m.id \in Queued(store'[d])
    BY <1>1 DEF OwnQueued, Active
  <2>1. CASE d = c
    <3>1. \A r \in 1..Len(proposals) : proposals[r].sender = c => proposals[r].epoch # e
      <4> SUFFICES ASSUME NEW r \in 1..Len(proposals), proposals[r].sender = c PROVE proposals[r].epoch # e
        OBVIOUS
      <4>1. proposals[r].epoch <= epoch[c] /\ proposals[r].epoch \in Nat
        BY <1>4 DEF ReadInv, SendersKnown, Proposal
      <4> QED
        BY <1>4, <1>10, <4>1
    <3>2. epoch[c] # e
      BY <1>4, <1>10
    <3> QED
      BY <1>3, <1>10, <2>1, <3>1, <3>2
  <2>2. CASE d # c
    BY <1>3, <1>10, <2>2 DEF ReadInv, OwnQueued
  <2> QED
    BY <2>1, <2>2
<1>14. CommitsValid'
  <2>1. \A i \in Epochs : epochs'[i] = epochs[i]
    BY <1>3, <1>8, GrowthKeeps
  <2>2. epochs'[epoch[c]].members = members[c]
    BY <1>5, <2>1
  <2>3. /\ x.parent \in Epochs' /\ x.refs \subseteq 1..Len(proposals')
        /\ \A r \in x.refs : proposals'[r].epoch = x.parent
        /\ CanCommit(proposals', x.refs, epochs'[x.parent].members, x.by)
        /\ ApplyProposals(proposals', x.refs, epochs'[x.parent].members) = x.members
    BY <1>5, <1>6, <1>9, <2>2
  <2> SUFFICES ASSUME NEW i \in Epochs'
               PROVE  LET y == epochs'[i] IN
                      /\ y.parent = 0 \/ y.parent \in Epochs'
                      /\ y.refs \subseteq 1..Len(proposals')
                      /\ \A r \in y.refs : proposals'[r].epoch = y.parent
                      /\ y.parent # 0 =>
                           /\ CanCommit(proposals', y.refs, epochs'[y.parent].members, y.by)
                           /\ ApplyProposals(proposals', y.refs, epochs'[y.parent].members) = y.members
    BY DEF CommitsValid
  <2>4. CASE i \in Epochs
    BY <1>3, <1>8, <2>4, CommitsStay DEF ReadInv
  <2>5. CASE i = e
    BY <1>8, <2>3, <2>5
  <2> QED
    BY <1>9, <2>4, <2>5
<1>15. SeenQueued'
  <2> SUFFICES ASSUME NEW d \in Clients, Active(d), NEW j \in 1..cursor[d]
               PROVE  SeenBy(d, j)'
    BY <1>1 DEF SeenQueued, Active
  <2>1. CASE d = c
    <3>1. log[j].message.at # e
      <4>1. j \in 1..Len(log)
        BY <1>0, <2>1, Types DEF ReadInv, CursorsInLog, TypeOK
      <4>2. log[j].message.at \in 1..Len(epochs)
        BY <4>1 DEF Inv, MessagesGenuine, Genuine
      <4> QED
        BY <1>4, <4>2
    <3> QED
      BY <1>1, <1>10, <2>1, <3>1 DEF SeenBy
  <2>2. CASE d # c
    BY <1>1, <1>10, <2>2 DEF ReadInv, SeenQueued, SeenBy
  <2> QED
    BY <2>1, <2>2
<1> QED
  BY <1>11, <1>12, <1>13, <1>14, <1>15 DEF ReadInv

(* Joining: a joiner has not read or made anything. *)
LEMMA JoinsRead ==
    ASSUME Inv, ReadInv, NEW c \in Clients, Joins(c)
    PROVE  ReadInv'
<1>0. TypeOK
  BY DEF Inv
<1>1. /\ state[c] = "None" /\ state' = [state EXCEPT ![c] = "Operational"]
      /\ UNCHANGED <<store, used, proposals, epochs, log, cursor>>
  BY DEF Joins
<1>2. \A d \in Clients : d # c => epoch'[d] = epoch[d] /\ state'[d] = state[d]
  BY <1>0, <1>1, Types DEF Joins
<1>3. \A r \in 1..Len(proposals) : proposals[r].sender \in Clients /\ proposals[r].sender # c
  <2>1. \A r \in 1..Len(proposals) : proposals[r] \in Proposal
    BY <1>0, Types, ElementOfSeq
  <2> QED
    BY <1>1, <2>1 DEF ReadInv, SendersKnown, Proposal
<1>4. state'[c] = "Operational" /\ used[c] = {} /\ cursor[c] = 0
  BY <1>0, <1>1, Types DEF ReadInv, CursorsInLog
<1>5. CursorsInLog'
  BY <1>1, <1>2, <1>4 DEF ReadInv, CursorsInLog
<1>6. SendersKnown'
  BY <1>1, <1>2, <1>3 DEF ReadInv, SendersKnown
<1>7. OwnQueued'
  <2> SUFFICES ASSUME NEW d \in Clients, Active(d)'
               PROVE  /\ \A r \in 1..Len(proposals) :
                           proposals[r].sender = d /\ proposals[r].epoch = epoch'[d] => r \in Queued(store[d])
                      /\ \A m \in used[d] : m.type = "proposal" => m.id \in Queued(store[d])
    BY <1>1 DEF OwnQueued
  <2>1. CASE d = c
    BY <1>3, <1>4, <2>1
  <2>2. CASE d # c
    BY <1>2, <2>2 DEF ReadInv, OwnQueued, Active
  <2> QED
    BY <2>1, <2>2
<1>8. CommitsValid'
  BY <1>1 DEF ReadInv, CommitsValid, Epochs
<1>9. SeenQueued'
  <2> SUFFICES ASSUME NEW d \in Clients, Active(d)', NEW j \in 1..cursor[d]
               PROVE  SeenBy(d, j)'
    BY <1>1 DEF SeenQueued
  <2>1. d # c
    BY <1>4
  <2> QED
    BY <1>1, <1>2, <2>1 DEF ReadInv, SeenQueued, SeenBy, Active
<1> QED
  BY <1>5, <1>6, <1>7, <1>8, <1>9 DEF ReadInv

(* One more entry in the log, after what anybody has read. *)
LEMMA OneMoreEntry ==
    ASSUME Inv, NEW c \in Clients, Publishes(c)
    PROVE  /\ log' \in Seq(Entry) /\ Len(log) \in Nat /\ Len(log') = Len(log) + 1
           /\ Len(outbox[c]) \in Nat /\ 1 \in 1..Len(outbox[c])
           /\ outbox[c][1] \in MessageSet
           /\ log'[Len(log) + 1].message = outbox[c][1]
           /\ \A i \in 1..Len(log) : log'[i] = log[i]
           /\ \A i \in 1..Len(log') : i \in 1..Len(log) \/ i = Len(log) + 1
           /\ Len(outbox'[c]) = Len(outbox[c]) - 1
           /\ \A i \in 1..Len(outbox'[c]) : i + 1 \in 1..Len(outbox[c]) /\ outbox'[c][i] = outbox[c][i + 1]
           /\ \A d \in Clients : d # c => outbox'[d] = outbox[d]
<1> DEFINE m == Head(outbox[c])
<1>0. TypeOK
  BY DEF Inv
<1>1. /\ outbox[c] # <<>> /\ log' = PublishTo(log, m)
      /\ outbox' = [outbox EXCEPT ![c] = Tail(@)]
  BY DEF Publishes, Publish
<1>2. /\ m \in MessageSet /\ m = outbox[c][1] /\ 1 \in 1..Len(outbox[c])
      /\ Tail(outbox[c]) \in Seq(MessageSet) /\ Len(Tail(outbox[c])) = Len(outbox[c]) - 1
      /\ \A i \in 1..Len(Tail(outbox[c])) : Tail(outbox[c])[i] = outbox[c][i + 1]
      /\ Len(outbox[c]) \in Nat
  <2>1. outbox[c] \in Seq(MessageSet) /\ Len(outbox[c]) \in Nat
    BY <1>0, Types, LenProperties
  <2> QED
    BY <1>1, <2>1, HeadTailProperties, EmptySeq
<1> HIDE DEF m
<1>3. /\ log' \in Seq(Entry) /\ Len(log') = Len(log) + 1 /\ log'[Len(log) + 1].message = m
      /\ \A i \in 1..Len(log) : log'[i] = log[i]
  <2>1. StoredMessage(Len(log) + 1, m) \in Entry /\ StoredMessage(Len(log) + 1, m).message = m
    BY <1>0, <1>2, Types DEF StoredMessage, Entry
  <2>2. log' = Append(log, StoredMessage(Len(log) + 1, m))
    BY <1>1 DEF PublishTo
  <2> QED
    BY <1>0, <2>1, <2>2, Types, AppendProperties
<1>4. outbox'[c] = Tail(outbox[c]) /\ \A d \in Clients : d # c => outbox'[d] = outbox[d]
  BY <1>0, <1>1, Types
<1>5. \A i \in 1..(Len(outbox[c]) - 1) : i + 1 \in 1..Len(outbox[c])
  BY <1>2
<1>6. Len(log) \in Nat /\ \A i \in 1..(Len(log) + 1) : i \in 1..Len(log) \/ i = Len(log) + 1
  BY <1>0, Types
<1> QED
  BY <1>2, <1>3, <1>4, <1>5, <1>6

(* Publishing. *)
LEMMA PublishesRead ==
    ASSUME Inv, ReadInv, NEW c \in Clients, Publishes(c)
    PROVE  ReadInv'
<1>0. TypeOK
  BY DEF Inv
<1>1. /\ Len(log) \in Nat /\ Len(log') = Len(log) + 1 /\ \A i \in 1..Len(log) : log'[i] = log[i]
      /\ UNCHANGED <<state, epoch, store, used, proposals, epochs, cursor>>
  BY OneMoreEntry DEF Publishes
<1>2. \A d \in Clients : cursor[d] \in Nat /\ cursor[d] <= Len(log)
  BY <1>0 DEF ReadInv, CursorsInLog, TypeOK
<1>3. CursorsInLog'
  <2>1. \A d \in Clients : cursor[d] <= Len(log')
    BY <1>1, <1>2
  <2> QED
    BY <1>1, <2>1 DEF ReadInv, CursorsInLog
<1>4. SendersKnown' /\ OwnQueued' /\ CommitsValid'
  BY <1>1 DEF ReadInv, SendersKnown, OwnQueued, CommitsValid, Epochs, Active
<1>5. SeenQueued'
  <2> SUFFICES ASSUME NEW d \in Clients, Active(d), NEW j \in 1..cursor[d]
               PROVE  SeenBy(d, j)'
    BY <1>1 DEF SeenQueued, Active
  <2>1. \A k \in 1..cursor[d] : log'[k] = log[k]
    BY <1>1, <1>2
  <2>2. SeenBy(d, j)
    BY DEF ReadInv, SeenQueued
  <2>3. \A k \in j+1..cursor[d] : k \in 1..cursor[d]
    BY <1>2
  <2> QED
    BY <1>1, <2>1, <2>2, <2>3 DEF SeenBy
<1> QED
  BY <1>3, <1>4, <1>5 DEF ReadInv

(* Reading one entry, given what it does to the reader. *)
LEMMA ReadsRead ==
    ASSUME Inv, ReadInv, NEW c \in Clients, NEW i \in 1..Len(log), ReadsNext(c, i),
           \A d \in Clients : d # c => /\ state'[d] = state[d] /\ epoch'[d] = epoch[d]
                                       /\ store'[d] = store[d] /\ used'[d] = used[d],
           state'[c] # "None", epoch'[c] \in Nat, epoch[c] <= epoch'[c],
           Active(c)' => /\ \A r \in 1..Len(proposals) :
                              proposals[r].sender = c /\ proposals[r].epoch = epoch'[c]
                                 => r \in Queued(store'[c])
                         /\ \A m \in used'[c] : m.type = "proposal" => m.id \in Queued(store'[c])
                         /\ \A j \in 1..i : SeenBy(c, j)'
    PROVE  ReadInv'
<1>0. TypeOK
  BY DEF Inv
<1>1. /\ i = cursor[c] + 1 /\ i \in 1..Len(log) /\ cursor'[c] = i
      /\ \A d \in Clients : d # c => cursor'[d] = cursor[d]
      /\ UNCHANGED <<proposals, epochs, outbox, log, welcomes, authors>>
  BY <1>0 DEF ReadsNext, TypeOK
<1>2. Len(log) \in Nat /\ epoch \in [Clients -> Nat] /\ \A r \in 1..Len(proposals) : proposals[r] \in Proposal
  BY <1>0, Types, ElementOfSeq
<1>3. CursorsInLog'
  <2>1. i <= Len(log)
    BY <1>1, <1>2
  <2> SUFFICES ASSUME NEW d \in Clients
               PROVE  cursor'[d] <= Len(log) /\ (state'[d] = "None" => cursor'[d] = 0 /\ used'[d] = {})
    BY <1>1 DEF CursorsInLog
  <2>2. CASE d = c
    BY <1>1, <2>1, <2>2
  <2>3. CASE d # c
    BY <1>1, <2>3 DEF ReadInv, CursorsInLog
  <2> QED
    BY <2>2, <2>3
<1>4. SendersKnown'
  <2> SUFFICES ASSUME NEW r \in 1..Len(proposals)
               PROVE  /\ state'[proposals[r].sender] # "None"
                      /\ proposals[r].epoch <= epoch'[proposals[r].sender]
    BY <1>1 DEF SendersKnown
  <2> DEFINE s == proposals[r].sender
             n == proposals[r].epoch
  <2>1. s \in Clients /\ n \in Nat /\ state[s] # "None" /\ n <= epoch[s]
    BY <1>2 DEF ReadInv, SendersKnown, Proposal
  <2> HIDE DEF s, n
  <2>2. CASE s = c
    <3>1. n <= epoch'[c]
      BY <1>2, <2>1, <2>2
    <3> QED
      BY <2>2, <3>1 DEF s, n
  <2>3. CASE s # c
    BY <2>1, <2>3 DEF s, n
  <2> QED
    BY <2>2, <2>3
<1>5. OwnQueued'
  <2> SUFFICES ASSUME NEW d \in Clients, Active(d)'
               PROVE  /\ \A r \in 1..Len(proposals) :
                           proposals[r].sender = d /\ proposals[r].epoch = epoch'[d] => r \in Queued(store'[d])
                      /\ \A m \in used'[d] : m.type = "proposal" => m.id \in Queued(store'[d])
    BY <1>1 DEF OwnQueued
  <2>1. CASE d = c
    BY <2>1
  <2>2. CASE d # c
    BY <2>2 DEF ReadInv, OwnQueued, Active
  <2> QED
    BY <2>1, <2>2
<1>6. CommitsValid'
  BY <1>1 DEF ReadInv, CommitsValid, Epochs
<1>7. SeenQueued'
  <2> SUFFICES ASSUME NEW d \in Clients, Active(d)', NEW j \in 1..cursor'[d]
               PROVE  SeenBy(d, j)'
    BY DEF SeenQueued
  <2>1. CASE d = c
    BY <1>1, <2>1
  <2>2. CASE d # c
    BY <1>1, <2>2 DEF ReadInv, SeenQueued, SeenBy, Active
  <2> QED
    BY <2>1, <2>2
<1> QED
  BY <1>3, <1>4, <1>5, <1>6, <1>7 DEF ReadInv

(* An entry that is no proposal the reader has still to store: its store    *)
(* holds what it has to hold.                                               *)
LEMMA QuietReadsRead ==
    ASSUME Inv, ReadInv, NEW c \in Clients, NEW i \in 1..Len(log), ReadsNext(c, i),
           UNCHANGED <<state, epoch>>,
           \A d \in Clients : d # c => store'[d] = store[d] /\ used'[d] = used[d],
           Queued(store[c]) \subseteq Queued(store'[c]),
           \A m \in used'[c] : m \in used[c] \/ (m.type = "proposal" => m.id \in Queued(store'[c])),
           Active(c) /\ log[i].message.type = "proposal" /\ log[i].message.at = epoch[c]
              /\ log[i].message.from # c => log[i].message.id \in Queued(store'[c])
    PROVE  ReadInv'
<1>0. TypeOK
  BY DEF Inv
<1>1. epoch'[c] \in Nat /\ epoch[c] <= epoch'[c] /\ state'[c] # "None"
  BY <1>0, Types DEF ReadsNext
<1>2. cursor[c] \in Nat /\ i = cursor[c] + 1 /\ cursor'[c] = i /\ log' = log /\ Len(log) \in Nat
  BY <1>0, Types DEF ReadsNext, TypeOK
<1>3. ASSUME Active(c)
      PROVE  /\ \A r \in 1..Len(proposals) :
                  proposals[r].sender = c /\ proposals[r].epoch = epoch'[c] => r \in Queued(store'[c])
             /\ \A m \in used'[c] : m.type = "proposal" => m.id \in Queued(store'[c])
  BY <1>3 DEF ReadInv, OwnQueued
<1>4. ASSUME Active(c), NEW j \in 1..i
      PROVE  SeenBy(c, j)'
  <2>1. CASE j = i
    BY <1>2, <1>4, <2>1 DEF SeenBy
  <2>2. CASE j # i
    <3>1. j \in 1..cursor[c] /\ \A k \in j+1..cursor[c] : k \in j+1..i
      BY <1>2, <2>2
    <3>2. SeenBy(c, j)
      BY <1>4, <3>1 DEF ReadInv, SeenQueued
    <3> QED
      BY <1>2, <3>1, <3>2 DEF SeenBy
  <2> QED
    BY <2>1, <2>2
<1>5. Active(c)' <=> Active(c)
  BY DEF Active
<1>6. \A d \in Clients : d # c => /\ state'[d] = state[d] /\ epoch'[d] = epoch[d]
                                  /\ store'[d] = store[d] /\ used'[d] = used[d]
  OBVIOUS
<1> QED
  BY <1>1, <1>3, <1>4, <1>5, <1>6, ReadsRead

(* Storing a proposal, consuming a key and skipping. *)
LEMMA StoresRead ==
    ASSUME Inv, ReadInv, NEW c \in Clients, NEW i \in 1..Len(log),
           Stores(c, i) \/ Consumes(c, i) \/ Skips(c, i)
    PROVE  ReadInv'
<1> DEFINE m == log[i].message
<1>0. TypeOK
  BY DEF Inv
<1>1. store \in [Clients -> Seq(Nat)] /\ used \in [Clients -> SUBSET MessageSet] /\ epoch \in [Clients -> Nat]
  BY <1>0, Types
<1>2. m \in MessageSet /\ m.id \in Nat
  <2>1. log[i] \in Entry
    BY <1>0, Types, ElementOfSeq
  <2> QED
    BY <2>1 DEF Entry, MessageSet
<1>3. ReadsNext(c, i) /\ UNCHANGED <<state, epoch>>
  BY DEF Stores, Consumes, Skips
<1>4. CASE Stores(c, i)
  <2>1. store' = [store EXCEPT ![c] = Append(@, m.id)] /\ used' = [used EXCEPT ![c] = @ \cup {m}]
    BY <1>4 DEF Stores
  <2> HIDE DEF m
  <2>2. /\ \A d \in Clients : d # c => store'[d] = store[d] /\ used'[d] = used[d]
        /\ Queued(store'[c]) = Queued(store[c]) \cup {m.id}
        /\ used'[c] = used[c] \cup {m}
    BY <1>1, <1>2, <2>1, QueuedAppend
  <2>3. \A n \in used'[c] : n \in used[c] \/ (n.type = "proposal" => n.id \in Queued(store'[c]))
    BY <2>2
  <2>4. m.id \in Queued(store'[c]) /\ Queued(store[c]) \subseteq Queued(store'[c])
    BY <2>2
  <2> QED
    BY <1>3, <2>2, <2>3, <2>4, QuietReadsRead DEF m
<1>5. CASE Consumes(c, i)
  <2>1. store' = store /\ used' = [used EXCEPT ![c] = @ \cup {m}] /\ m.type # "proposal"
    BY <1>5 DEF Consumes
  <2> HIDE DEF m
  <2>2. \A d \in Clients : d # c => store'[d] = store[d] /\ used'[d] = used[d]
    BY <1>1, <2>1
  <2>3. \A n \in used'[c] : n \in used[c] \/ (n.type = "proposal" => n.id \in Queued(store'[c]))
    BY <1>1, <2>1
  <2> QED
    BY <1>3, <2>1, <2>2, <2>3, QuietReadsRead DEF m
<1>6. CASE Skips(c, i)
  <2>1. store' = store /\ used' = used /\ ~Decrypts(c, m)
    BY <1>6 DEF Skips
  <2>2. Active(c) /\ m.type = "proposal" /\ m.at = epoch[c] /\ m.from # c => m.id \in Queued(store'[c])
    <3> SUFFICES ASSUME Active(c), m.type = "proposal", m.at = epoch[c], m.from # c
                 PROVE  m.id \in Queued(store[c])
      BY <2>1
    <3>1. m \in used[c]
      BY <2>1 DEF Decrypts, ValidFraming, HasSecrets
    <3> QED
      BY <3>1 DEF ReadInv, OwnQueued
  <2> HIDE DEF m
  <2> QED
    BY <1>3, <2>1, <2>2, QuietReadsRead DEF m
<1> QED
  BY <1>4, <1>5, <1>6

(* Entering a new epoch: what was read of it before came ahead of its commit. *)
LEMMA EntersRead ==
    ASSUME Inv, ReadInv, NEW c \in Clients, NEW i \in 1..Len(log), Enters(c, i)
    PROVE  ReadInv'
<1> DEFINE m == log[i].message
           e == m.id
<1>0. TypeOK
  BY DEF Inv
<1>1. m \in MessageSet /\ Genuine(m, epochs, proposals) /\ e \in Nat
  <2>1. log[i] \in Entry
    BY <1>0, Types, ElementOfSeq
  <2> QED
    BY <2>1 DEF Entry, MessageSet, Inv, MessagesGenuine
<1>2. /\ ReadsNext(c, i) /\ Decrypts(c, m) /\ m.type = "commit"
      /\ epoch' = [epoch EXCEPT ![c] = e]
  BY DEF Enters
<1>3. m.at = epoch[c] /\ epoch[c] < e /\ state[c] = "Operational"
  <2>1. m.at = epoch[c] /\ state[c] = "Operational"
    BY <1>2 DEF Decrypts, HasSecrets, Active
  <2>2. e \in 1..Len(epochs) /\ epochs[e].parent = m.at
    BY <1>1, <1>2 DEF Genuine
  <2>3. epochs[e].parent < e
    BY <1>0, <2>2, Types DEF Inv, ParentsFirst
  <2> QED
    BY <2>1, <2>2, <2>3
<1>4. \A d \in Clients : d # c => /\ state'[d] = state[d] /\ epoch'[d] = epoch[d]
                                  /\ store'[d] = store[d] /\ used'[d] = used[d]
  BY <1>0, Types DEF Enters
<1>5. epoch'[c] = e /\ epoch[c] \in Nat
  BY <1>0, <1>2, Types
<1>6. state'[c] # "None" /\ (Active(c)' => store'[c] = <<>> /\ used'[c] = {})
  BY <1>0, <1>3, Types DEF Enters, Active
<1> HIDE DEF e
<1>7. \A r \in 1..Len(proposals) : ~(proposals[r].sender = c /\ proposals[r].epoch = epoch'[c])
  <2> SUFFICES ASSUME NEW r \in 1..Len(proposals), proposals[r].sender = c, proposals[r].epoch = e
               PROVE  FALSE
    BY <1>5
  <2>1. proposals[r].epoch <= epoch[c]
    BY DEF ReadInv, SendersKnown
  <2> QED
    BY <1>1, <1>3, <1>5, <2>1
<1>8. ASSUME NEW j \in 1..i
      PROVE  SeenBy(c, j)'
  <2>1. cursor'[c] = i /\ log' = log /\ i \in Nat /\ IsCommit(log[i].message, epoch'[c])
    BY <1>0, <1>2, <1>5, Types DEF ReadsNext, TypeOK, IsCommit, e
  <2>2. CASE j = i
    BY <1>2, <2>1, <2>2 DEF SeenBy
  <2>3. CASE j # i
    <3>1. i \in j+1..cursor'[c]
      BY <2>1, <2>3
    <3> QED
      BY <2>1, <3>1 DEF SeenBy
  <2> QED
    BY <2>2, <2>3
<1> HIDE DEF m
<1>9. epoch'[c] \in Nat /\ epoch[c] <= epoch'[c]
  BY <1>1, <1>3, <1>5
<1>10. Active(c)' => /\ \A r \in 1..Len(proposals) :
                          proposals[r].sender = c /\ proposals[r].epoch = epoch'[c] => r \in Queued(store'[c])
                     /\ \A n \in used'[c] : n.type = "proposal" => n.id \in Queued(store'[c])
                     /\ \A j \in 1..i : SeenBy(c, j)'
  BY <1>6, <1>7, <1>8
<1> QED
  BY <1>2, <1>4, <1>6, <1>9, <1>10, ReadsRead

(* What the readers know is an invariant of reading in order. *)
LEMMA ReadInit == Init => ReadInv
<1> SUFFICES ASSUME Init PROVE ReadInv
  OBVIOUS
<1>1. /\ cursor = [c \in Clients |-> 0] /\ used = [c \in Clients |-> {}] /\ proposals = <<>> /\ log = <<>>
      /\ Len(log) = 0 /\ 1..Len(proposals) = {}
  BY EmptySeq DEF Init
<1>2. Len(epochs) = 1 /\ epochs[1].parent = 0 /\ epochs[1].refs = {}
  BY DEF Init
<1>3. CommitsValid
  BY <1>2 DEF CommitsValid, Epochs
<1> QED
  BY <1>1, <1>3 DEF ReadInv, CursorsInLog, SendersKnown, OwnQueued, SeenQueued

(* Every step of members that read in order keeps it. *)
LEMMA ReadNext == Ordered /\ Inv /\ ReadInv /\ [Next]_vars => ReadInv'
<1> SUFFICES ASSUME Ordered, Inv, ReadInv, [Next]_vars PROVE ReadInv'
  OBVIOUS
<1>1. ASSUME Idles PROVE ReadInv'
  BY <1>1 DEF Idles, ReadInv, CursorsInLog, SendersKnown, OwnQueued, CommitsValid, SeenQueued, SeenBy,
     Epochs, Active
<1>2. CASE \E c \in Clients : Proposes(c) \/ Commits(c) \/ Joins(c) \/ Sends(c) \/ Publishes(c)
  BY <1>1, <1>2, ProposesRead, CommitsRead, JoinsRead, PublishesRead DEF Sends
<1>3. CASE \E c \in Clients : \E i \in 1..Len(log) :
             Stores(c, i) \/ Enters(c, i) \/ Consumes(c, i) \/ Skips(c, i)
  BY <1>3, StoresRead, EntersRead
<1> QED
  BY <1>1, <1>2, <1>3, StepKinds

(* Members that read in order keep what they have read. *)
LEMMA ReadAlways ==
    ASSUME Ordered
    PROVE  Spec => [](Inv /\ ReadInv)
<1>1. Init => Inv /\ ReadInv
  BY InvInit, ReadInit
<1>2. Inv /\ ReadInv /\ [Next]_vars => (Inv /\ ReadInv)'
  BY InvNext, ReadNext
<1> QED
  BY <1>1, <1>2, PTL DEF Spec

(* A member that reads in order refuses a commit only because a proposal it *)
(* covers was lost, or came ahead of the commit that started the epoch:     *)
(* stage_commit fails only with ProposalNotFound, since what the committer  *)
(* could commit every member of its epoch can stage.                        *)
THEOREM RefusalsAreLosses ==
    ASSUME Ordered
    PROVE  Spec => RefusedOnlyForLostProposals
<1> DEFINE Lost(i) ==
             \E r \in epochs[log[i].message.id].refs :
               \A j \in 1..i-1 :
                  log[j].message.type = "proposal" /\ log[j].message.id = r =>
                     \E k \in j+1..i-1 : log[k].message.type = "commit"
                                       /\ log[k].message.id = log[i].message.at
           OnlyLost == \A c \in Clients, i \in 1..Len(log) : RefuseCommit(c, i) => Lost(i)
<1>1. ASSUME Inv, ReadInv, NEW c \in Clients, NEW i \in 1..Len(log), RefuseCommit(c, i)
      PROVE  Lost(i)
  <2> DEFINE m == log[i].message
             S == epochs[m.id].refs
  <2>0. TypeOK
    BY <1>1 DEF Inv
  <2>1. /\ state[c] # "None" /\ i = cursor[c] + 1 /\ Decrypts(c, m) /\ m.type = "commit" /\ ~Stages(c, m.id)
    BY <1>1 DEF RefuseCommit, Reads
  <2>2. m \in MessageSet /\ Genuine(m, epochs, proposals)
    <3>1. log[i] \in Entry
      BY <2>0, Types, ElementOfSeq
    <3> QED
      BY <1>1, <3>1 DEF Entry, Inv, MessagesGenuine
  <2>3. Active(c) /\ m.at = epoch[c] /\ m.at \in Epochs /\ members[c] = epochs[m.at].members /\ m.at # 0
    <3>1. Active(c) /\ m.at = epoch[c] /\ m.at \in Epochs /\ members[c] = epochs[m.at].members
      BY <1>1, <2>1, <2>2, DecryptedInEpoch
    <3> QED
      BY <2>0, <3>1, Types
  <2>4. m.id \in Epochs /\ epochs[m.id].parent = m.at
    BY <2>1, <2>2 DEF Genuine, Epochs
  <2>5. /\ S \subseteq 1..Len(proposals) /\ \A r \in S : proposals[r].epoch = m.at
        /\ CanCommit(proposals, S, members[c], epochs[m.id].by)
        /\ ApplyProposals(proposals, S, members[c]) = epochs[m.id].members
    BY <1>1, <2>3, <2>4 DEF ReadInv, CommitsValid
  <2>6. PICK r \in S : r \notin Queued(store[c])
    BY <2>1, <2>5 DEF Stages
  <2>7. ASSUME NEW j \in 1..i-1, log[j].message.type = "proposal", log[j].message.id = r
        PROVE  \E k \in j+1..i-1 : log[k].message.type = "commit" /\ log[k].message.id = m.at
    <3>1. cursor[c] \in Nat /\ i - 1 = cursor[c] /\ j \in 1..cursor[c] /\ j \in 1..Len(log)
      BY <2>0, <2>1, Types DEF TypeOK
    <3>2. Genuine(log[j].message, epochs, proposals)
      BY <1>1, <3>1 DEF Inv, MessagesGenuine
    <3>3. log[j].message.at = m.at /\ log[j].message.from = proposals[r].sender
      BY <2>5, <2>7, <3>2 DEF Genuine
    <3>4. proposals[r].sender # c
      BY <1>1, <2>3, <2>5, <2>6 DEF ReadInv, OwnQueued
    <3>5. SeenBy(c, j)
      BY <1>1, <2>3, <3>1 DEF ReadInv, SeenQueued
    <3> HIDE DEF m
    <3>6. \E k \in j+1..cursor[c] : IsCommit(log[k].message, epoch[c])
      BY <2>3, <2>6, <2>7, <3>3, <3>4, <3>5 DEF SeenBy
    <3> QED
      BY <2>3, <3>1, <3>6 DEF IsCommit
  <2> QED
    BY <2>6, <2>7
<1>2. ASSUME Inv, ReadInv PROVE OnlyLost
  BY <1>1, <1>2
<1>3. ASSUME Inv, ReadInv PROVE [OnlyLost]_vars
  BY <1>2, <1>3
<1> HIDE DEF OnlyLost
<1>4. Spec => [][OnlyLost]_vars
  BY <1>3, ReadAlways, PTL
<1> QED
  BY <1>4 DEF RefusedOnlyForLostProposals, OnlyLost
-----------------------------------------------------------------------------
(* One committer leaves nobody behind.                                      *)

LogSet == {log[i].message : i \in 1..Len(log)}
OutSet(c) == {outbox[c][i] : i \in 1..Len(outbox[c])}

(* Whoever made a proposal or a commit is an author, and has the group. *)
AuthorsKnown ==
    /\ \A c \in authors : state[c] # "None"
    /\ \A r \in 1..Len(proposals) : proposals[r].sender \in authors
    /\ \A e \in Epochs : e = 1 \/ (epochs[e].by \in authors /\ epochs[e].parent # 0)

(* Messages are from the client that posts them, commits from the committer. *)
Origin(m) == m.type = "commit" => m.from = epochs[m.id].by

MessagesSigned ==
    /\ \A c \in Clients : \A m \in OutSet(c) : m.from = c /\ Origin(m)
    /\ \A m \in LogSet : Origin(m)

(* The message of a commit is in the log, or still with the committer. *)
CommitsCarried ==
    \A e \in Epochs : e = 1 \/ \E m \in LogSet \cup OutSet(epochs[e].by) : IsCommit(m, e)

AuthorInv == AuthorsKnown /\ MessagesSigned /\ CommitsCarried

(* While there is one author the epochs are a line, with it at the end, and *)
(* its proposals and commits are in the order in which it made them.        *)
OneLine(a) ==
    /\ \A e \in Epochs : epochs[e].parent = e - 1
    /\ a \in authors => epoch[a] = Len(epochs)

Handshake(m) == m.type = "proposal" \/ m.type = "commit"
Precedes(m, n) ==
    Handshake(m) /\ Handshake(n) => m.at < n.at \/ (m.at = n.at /\ m.type = "proposal")

InOrder(a) ==
    /\ \A i, j \in 1..Len(log) : i < j => Precedes(log[i].message, log[j].message)
    /\ \A i, j \in 1..Len(outbox[a]) : i < j => Precedes(outbox[a][i], outbox[a][j])
    /\ \A m \in LogSet, n \in OutSet(a) : Precedes(m, n)

LineInv == \A a \in Clients : authors \subseteq {a} => OneLine(a) /\ InOrder(a)

(* No proposal that a commit covers was lost with the exception of a        *)
(* refused call.                                                            *)
NoLoss ==
    \A e \in Epochs : \A r \in epochs[e].refs :
        \E m \in LogSet \cup OutSet(proposals[r].sender) : IsProposal(m, r)

(* Then every reader is as far as the commits it has read. *)
KeptUp(d) ==
    /\ \A j \in 1..cursor[d] : log[j].message.type = "commit" => log[j].message.id <= epoch[d]
    /\ \A m \in used[d] : m.type # "commit"

Following ==
    \A a \in Clients : authors \subseteq {a} /\ NoLoss =>
        \A d \in Clients : Active(d) /\ d # a => KeptUp(d)

(* What a call adds to the outbox: messages of the caller, in its epoch,    *)
(* the commit last.                                                         *)
NewMessages(c, ms) ==
    /\ outbox' = [outbox EXCEPT ![c] = @ \o ms]
    /\ \A k \in 1..Len(ms) :
         /\ ms[k].from = c /\ ms[k].at = epoch[c]
         /\ ms[k].type = "commit" => ms[k].id \in Epochs' \ Epochs
         /\ ms[k].type = "proposal" => ms[k].id = Len(proposals) + 1
    /\ \A k, l \in 1..Len(ms) : k < l => Precedes(ms[k], ms[l])
    /\ \A e \in Epochs' \ Epochs : \E k \in 1..Len(ms) : IsCommit(ms[k], e)

(* A call that proposes, commits or sends adds such messages to the         *)
(* caller's outbox.                                                         *)
LEMMA MessagesMade ==
    ASSUME Inv, NEW c \in Clients, Proposes(c) \/ Commits(c) \/ Sends(c)
    PROVE  \E ms \in Seq(MessageSet) : NewMessages(c, ms)
<1>0. TypeOK
  BY DEF Inv
<1>1. /\ epoch[c] \in Nat /\ Len(epochs) + 1 \in Nat /\ Len(proposals) + 1 \in Nat
      /\ outbox \in [Clients -> Seq(MessageSet)] /\ outbox[c] \in Seq(MessageSet)
      /\ Len(epochs) \in Nat /\ epochs \in Seq(EpochSet)
  BY <1>0, Types
<1> DEFINE P == ProposalMessage(c)
           C == CommitMessage(c)
<1>2. /\ P \in MessageSet /\ P.type = "proposal" /\ P.from = c /\ P.at = epoch[c] /\ P.id = Len(proposals) + 1
      /\ C \in MessageSet /\ C.type = "commit" /\ C.from = c /\ C.at = epoch[c] /\ C.id = Len(epochs) + 1
  BY <1>1 DEF ProposalMessage, CommitMessage, Message, MessageSet
<1> HIDE DEF P, C
<1>3. ASSUME NEW m \in MessageSet, m.from = c, m.at = epoch[c],
             m.type = "commit" => m.id \in Epochs' \ Epochs,
             m.type = "proposal" => m.id = Len(proposals) + 1,
             \A e \in Epochs' \ Epochs : IsCommit(m, e),
             outbox' = [outbox EXCEPT ![c] = @ \o <<m>>]
      PROVE  \E ms \in Seq(MessageSet) : NewMessages(c, ms)
  <2> DEFINE ms == <<m>>
  <2>1. ms \in Seq(MessageSet) /\ Len(ms) = 1 /\ ms[1] = m
    OBVIOUS
  <2>2. outbox' = [outbox EXCEPT ![c] = @ \o ms]
    BY <1>3
  <2> HIDE DEF ms
  <2>3. \A k, l \in 1..Len(ms) : ~(k < l)
    BY <2>1
  <2>4. 1 \in 1..Len(ms) /\ \A k \in 1..Len(ms) : ms[k] = m
    BY <2>1
  <2>5. NewMessages(c, ms)
    BY <1>3, <2>2, <2>3, <2>4 DEF NewMessages
  <2> QED
    BY <2>1, <2>5
<1>4. CASE Proposes(c)
  <2>1. epochs' = epochs /\ Epochs' \ Epochs = {}
    BY <1>4 DEF Proposes, Epochs
  <2>2. CASE outbox' = outbox
    <3>1. <<>> \in Seq(MessageSet) /\ 1..Len(<<>>) = {}
      BY EmptySeq
    <3>2. outbox' = [outbox EXCEPT ![c] = @ \o <<>>]
      BY <1>1, <2>2, ConcatEmptySeq
    <3>3. NewMessages(c, <<>>)
      BY <2>1, <3>1, <3>2 DEF NewMessages
    <3> QED
      BY <3>1, <3>3
  <2>3. CASE outbox' = [outbox EXCEPT ![c] = @ \o <<P>>]
    BY <1>2, <1>3, <2>1, <2>3
  <2> QED
    BY <1>4, <2>2, <2>3 DEF Proposes, P
<1>5. CASE Sends(c)
  <2>1. epochs' = epochs /\ Epochs' \ Epochs = {}
    BY <1>5 DEF Sends, Idles, Epochs
  <2>2. PICK k \in Nat : outbox' = [outbox EXCEPT ![c] = @ \o <<Message("application", c, epoch[c], k)>>]
    BY <1>5 DEF Sends
  <2> DEFINE m == Message("application", c, epoch[c], k)
  <2>3. m \in MessageSet /\ m.type = "application" /\ m.from = c /\ m.at = epoch[c]
    BY <1>1 DEF Message, MessageSet
  <2>4. outbox' = [outbox EXCEPT ![c] = @ \o <<m>>]
    BY <2>2
  <2> HIDE DEF m
  <2> QED
    BY <1>3, <2>1, <2>3, <2>4
<1>6. CASE Commits(c)
  <2>1. Epochs' \ Epochs = {Len(epochs) + 1}
    <3>1. PICK x : epochs' = Append(epochs, x)
      BY <1>6 DEF Commits
    <3>2. Len(epochs') = Len(epochs) + 1
      BY <1>1, <3>1
    <3> QED
      BY <1>1, <3>2 DEF Epochs
  <2>2. CASE outbox' = [outbox EXCEPT ![c] = @ \o <<C>>]
    BY <1>2, <1>3, <2>1, <2>2 DEF IsCommit
  <2>3. CASE outbox' = [outbox EXCEPT ![c] = @ \o Append(<<P>>, C)]
    <3> DEFINE ms == Append(<<P>>, C)
    <3>1. ms \in Seq(MessageSet) /\ Len(ms) = 2 /\ ms[1] = P /\ ms[2] = C
      <4>1. <<P>> \in Seq(MessageSet) /\ Len(<<P>>) = 1 /\ <<P>>[1] = P
        BY <1>2
      <4> QED
        BY <1>2, <4>1, AppendProperties
    <3>2. outbox' = [outbox EXCEPT ![c] = @ \o ms]
      BY <2>3
    <3> HIDE DEF ms
    <3>3. /\ 1..Len(ms) = {1, 2} /\ \A k, l \in 1..Len(ms) : k < l => k = 1 /\ l = 2
          /\ \A k \in 1..Len(ms) : ms[k] = P \/ ms[k] = C
      BY <3>1
    <3>4. Precedes(ms[1], ms[2])
      BY <1>2, <3>1 DEF Precedes
    <3>5. IsCommit(ms[2], Len(epochs) + 1)
      BY <1>2, <3>1 DEF IsCommit
    <3>6. \A k \in 1..Len(ms) :
             /\ ms[k].from = c /\ ms[k].at = epoch[c]
             /\ ms[k].type = "commit" => ms[k].id \in Epochs' \ Epochs
             /\ ms[k].type = "proposal" => ms[k].id = Len(proposals) + 1
      BY <1>2, <2>1, <3>3
    <3>7. NewMessages(c, ms)
      BY <2>1, <3>2, <3>3, <3>4, <3>5, <3>6 DEF NewMessages
    <3> QED
      BY <3>1, <3>7
  <2> QED
    BY <1>6, <2>2, <2>3 DEF Commits, P, C
<1> QED
  BY <1>4, <1>5, <1>6

(* The outbox with more messages. *)
LEMMA OutboxGrows ==
    ASSUME TypeOK, NEW c \in Clients, NEW ms \in Seq(MessageSet),
           outbox' = [outbox EXCEPT ![c] = @ \o ms]
    PROVE  /\ \A i \in 1..Len(outbox[c]) : i \in 1..Len(outbox'[c]) /\ outbox'[c][i] = outbox[c][i]
           /\ \A i \in 1..Len(outbox'[c]) :
                \/ i \in 1..Len(outbox[c]) /\ outbox'[c][i] = outbox[c][i]
                \/ i - Len(outbox[c]) \in 1..Len(ms) /\ outbox'[c][i] = ms[i - Len(outbox[c])]
           /\ OutSet(c)' = OutSet(c) \cup {ms[k] : k \in 1..Len(ms)}
           /\ \A d \in Clients : d # c => outbox'[d] = outbox[d] /\ OutSet(d)' = OutSet(d)
           /\ Len(outbox[c]) \in Nat /\ Len(ms) \in Nat
<1> DEFINE s == outbox[c]
<1>1. s \in Seq(MessageSet) /\ Len(s) \in Nat /\ Len(ms) \in Nat /\ outbox \in [Clients -> Seq(MessageSet)]
  BY Types, LenProperties
<1>2. outbox'[c] = s \o ms /\ \A d \in Clients : d # c => outbox'[d] = outbox[d]
  BY <1>1
<1> DEFINE t == outbox'[c]
<1> HIDE DEF s, t
<1>3. /\ Len(t) = Len(s) + Len(ms)
      /\ \A i \in 1..(Len(s) + Len(ms)) : t[i] = IF i <= Len(s) THEN s[i] ELSE ms[i - Len(s)]
  BY <1>1, <1>2, ConcatProperties DEF t
<1>4. \A i \in 1..Len(s) : i \in 1..Len(t) /\ t[i] = s[i]
  BY <1>1, <1>3
<1>5. \A i \in 1..Len(t) : \/ i \in 1..Len(s) /\ t[i] = s[i]
                           \/ i - Len(s) \in 1..Len(ms) /\ t[i] = ms[i - Len(s)]
  <2> SUFFICES ASSUME NEW i \in 1..Len(t)
               PROVE  \/ i \in 1..Len(s) /\ t[i] = s[i]
                      \/ i - Len(s) \in 1..Len(ms) /\ t[i] = ms[i - Len(s)]
    OBVIOUS
  <2>1. CASE i <= Len(s)
    BY <1>1, <1>3, <2>1
  <2>2. CASE ~(i <= Len(s))
    <3>1. i - Len(s) \in 1..Len(ms)
      BY <1>1, <1>3, <2>2
    <3> QED
      BY <1>3, <2>2, <3>1
  <2> QED
    BY <2>1, <2>2
<1>6. {t[i] : i \in 1..Len(t)} = {s[i] : i \in 1..Len(s)} \cup {ms[k] : k \in 1..Len(ms)}
  <2>1. ASSUME NEW k \in 1..Len(ms) PROVE ms[k] \in {t[i] : i \in 1..Len(t)}
    <3> DEFINE i == k + Len(s)
    <3>1. i \in 1..(Len(s) + Len(ms)) /\ ~(i <= Len(s)) /\ i - Len(s) = k
      BY <1>1
    <3> HIDE DEF i
    <3>2. i \in 1..Len(t) /\ t[i] = ms[k]
      BY <1>3, <3>1
    <3> QED
      BY <3>2
  <2> QED
    BY <1>4, <1>5, <2>1
<1> QED
  BY <1>1, <1>2, <1>4, <1>5, <1>6, SMTT(30) DEF s, t, OutSet

(* New messages are in the outbox of their sender. *)
LEMMA NewSets ==
    ASSUME TypeOK, NEW c \in Clients, NEW ms \in Seq(MessageSet), NewMessages(c, ms)
    PROVE  /\ OutSet(c)' = OutSet(c) \cup {ms[k] : k \in 1..Len(ms)}
           /\ \A d \in Clients : d # c => outbox'[d] = outbox[d] /\ OutSet(d)' = OutSet(d)
<1>1. outbox' = [outbox EXCEPT ![c] = @ \o ms]
  BY DEF NewMessages
<1> QED
  BY <1>1, OutboxGrows

(* Publishing moves the first message of the outbox to the log. *)
LEMMA PublishedSets ==
    ASSUME Inv, NEW c \in Clients, Publishes(c)
    PROVE  /\ LogSet' = LogSet \cup {outbox[c][1]}
           /\ OutSet(c) = OutSet(c)' \cup {outbox[c][1]}
           /\ \A d \in Clients : d # c => OutSet(d)' = OutSet(d)
<1> DEFINE h == outbox[c][1]
<1>1. /\ Len(log) \in Nat /\ Len(log') = Len(log) + 1 /\ log'[Len(log) + 1].message = h
      /\ \A i \in 1..Len(log) : log'[i] = log[i]
      /\ \A i \in 1..Len(log') : i \in 1..Len(log) \/ i = Len(log) + 1
      /\ Len(outbox[c]) \in Nat /\ 1 \in 1..Len(outbox[c]) /\ Len(outbox'[c]) = Len(outbox[c]) - 1
      /\ \A i \in 1..Len(outbox'[c]) : i + 1 \in 1..Len(outbox[c]) /\ outbox'[c][i] = outbox[c][i + 1]
      /\ \A d \in Clients : d # c => outbox'[d] = outbox[d]
  BY OneMoreEntry
<1>2. LogSet' = LogSet \cup {h}
  <2>1. Len(log) + 1 \in 1..Len(log') /\ \A i \in 1..Len(log) : i \in 1..Len(log')
    BY <1>1
  <2> HIDE DEF h
  <2> QED
    BY <1>1, <2>1, SMTT(30) DEF LogSet
<1>3. OutSet(c) = OutSet(c)' \cup {h}
  <2> DEFINE s == outbox[c]
             t == outbox'[c]
  <2>1. \A i \in 1..Len(s) : i = 1 \/ (i - 1 \in 1..Len(t) /\ s[i] = t[i - 1])
    BY <1>1
  <2>2. \A i \in 1..Len(t) : i + 1 \in 1..Len(s) /\ t[i] = s[i + 1]
    BY <1>1
  <2>3. 1 \in 1..Len(s) /\ h = s[1]
    BY <1>1
  <2> HIDE DEF s, t, h
  <2>4. {s[i] : i \in 1..Len(s)} = {t[i] : i \in 1..Len(t)} \cup {h}
    BY <2>1, <2>2, <2>3, SMTT(30)
  <2> QED
    BY <2>4 DEF s, t, OutSet
<1>4. \A d \in Clients : d # c => OutSet(d)' = OutSet(d)
  BY <1>1 DEF OutSet
<1> QED
  BY <1>2, <1>3, <1>4

(* Messages that are under way are genuine. *)
LEMMA UnderWay ==
    ASSUME Inv
    PROVE  /\ \A m \in LogSet : m \in MessageSet /\ Genuine(m, epochs, proposals)
           /\ \A c \in Clients : \A m \in OutSet(c) : m \in MessageSet /\ Genuine(m, epochs, proposals)
<1>1. \A i \in 1..Len(log) : log[i].message \in MessageSet
  <2>1. \A i \in 1..Len(log) : log[i] \in Entry
    BY Types, ElementOfSeq DEF Inv
  <2> QED
    BY <2>1 DEF Entry
<1>2. \A c \in Clients : \A i \in 1..Len(outbox[c]) : outbox[c][i] \in MessageSet
  BY Types, ElementOfSeq DEF Inv
<1> QED
  BY <1>1, <1>2 DEF Inv, MessagesGenuine, LogSet, OutSet

(* Epochs, proposals and messages may be added by one client, which becomes *)
(* an author by it.                                                         *)
LEMMA AuthorsGrow ==
    ASSUME Inv, AuthorInv, NEW c \in Clients,
           epochs' \in Seq(EpochSet), Extended(epochs, epochs'),
           proposals' \in Seq(Proposal), Extended(proposals, proposals'),
           authors \subseteq authors', \A x \in authors' : state'[x] # "None",
           \A r \in 1..Len(proposals') : r \in 1..Len(proposals) \/ proposals'[r].sender \in authors',
           \A e \in Epochs' \ Epochs : epochs'[e].by = c /\ c \in authors' /\ epochs'[e].parent # 0,
           NEW ms \in Seq(MessageSet), NewMessages(c, ms), log' = log
    PROVE  AuthorInv'
<1>0. TypeOK
  BY DEF Inv
<1> DEFINE M == {ms[k] : k \in 1..Len(ms)}
<1>1. /\ Epochs \subseteq Epochs' /\ \A e \in Epochs : epochs'[e] = epochs[e]
      /\ \A r \in 1..Len(proposals) : proposals'[r] = proposals[r]
  BY GrowthKeeps
<1>2. /\ OutSet(c)' = OutSet(c) \cup M
      /\ \A d \in Clients : d # c => OutSet(d)' = OutSet(d)
      /\ LogSet' = LogSet
  <2>1. LogSet' = LogSet
    BY DEF LogSet
  <2> QED
    BY <1>0, <2>1, NewSets
<1>3. \A m \in M : m.from = c /\ (m.type = "commit" => m.id \in Epochs' \ Epochs)
  BY DEF NewMessages
<1>4. \A e \in Epochs' \ Epochs : \E m \in M : IsCommit(m, e)
  BY DEF NewMessages
<1> HIDE DEF M
<1>5. AuthorsKnown'
  BY <1>1 DEF AuthorInv, AuthorsKnown
<1>6. MessagesSigned'
  <2>1. \A m \in LogSet : Origin(m)'
    BY <1>1, UnderWay DEF AuthorInv, MessagesSigned, Origin, Genuine, Epochs
  <2>2. \A d \in Clients : \A m \in OutSet(d) : m.from = d /\ Origin(m)'
    BY <1>1, UnderWay DEF AuthorInv, MessagesSigned, Origin, Genuine, Epochs
  <2>3. \A m \in M : Origin(m)'
    BY <1>3 DEF Origin
  <2> QED
    BY <1>2, <1>3, <2>1, <2>2, <2>3 DEF MessagesSigned
<1>7. CommitsCarried'
  <2> DEFINE Box(b) == {outbox'[b][i] : i \in 1..Len(outbox'[b])}
  <2> SUFFICES ASSUME NEW e \in Epochs', e # 1
               PROVE  \E m \in LogSet' \cup Box(epochs'[e].by) : IsCommit(m, e)
    BY DEF CommitsCarried, OutSet
  <2>0. \A b \in Clients : OutSet(b) \subseteq Box(b)
    BY <1>2, ZenonT(60) DEF OutSet
  <2>1. CASE e \in Epochs
    <3> DEFINE b == epochs[e].by
    <3>1. b \in Clients /\ epochs'[e].by = b
      <4>1. epochs[e] \in EpochSet
        BY <1>0, <2>1, Types, ElementOfSeq
      <4> QED
        BY <1>1, <2>1, <4>1 DEF EpochSet
    <3>2. PICK m \in LogSet \cup OutSet(b) : IsCommit(m, e)
      BY <2>1 DEF AuthorInv, CommitsCarried
    <3> HIDE DEF Box
    <3> QED
      BY <1>2, <2>0, <3>1, <3>2
  <2>2. CASE e \notin Epochs
    <3>1. PICK m \in M : IsCommit(m, e)
      BY <1>4, <2>2
    <3>2. Box(c) = OutSet(c) \cup M /\ epochs'[e].by = c
      BY <1>2, <2>2 DEF OutSet
    <3> HIDE DEF Box
    <3> QED
      BY <3>1, <3>2
  <2> QED
    BY <2>1, <2>2
<1> QED
  BY <1>5, <1>6, <1>7 DEF AuthorInv

(* Steps that only read, join or do nothing leave messages and authors. *)
LEMMA AuthorsStay ==
    ASSUME AuthorInv, UNCHANGED <<proposals, epochs, outbox, log, authors>>,
           \A c \in authors : state'[c] # "None"
    PROVE  AuthorInv'
<1>1. LogSet' = LogSet /\ \A c \in Clients : OutSet(c)' = OutSet(c)
  BY DEF LogSet, OutSet
<1>2. AuthorsKnown'
  BY DEF AuthorInv, AuthorsKnown, Epochs
<1>3. MessagesSigned'
  BY <1>1 DEF AuthorInv, MessagesSigned, Origin
<1>4. CommitsCarried'
  BY DEF AuthorInv, CommitsCarried, LogSet, OutSet, Epochs
<1> QED
  BY <1>2, <1>3, <1>4 DEF AuthorInv

(* Every step keeps the authorship of proposals, commits and messages. *)
LEMMA AuthorNext == Ordered /\ Inv /\ AuthorInv /\ [Next]_vars => AuthorInv'
<1> SUFFICES ASSUME Ordered, Inv, AuthorInv, [Next]_vars PROVE AuthorInv'
  OBVIOUS
<1>0. TypeOK /\ TypeOK'
  BY InvNext DEF Inv
<1>1. /\ epochs \in Seq(EpochSet) /\ proposals \in Seq(Proposal) /\ authors \subseteq Clients
      /\ state \in [Clients -> {"None", "Operational", "Inactive"}]
      /\ Extended(epochs, epochs) /\ Extended(proposals, proposals)
  BY <1>0, Types, ExtendedRefl DEF TypeOK
<1>2. \A x \in authors : state[x] # "None"
  BY DEF AuthorInv, AuthorsKnown
<1>3. ASSUME NEW c \in Clients, Proposes(c) PROVE AuthorInv'
  <2>1. PICK ms \in Seq(MessageSet) : NewMessages(c, ms)
    BY <1>3, MessagesMade
  <2>2. /\ Active(c) /\ authors' = authors \cup {c} /\ log' = log /\ state' = state /\ epochs' = epochs
    BY <1>3 DEF Proposes
  <2>3. PICK p \in Proposal : p.sender = c /\ proposals' = Append(proposals, p)
    BY <1>3 DEF Proposes
  <2>4. /\ proposals' \in Seq(Proposal) /\ Extended(proposals, proposals')
        /\ \A r \in 1..Len(proposals') : r \in 1..Len(proposals) \/ proposals'[r].sender = c
    BY <1>0, <2>3, OneMoreProposal
  <2>5. epochs' \in Seq(EpochSet) /\ Extended(epochs, epochs') /\ Epochs' \ Epochs = {}
    BY <1>1, <2>2 DEF Epochs
  <2>6. authors \subseteq authors' /\ \A x \in authors' : state'[x] # "None"
    BY <1>2, <2>2 DEF Active
  <2> QED
    BY <2>1, <2>2, <2>4, <2>5, <2>6, AuthorsGrow
<1>4. ASSUME NEW c \in Clients, Commits(c) PROVE AuthorInv'
  <2>1. PICK ms \in Seq(MessageSet) : NewMessages(c, ms)
    BY <1>4, MessagesMade
  <2>2. /\ Active(c) /\ authors' = authors \cup {c} /\ log' = log /\ state' = state
    BY <1>4 DEF Commits
  <2>3. /\ proposals' \in Seq(Proposal) /\ Extended(proposals, proposals')
        /\ \A r \in 1..Len(proposals') : r \in 1..Len(proposals) \/ proposals'[r].sender = c
        /\ epochs' \in Seq(EpochSet) /\ Extended(epochs, epochs')
    BY <1>4, CommitGrowth
  <2>4. \A e \in Epochs' \ Epochs : epochs'[e].by = c /\ epochs'[e].parent # 0
    <3>1. /\ \A e \in Epochs' : e \in Epochs \/ e = Len(epochs) + 1
          /\ epochs'[Len(epochs) + 1].by = c /\ epochs'[Len(epochs) + 1].parent = epoch[c] /\ epoch[c] \in Epochs
      BY <1>4, CommitGrowth
    <3>2. epoch[c] # 0
      BY <1>0, <3>1, Types
    <3> QED
      BY <3>1, <3>2
  <2>6. c \in authors' /\ authors \subseteq authors' /\ \A x \in authors' : state'[x] # "None"
    BY <1>2, <2>2 DEF Active
  <2> QED
    BY <2>1, <2>2, <2>3, <2>4, <2>6, AuthorsGrow
<1>5. ASSUME NEW c \in Clients, Sends(c) PROVE AuthorInv'
  <2>1. PICK ms \in Seq(MessageSet) : NewMessages(c, ms)
    BY <1>5, MessagesMade
  <2>2. UNCHANGED <<state, proposals, epochs, log, authors>>
    BY <1>5 DEF Sends, Idles
  <2>3. /\ epochs' \in Seq(EpochSet) /\ Extended(epochs, epochs') /\ Epochs' \ Epochs = {}
        /\ proposals' \in Seq(Proposal) /\ Extended(proposals, proposals')
        /\ \A r \in 1..Len(proposals') : r \in 1..Len(proposals)
    BY <1>1, <2>2 DEF Epochs
  <2> QED
    BY <1>2, <2>1, <2>2, <2>3, AuthorsGrow
<1>6. ASSUME NEW c \in Clients, Joins(c) PROVE AuthorInv'
  <2>1. UNCHANGED <<proposals, epochs, outbox, log, authors>> /\ state' = [state EXCEPT ![c] = "Operational"]
    BY <1>6 DEF Joins
  <2> QED
    BY <1>1, <1>2, <2>1, AuthorsStay
<1>7. ASSUME NEW c \in Clients, Publishes(c) PROVE AuthorInv'
  <2> DEFINE h == outbox[c][1]
  <2>1. UNCHANGED <<state, proposals, epochs, authors>>
    BY <1>7 DEF Publishes
  <2>2. /\ LogSet' = LogSet \cup {h} /\ OutSet(c) = OutSet(c)' \cup {h}
        /\ \A d \in Clients : d # c => OutSet(d)' = OutSet(d)
    BY <1>7, PublishedSets
  <2> HIDE DEF h
  <2>3. AuthorsKnown'
    BY <2>1 DEF AuthorInv, AuthorsKnown, Epochs
  <2>4. MessagesSigned'
    BY <2>1, <2>2 DEF AuthorInv, MessagesSigned, Origin
  <2>5. CommitsCarried'
    <3> DEFINE Box(b) == {outbox'[b][i] : i \in 1..Len(outbox'[b])}
    <3> SUFFICES ASSUME NEW e \in Epochs, e # 1
                 PROVE  \E m \in LogSet' \cup Box(epochs[e].by) : IsCommit(m, e)
      BY <2>1 DEF CommitsCarried, OutSet, Epochs
    <3>1. \A b \in Clients : OutSet(b) \subseteq Box(b) \cup {h}
      BY <2>2 DEF OutSet
    <3>2. epochs[e].by \in Clients
      <4>1. epochs[e] \in EpochSet
        BY <1>0, Types, ElementOfSeq
      <4> QED
        BY <4>1 DEF EpochSet
    <3>3. PICK m \in LogSet \cup OutSet(epochs[e].by) : IsCommit(m, e)
      BY DEF AuthorInv, CommitsCarried
    <3> HIDE DEF Box
    <3> QED
      BY <2>2, <3>1, <3>2, <3>3
  <2> QED
    BY <2>3, <2>4, <2>5 DEF AuthorInv
<1>8. ASSUME NEW c \in Clients, NEW i \in 1..Len(log),
             Stores(c, i) \/ Enters(c, i) \/ Consumes(c, i) \/ Skips(c, i)
      PROVE  AuthorInv'
  <2>1. UNCHANGED <<proposals, epochs, outbox, log, authors>>
    BY <1>8 DEF Stores, Enters, Consumes, Skips, ReadsNext
  <2>2. \A x \in Clients : state[x] # "None" => state'[x] # "None"
    BY <1>1, <1>8 DEF Stores, Enters, Consumes, Skips
  <2> QED
    BY <1>1, <1>2, <2>1, <2>2, AuthorsStay
<1>9. ASSUME Idles, UNCHANGED outbox PROVE AuthorInv'
  BY <1>2, <1>9, AuthorsStay DEF Idles
<1> QED
  BY <1>3, <1>4, <1>5, <1>6, <1>7, <1>8, <1>9, StepKinds

(* Proposals and commits that are under way are from authors. *)
LEMMA HandshakesByAuthors ==
    ASSUME Inv, AuthorInv, NEW m,
           m \in LogSet \/ \E c \in Clients : m \in OutSet(c),
           Handshake(m)
    PROVE  m.from \in authors
<1>1. Genuine(m, epochs, proposals) /\ Origin(m)
  BY UnderWay DEF AuthorInv, MessagesSigned
<1>2. CASE m.type = "proposal"
  BY <1>1, <1>2 DEF Genuine, AuthorInv, AuthorsKnown
<1>3. CASE m.type = "commit"
  <2>1. m.id \in Epochs /\ epochs[m.id].parent = m.at /\ m.at \in Epochs /\ m.from = epochs[m.id].by
    BY <1>1, <1>3 DEF Genuine, Epochs, Origin
  <2>2. m.id # 1
    <3>1. epochs[m.id].parent < m.id
      BY <2>1 DEF Inv, ParentsFirst
    <3> QED
      BY <2>1, <3>1, Types DEF Inv
  <2> QED
    BY <2>1, <2>2 DEF AuthorInv, AuthorsKnown
<1> QED
  BY <1>2, <1>3 DEF Handshake

(* The one author is at the end of the line. *)
LEMMA AtTheEnd ==
    ASSUME Inv, AuthorInv, LineInv, NEW a \in Clients, authors \subseteq {a}, Active(a)
    PROVE  epoch[a] = Len(epochs)
<1>1. CASE a \in authors
  BY <1>1 DEF LineInv, OneLine
<1>2. CASE a \notin authors
  <2>1. Len(epochs) \in Nat /\ Epochs = 1..Len(epochs)
    BY Types DEF Inv
  <2>2. epoch[a] \in Epochs
    BY DEF Inv, EpochAgreement, Active
  <2>3. \A e \in Epochs : e = 1
    BY <1>2 DEF AuthorInv, AuthorsKnown
  <2>4. Len(epochs) \in Epochs
    BY <2>1, <2>2
  <2> QED
    BY <2>2, <2>3, <2>4
<1> QED
  BY <1>1, <1>2

(* What is under way came before what is made at the end of the line. *)
LEMMA EarlierPrecede ==
    ASSUME Inv, LineInv, NEW a \in Clients, authors \subseteq {a},
           NEW m \in LogSet \cup OutSet(a), NEW n, n.at = Len(epochs)
    PROVE  Precedes(m, n)
<1>1. m \in MessageSet /\ Genuine(m, epochs, proposals)
  BY UnderWay
<1>2. Len(epochs) \in Nat /\ m.at \in 1..Len(epochs)
  BY <1>1, Types DEF Inv, Genuine
<1>3. CASE m.type = "commit"
  <2>1. m.id \in 1..Len(epochs) /\ epochs[m.id].parent = m.at /\ epochs[m.id].parent = m.id - 1
    BY <1>1, <1>3 DEF Genuine, LineInv, OneLine, Epochs
  <2>2. m.at < n.at
    BY <1>2, <2>1
  <2> QED
    BY <2>2 DEF Precedes
<1>4. CASE m.type # "commit"
  <2>1. m.at < n.at \/ m.at = n.at
    BY <1>2
  <2> QED
    BY <1>4, <2>1 DEF Precedes, Handshake
<1> QED
  BY <1>3, <1>4

(* The author's messages stay in order when it makes more at the end. *)
LEMMA OrderGrows ==
    ASSUME Inv, LineInv, NEW a \in Clients, authors \subseteq {a}, epoch[a] = Len(epochs),
           NEW ms \in Seq(MessageSet), NewMessages(a, ms), log' = log
    PROVE  InOrder(a)'
<1>0. TypeOK
  BY DEF Inv
<1> DEFINE s == outbox[a]
           t == outbox'[a]
<1>1. outbox' = [outbox EXCEPT ![a] = @ \o ms] /\ \A k, l \in 1..Len(ms) : k < l => Precedes(ms[k], ms[l])
  BY DEF NewMessages
<1>2. InOrder(a)
  BY DEF LineInv
<1>3. /\ \A i \in 1..Len(t) : \/ i \in 1..Len(s) /\ t[i] = s[i]
                              \/ i - Len(s) \in 1..Len(ms) /\ t[i] = ms[i - Len(s)]
      /\ OutSet(a)' = OutSet(a) \cup {ms[k] : k \in 1..Len(ms)}
      /\ Len(s) \in Nat /\ Len(ms) \in Nat
  BY <1>0, <1>1, OutboxGrows
<1>4. \A m \in LogSet \cup OutSet(a) : \A k \in 1..Len(ms) : Precedes(m, ms[k])
  <2>1. \A k \in 1..Len(ms) : ms[k].at = Len(epochs)
    BY DEF NewMessages
  <2> QED
    BY <2>1, EarlierPrecede
<1>5. LogSet' = LogSet
  BY DEF LogSet
<1>6. \A i, j \in 1..Len(log') : i < j => Precedes(log'[i].message, log'[j].message)
  BY <1>2 DEF InOrder
<1>7. \A m \in LogSet', n \in OutSet(a)' : Precedes(m, n)
  BY <1>2, <1>3, <1>4, <1>5 DEF InOrder
<1>8. ASSUME NEW i \in 1..Len(t), NEW j \in 1..Len(t), i < j
      PROVE  Precedes(t[i], t[j])
  <2> HIDE DEF t
  <2>1. CASE i \in 1..Len(s) /\ t[i] = s[i] /\ j \in 1..Len(s) /\ t[j] = s[j]
    BY <1>2, <1>8, <2>1 DEF InOrder
  <2>2. CASE i \in 1..Len(s) /\ t[i] = s[i] /\ j - Len(s) \in 1..Len(ms) /\ t[j] = ms[j - Len(s)]
    <3>1. s[i] \in OutSet(a)
      BY <2>2 DEF OutSet
    <3> QED
      BY <1>4, <2>2, <3>1
  <2>3. CASE i - Len(s) \in 1..Len(ms) /\ t[i] = ms[i - Len(s)]
    <3>1. j - Len(s) \in 1..Len(ms) /\ t[j] = ms[j - Len(s)]
      <4>1. j \notin 1..Len(s)
        BY <1>3, <1>8, <2>3
      <4> QED
        BY <1>3, <4>1
    <3>2. i - Len(s) < j - Len(s)
      BY <1>3, <1>8
    <3> QED
      BY <1>1, <2>3, <3>1, <3>2
  <2> QED
    BY <1>3, <2>1, <2>2, <2>3
<1> QED
  BY <1>6, <1>7, <1>8 DEF InOrder

(* While nothing is made or published, and the author stays where it is,    *)
(* line and order stay.                                                     *)
LEMMA LineStays ==
    ASSUME NEW a \in Clients, OneLine(a), InOrder(a), UNCHANGED <<epochs, log, authors>>,
           outbox'[a] = outbox[a], a \in authors => epoch'[a] = epoch[a]
    PROVE  OneLine(a)' /\ InOrder(a)'
<1>1. LogSet' = LogSet /\ OutSet(a)' = OutSet(a)
  BY DEF LogSet, OutSet
<1>2. OneLine(a)'
  BY DEF OneLine, Epochs
<1>3. InOrder(a)'
  BY <1>1 DEF InOrder
<1> QED
  BY <1>2, <1>3

(* Publishing keeps the order: the log gets the author's oldest message, or *)
(* somebody else's application message.                                     *)
LEMMA PublishesInOrder ==
    ASSUME Inv, AuthorInv, LineInv, NEW a \in Clients, authors \subseteq {a},
           NEW c \in Clients, Publishes(c)
    PROVE  InOrder(a)'
<1> DEFINE h == outbox[c][1]
<1>1. /\ Len(log) \in Nat /\ Len(log') = Len(log) + 1 /\ log'[Len(log) + 1].message = h
      /\ \A i \in 1..Len(log) : log'[i] = log[i]
      /\ \A i \in 1..Len(log') : i \in 1..Len(log) \/ i = Len(log) + 1
      /\ Len(outbox[c]) \in Nat /\ 1 \in 1..Len(outbox[c]) /\ Len(outbox'[c]) = Len(outbox[c]) - 1
      /\ \A i \in 1..Len(outbox'[c]) : i + 1 \in 1..Len(outbox[c]) /\ outbox'[c][i] = outbox[c][i + 1]
      /\ \A d \in Clients : d # c => outbox'[d] = outbox[d]
  BY OneMoreEntry
<1>2. /\ LogSet' = LogSet \cup {h} /\ OutSet(c) = OutSet(c)' \cup {h}
      /\ \A d \in Clients : d # c => OutSet(d)' = OutSet(d)
  BY PublishedSets
<1>3. /\ \A i, j \in 1..Len(log) : i < j => Precedes(log[i].message, log[j].message)
      /\ \A i, j \in 1..Len(outbox[a]) : i < j => Precedes(outbox[a][i], outbox[a][j])
      /\ \A m \in LogSet, n \in OutSet(a) : Precedes(m, n)
  BY DEF LineInv, InOrder
<1>4. \A m \in LogSet : Precedes(m, h)
  <2>1. CASE c = a
    BY <1>2, <1>3, <2>1
  <2>2. CASE c # a
    <3>1. h \in OutSet(c) /\ h.from = c
      BY <1>2 DEF AuthorInv, MessagesSigned
    <3>2. ~Handshake(h)
      BY <2>2, <3>1, HandshakesByAuthors
    <3> HIDE DEF h
    <3> QED
      BY <3>2 DEF Precedes
  <2> QED
    BY <2>1, <2>2
<1>5. \A n \in OutSet(a)' : Precedes(h, n)
  <2> SUFFICES ASSUME NEW k \in 1..Len(outbox'[a]) PROVE Precedes(h, outbox'[a][k])
    BY DEF OutSet
  <2>1. CASE c = a
    <3>1. k + 1 \in 1..Len(outbox[a]) /\ outbox'[a][k] = outbox[a][k + 1] /\ 1 \in 1..Len(outbox[a])
      BY <1>1, <2>1
    <3>2. 1 < k + 1
      BY <1>1, <2>1
    <3> QED
      BY <1>3, <2>1, <3>1, <3>2
  <2>2. CASE c # a
    <3>1. h \in OutSet(c) /\ h.from = c
      BY <1>2 DEF AuthorInv, MessagesSigned
    <3>2. ~Handshake(h)
      BY <2>2, <3>1, HandshakesByAuthors
    <3> HIDE DEF h
    <3> QED
      BY <3>2 DEF Precedes
  <2> QED
    BY <2>1, <2>2
<1>6. OutSet(a)' \subseteq OutSet(a)
  BY <1>2
<1> HIDE DEF h
<1>7. \A m \in LogSet', n \in OutSet(a)' : Precedes(m, n)
  BY <1>2, <1>3, <1>5, <1>6
<1>8. \A i, j \in 1..Len(log') : i < j => Precedes(log'[i].message, log'[j].message)
  <2> SUFFICES ASSUME NEW i \in 1..Len(log'), NEW j \in 1..Len(log'), i < j
               PROVE  Precedes(log'[i].message, log'[j].message)
    OBVIOUS
  <2>1. i \in 1..Len(log)
    BY <1>1
  <2>2. CASE j \in 1..Len(log)
    BY <1>1, <1>3, <2>1, <2>2
  <2>3. CASE j = Len(log) + 1
    <3>1. log[i].message \in LogSet
      BY <2>1 DEF LogSet
    <3> QED
      BY <1>1, <1>4, <2>1, <2>3, <3>1
  <2> QED
    BY <1>1, <2>2, <2>3
<1>9. \A i, j \in 1..Len(outbox'[a]) : i < j => Precedes(outbox'[a][i], outbox'[a][j])
  <2>1. CASE c = a
    <3> SUFFICES ASSUME NEW i \in 1..Len(outbox'[a]), NEW j \in 1..Len(outbox'[a]), i < j
                 PROVE  Precedes(outbox'[a][i], outbox'[a][j])
      OBVIOUS
    <3>1. /\ i + 1 \in 1..Len(outbox[a]) /\ outbox'[a][i] = outbox[a][i + 1]
          /\ j + 1 \in 1..Len(outbox[a]) /\ outbox'[a][j] = outbox[a][j + 1]
      BY <1>1, <2>1
    <3>2. i + 1 < j + 1
      BY <1>1, <2>1
    <3> QED
      BY <1>3, <3>1, <3>2
  <2>2. CASE c # a
    BY <1>1, <1>3, <2>2
  <2> QED
    BY <2>1, <2>2
<1> QED
  BY <1>7, <1>8, <1>9 DEF InOrder

(* While there is one author, every step keeps the line and the order. *)
LEMMA LineNext == Ordered /\ Inv /\ AuthorInv /\ LineInv /\ [Next]_vars => LineInv'
<1> SUFFICES ASSUME Ordered, Inv, AuthorInv, LineInv, [Next]_vars,
                    NEW a \in Clients, authors' \subseteq {a}
             PROVE  OneLine(a)' /\ InOrder(a)'
  BY DEF LineInv
<1>0. TypeOK
  BY DEF Inv
<1>1. /\ epoch \in [Clients -> Nat] /\ Len(epochs) \in Nat /\ Epochs = 1..Len(epochs)
  BY <1>0, Types
<1>2. ASSUME authors \subseteq {a} PROVE OneLine(a) /\ InOrder(a)
  BY <1>2 DEF LineInv
<1>3. ASSUME NEW c \in Clients, Proposes(c) PROVE OneLine(a)' /\ InOrder(a)'
  <2>1. /\ authors' = authors \cup {c} /\ Active(c) /\ UNCHANGED <<epochs, epoch, log>>
    BY <1>3 DEF Proposes
  <2>2. c = a /\ authors \subseteq {a}
    BY <2>1
  <2>3. epoch[a] = Len(epochs)
    BY <2>1, <2>2, AtTheEnd
  <2>4. OneLine(a)'
    BY <1>2, <2>1, <2>2, <2>3 DEF OneLine, Epochs
  <2>5. PICK ms \in Seq(MessageSet) : NewMessages(c, ms)
    BY <1>3, MessagesMade
  <2> QED
    BY <2>1, <2>2, <2>3, <2>4, <2>5, OrderGrows
<1>4. ASSUME NEW c \in Clients, Commits(c) PROVE OneLine(a)' /\ InOrder(a)'
  <2>1. /\ authors' = authors \cup {c} /\ Active(c) /\ log' = log
        /\ epoch' = [epoch EXCEPT ![c] = Len(epochs) + 1]
    BY <1>4 DEF Commits
  <2>2. c = a /\ authors \subseteq {a}
    BY <2>1
  <2>3. epoch[a] = Len(epochs)
    BY <2>1, <2>2, AtTheEnd
  <2>4. OneLine(a)'
    <3>1. /\ Len(epochs') = Len(epochs) + 1 /\ \A e \in Epochs' : e \in Epochs \/ e = Len(epochs) + 1
          /\ epochs'[Len(epochs) + 1].parent = epoch[a] /\ Extended(epochs, epochs')
      BY <1>4, <2>2, CommitGrowth
    <3>2. \A e \in Epochs : epochs'[e].parent = e - 1
      BY <1>1, <1>2, <2>2, <3>1 DEF Extended, OneLine
    <3>3. epochs'[Len(epochs) + 1].parent = (Len(epochs) + 1) - 1
      BY <1>1, <2>3, <3>1
    <3>4. epoch'[a] = Len(epochs')
      BY <1>1, <2>1, <2>2, <3>1
    <3> QED
      BY <3>1, <3>2, <3>3, <3>4 DEF OneLine
  <2>5. PICK ms \in Seq(MessageSet) : NewMessages(c, ms)
    BY <1>4, MessagesMade
  <2> QED
    BY <2>1, <2>2, <2>3, <2>4, <2>5, OrderGrows
<1>5. ASSUME NEW c \in Clients, Sends(c) PROVE OneLine(a)' /\ InOrder(a)'
  <2>1. /\ authors' = authors /\ Active(c) /\ UNCHANGED <<epochs, epoch, log>>
    BY <1>5 DEF Sends, Idles
  <2>2. PICK ms \in Seq(MessageSet) : NewMessages(c, ms)
    BY <1>5, MessagesMade
  <2>3. CASE c = a
    <3>1. epoch[a] = Len(epochs)
      BY <2>1, <2>3, AtTheEnd
    <3>2. OneLine(a)'
      BY <1>2, <2>1 DEF OneLine, Epochs
    <3> QED
      BY <2>1, <2>2, <2>3, <3>1, <3>2, OrderGrows
  <2>4. CASE c # a
    <3>1. outbox'[a] = outbox[a]
      BY <1>0, <2>2, <2>4, OutboxGrows DEF NewMessages
    <3> QED
      BY <1>2, <2>1, <3>1, LineStays
  <2> QED
    BY <2>3, <2>4
<1>6. ASSUME NEW c \in Clients, Joins(c) PROVE OneLine(a)' /\ InOrder(a)'
  <2>1. UNCHANGED <<epochs, log, authors, outbox>> /\ state[c] = "None"
    BY <1>6 DEF Joins
  <2>2. a \in authors => epoch'[a] = epoch[a]
    <3>1. a \in authors => a # c
      BY <2>1 DEF AuthorInv, AuthorsKnown
    <3>2. a # c => epoch'[a] = epoch[a]
      BY <1>1, <1>6 DEF Joins
    <3> QED
      BY <3>1, <3>2
  <2> QED
    BY <1>2, <2>1, <2>2, LineStays
<1>7. ASSUME NEW c \in Clients, Publishes(c) PROVE OneLine(a)' /\ InOrder(a)'
  <2>1. UNCHANGED <<epochs, epoch, authors>>
    BY <1>7 DEF Publishes
  <2>2. OneLine(a)'
    BY <1>2, <2>1 DEF OneLine, Epochs
  <2> QED
    BY <1>7, <2>1, <2>2, PublishesInOrder
<1>8. ASSUME NEW c \in Clients, NEW i \in 1..Len(log), Stores(c, i) \/ Consumes(c, i) \/ Skips(c, i)
      PROVE  OneLine(a)' /\ InOrder(a)'
  <2>1. UNCHANGED <<epochs, epoch, log, authors, outbox>>
    BY <1>8 DEF Stores, Consumes, Skips, ReadsNext
  <2> QED
    BY <1>2, <2>1, LineStays
<1>9. ASSUME NEW c \in Clients, NEW i \in 1..Len(log), Enters(c, i)
      PROVE  OneLine(a)' /\ InOrder(a)'
  <2>1. UNCHANGED <<epochs, log, authors, outbox>>
    BY <1>9 DEF Enters, ReadsNext
  <2>2. c # a
    <3>1. log[i].message.from # c /\ Handshake(log[i].message) /\ log[i].message \in LogSet
      BY <1>9 DEF Enters, Decrypts, Handshake, LogSet
    <3>2. log[i].message.from \in authors
      BY <3>1, HandshakesByAuthors
    <3> QED
      BY <2>1, <3>1, <3>2
  <2>3. epoch'[a] = epoch[a]
    BY <1>1, <1>9, <2>2 DEF Enters
  <2> QED
    BY <1>2, <2>1, <2>3, LineStays
<1>10. ASSUME Idles, UNCHANGED outbox PROVE OneLine(a)' /\ InOrder(a)'
  <2>1. UNCHANGED <<epochs, epoch, log, authors, outbox>>
    BY <1>10 DEF Idles
  <2> QED
    BY <1>2, <2>1, LineStays
<1> QED
  BY <1>3, <1>4, <1>5, <1>6, <1>7, <1>8, <1>9, <1>10, StepKinds

(* A proposal's message is not found again: what is carried after a step    *)
(* was carried before it, if the proposal had been made by then.            *)
LEMMA CarriedBefore ==
    ASSUME Ordered, Inv, AuthorInv, [Next]_vars,
           NEW r \in 1..Len(proposals), NEW s \in Clients, s = proposals[r].sender, NEW m,
           m \in LogSet' \/ m \in OutSet(s)', IsProposal(m, r)
    PROVE  m \in LogSet \cup OutSet(s)
<1>0. TypeOK
  BY DEF Inv
<1>1. Len(proposals) \in Nat
  BY <1>0, Types
<1>2. ASSUME NEW c \in Clients, Proposes(c) \/ Commits(c) \/ Sends(c)
      PROVE  m \in LogSet \cup OutSet(s)
  <2>1. PICK ms \in Seq(MessageSet) : NewMessages(c, ms)
    BY <1>2, MessagesMade
  <2>2. LogSet' = LogSet
    BY <1>2 DEF Proposes, Commits, Sends, Idles, LogSet
  <2>3. /\ OutSet(c)' = OutSet(c) \cup {ms[k] : k \in 1..Len(ms)}
        /\ \A d \in Clients : d # c => OutSet(d)' = OutSet(d)
    BY <1>0, <2>1, NewSets
  <2>4. ASSUME NEW k \in 1..Len(ms), m = ms[k] PROVE FALSE
    <3>1. r = Len(proposals) + 1
      BY <2>1, <2>4 DEF NewMessages, IsProposal
    <3> QED
      BY <1>1, <3>1
  <2> QED
    BY <2>2, <2>3, <2>4
<1>3. ASSUME NEW c \in Clients, Publishes(c) PROVE m \in LogSet \cup OutSet(s)
  <2> DEFINE h == outbox[c][1]
  <2>1. /\ LogSet' = LogSet \cup {h} /\ OutSet(c) = OutSet(c)' \cup {h}
        /\ \A d \in Clients : d # c => OutSet(d)' = OutSet(d)
    BY <1>3, PublishedSets
  <2> HIDE DEF h
  <2>2. ASSUME m = h PROVE c = s
    <3>1. Genuine(m, epochs, proposals) /\ m.from = c
      BY <2>1, <2>2, UnderWay DEF AuthorInv, MessagesSigned
    <3> QED
      BY <3>1 DEF Genuine, IsProposal
  <2> QED
    BY <2>1, <2>2
<1>4. ASSUME UNCHANGED <<outbox, log>> PROVE m \in LogSet \cup OutSet(s)
  BY <1>4 DEF LogSet, OutSet
<1>5. ASSUME NEW c \in Clients, NEW i \in 1..Len(log),
             Stores(c, i) \/ Enters(c, i) \/ Consumes(c, i) \/ Skips(c, i)
      PROVE  m \in LogSet \cup OutSet(s)
  BY <1>4, <1>5 DEF Stores, Enters, Consumes, Skips, ReadsNext
<1>6. ASSUME NEW c \in Clients, Joins(c) PROVE m \in LogSet \cup OutSet(s)
  BY <1>4, <1>6 DEF Joins
<1>7. ASSUME Idles, UNCHANGED outbox PROVE m \in LogSet \cup OutSet(s)
  BY <1>4, <1>7 DEF Idles
<1> QED
  BY <1>2, <1>3, <1>5, <1>6, <1>7, StepKinds

(* Epochs and proposals are only ever appended, and authors stay. *)
LEMMA HistoryGrows ==
    ASSUME Ordered, Inv, [Next]_vars
    PROVE  /\ epochs' \in Seq(EpochSet) /\ Extended(epochs, epochs')
           /\ proposals' \in Seq(Proposal) /\ Extended(proposals, proposals')
           /\ authors \subseteq authors'
<1>0. TypeOK
  BY DEF Inv
<1>1. /\ epochs \in Seq(EpochSet) /\ Extended(epochs, epochs)
      /\ proposals \in Seq(Proposal) /\ Extended(proposals, proposals)
  BY <1>0, Types, ExtendedRefl
<1> DEFINE Goal == /\ epochs' \in Seq(EpochSet) /\ Extended(epochs, epochs')
                   /\ proposals' \in Seq(Proposal) /\ Extended(proposals, proposals')
                   /\ authors \subseteq authors'
<1>2. ASSUME NEW c \in Clients, Proposes(c) PROVE Goal
  <2>1. PICK p \in Proposal : proposals' = Append(proposals, p)
    BY <1>2 DEF Proposes
  <2>2. proposals' \in Seq(Proposal) /\ Extended(proposals, proposals')
    BY <1>0, <2>1, OneMoreProposal
  <2>3. epochs' = epochs /\ authors' = authors \cup {c}
    BY <1>2 DEF Proposes
  <2> QED
    BY <1>1, <2>2, <2>3
<1>3. ASSUME NEW c \in Clients, Commits(c) PROVE Goal
  BY <1>3, CommitGrowth DEF Commits
<1>4. ASSUME UNCHANGED <<epochs, proposals, authors>> PROVE Goal
  BY <1>1, <1>4
<1> SUFFICES Goal
  OBVIOUS
<1> HIDE DEF Goal
<1>5. ASSUME NEW c \in Clients, Joins(c) \/ Sends(c) \/ Publishes(c) PROVE Goal
  BY <1>4, <1>5 DEF Joins, Sends, Idles, Publishes
<1>6. ASSUME NEW c \in Clients, NEW i \in 1..Len(log),
             Stores(c, i) \/ Enters(c, i) \/ Consumes(c, i) \/ Skips(c, i)
      PROVE  Goal
  BY <1>4, <1>6 DEF Stores, Enters, Consumes, Skips, ReadsNext
<1>7. ASSUME Idles PROVE Goal
  BY <1>4, <1>7 DEF Idles
<1> QED
  BY <1>2, <1>3, <1>5, <1>6, <1>7, StepKinds

(* A loss is for good. *)
LEMMA LossIsForGood ==
    ASSUME Ordered, Inv, ReadInv, AuthorInv, [Next]_vars, NoLoss'
    PROVE  NoLoss
<1>0. TypeOK
  BY DEF Inv
<1>1. /\ Epochs \subseteq Epochs' /\ \A e \in Epochs : epochs'[e] = epochs[e]
      /\ \A r \in 1..Len(proposals) : proposals'[r] = proposals[r]
  BY HistoryGrows, GrowthKeeps
<1> SUFFICES ASSUME NEW e \in Epochs, NEW r \in epochs[e].refs
             PROVE  \E m \in LogSet \cup OutSet(proposals[r].sender) : IsProposal(m, r)
  BY DEF NoLoss
<1>2. r \in 1..Len(proposals)
  BY DEF ReadInv, CommitsValid
<1>3. PICK s \in Clients : s = proposals[r].sender /\ proposals'[r].sender = s
  <2>1. proposals[r] \in Proposal
    BY <1>0, <1>2, Types, ElementOfSeq
  <2> QED
    BY <1>1, <1>2, <2>1 DEF Proposal
<1> DEFINE Box(b) == {outbox'[b][i] : i \in 1..Len(outbox'[b])}
<1>4. \E m \in LogSet' \cup Box(proposals'[r].sender) : IsProposal(m, r)
  <2>1. e \in Epochs' /\ r \in epochs'[e].refs
    BY <1>1
  <2> QED
    BY <2>1 DEF NoLoss, OutSet
<1>5. PICK m \in LogSet' \cup Box(s) : IsProposal(m, r)
  BY <1>3, <1>4
<1>6. m \in LogSet' \/ m \in OutSet(s)'
  BY <1>5 DEF OutSet
<1>7. m \in LogSet \cup OutSet(s)
  BY <1>2, <1>3, <1>5, <1>6, CarriedBefore
<1> QED
  BY <1>3, <1>5, <1>7

(* The next commit that a reader has not followed yet is the one that ends  *)
(* its epoch, and it can follow it.                                         *)
LEMMA CanFollow ==
    ASSUME Inv, ReadInv, AuthorInv, LineInv, Following, NoLoss,
           NEW a \in Clients, authors \subseteq {a}, NEW d \in Clients, d # a, Active(d),
           NEW i \in 1..Len(log), i = cursor[d] + 1,
           log[i].message.type = "commit", epoch[d] < log[i].message.id
    PROVE  Decrypts(d, log[i].message) /\ Stages(d, log[i].message.id)
<1> DEFINE m == log[i].message
           E == epoch[d]
<1>0. TypeOK
  BY DEF Inv
<1>1. /\ Len(epochs) \in Nat /\ Epochs = 1..Len(epochs) /\ cursor[d] \in Nat /\ Len(log) \in Nat
      /\ i \in Nat
  <2>1. Len(epochs) \in Nat /\ Epochs = 1..Len(epochs) /\ Len(log) \in Nat
    BY <1>0, Types
  <2>2. cursor[d] \in Nat
    BY <1>0 DEF TypeOK
  <2> QED
    BY <2>1, <2>2
<1>2. /\ m \in MessageSet /\ Genuine(m, epochs, proposals) /\ m \in LogSet
      /\ \A j \in 1..Len(log) : log[j].message \in MessageSet /\ Genuine(log[j].message, epochs, proposals)
  BY UnderWay DEF LogSet
<1>3. KeptUp(d)
  BY DEF Following
<1>4. /\ \A j, k \in 1..Len(log) : j < k => Precedes(log[j].message, log[k].message)
      /\ \A n \in OutSet(a) : Precedes(m, n)
      /\ \A e \in Epochs : epochs[e].parent = e - 1
  BY <1>2 DEF LineInv, InOrder, OneLine
<1>5. m.id \in Epochs /\ m.at \in Epochs /\ m.at = m.id - 1
  BY <1>2, <1>4 DEF Genuine, Epochs
<1>6. m.from = a
  BY <1>2, HandshakesByAuthors DEF Handshake
<1>7. E \in Epochs /\ members[d] = epochs[E].members
  BY DEF Inv, EpochAgreement, Active
(* A message of the author that must come ahead of m has been read. *)
<1>8. ASSUME NEW n \in LogSet \cup OutSet(a), ~Precedes(m, n), n # m
      PROVE  \E j \in 1..cursor[d] : j \in 1..Len(log) /\ n = log[j].message
  <2>1. n \in LogSet
    BY <1>4, <1>8
  <2>2. PICK j \in 1..Len(log) : n = log[j].message
    BY <2>1 DEF LogSet
  <2>3. ~(i < j) /\ i # j
    BY <1>4, <1>8, <2>2
  <2>4. j \in 1..cursor[d]
    BY <1>1, <2>3
  <2> QED
    BY <2>2, <2>4
<1>9. m.at = E
  <2> SUFFICES ASSUME m.at # E PROVE FALSE
    OBVIOUS
  <2>1. E + 1 \in Epochs /\ E + 1 # 1 /\ E < m.at
    <3>1. E < m.id
      OBVIOUS
    <3> HIDE DEF E, m
    <3> QED
      BY <1>1, <1>5, <1>7, <3>1
  <2>2. epochs[E + 1].by = a
    BY <2>1 DEF AuthorInv, AuthorsKnown
  <2>3. PICK n \in LogSet \cup OutSet(a) : IsCommit(n, E + 1)
    BY <2>1, <2>2 DEF AuthorInv, CommitsCarried
  <2>4. Genuine(n, epochs, proposals)
    BY UnderWay
  <2>5. n.at = (E + 1) - 1
    BY <1>4, <2>1, <2>3, <2>4 DEF Genuine, IsCommit
  <2>6. n.at = E
    BY <1>1, <1>7, <2>5
  <2>7. ~(m.at < n.at) /\ m.type = "commit" /\ n.type = "commit"
    BY <1>1, <1>5, <1>7, <2>1, <2>3, <2>6 DEF IsCommit
  <2>8. ~Precedes(m, n)
    BY <2>7 DEF Precedes, Handshake
  <2>9. PICK j \in 1..cursor[d] : n = log[j].message
    BY <1>8, <2>6, <2>8
  <2>10. E + 1 <= E
    BY <1>3, <2>3, <2>9 DEF KeptUp, IsCommit
  <2> QED
    BY <1>1, <1>7, <2>10
<1>10. Decrypts(d, m)
  BY <1>3, <1>6, <1>9 DEF Decrypts, ValidFraming, HasSecrets, KeptUp
<1>11. /\ epochs[m.id].refs \subseteq 1..Len(proposals)
       /\ \A r \in epochs[m.id].refs : proposals[r].epoch = m.at
       /\ CanCommit(proposals, epochs[m.id].refs, members[d], epochs[m.id].by)
       /\ ApplyProposals(proposals, epochs[m.id].refs, members[d]) = epochs[m.id].members
  <2> HIDE DEF m, E
  <2>1. epochs[m.id].parent = E /\ E # 0
    BY <1>1, <1>4, <1>5, <1>7, <1>9
  <2>2. PICK x : x = epochs[m.id]
    OBVIOUS
  <2>3. /\ x.refs \subseteq 1..Len(proposals)
        /\ \A r \in x.refs : proposals[r].epoch = x.parent
        /\ x.parent # 0 =>
             /\ CanCommit(proposals, x.refs, epochs[x.parent].members, x.by)
             /\ ApplyProposals(proposals, x.refs, epochs[x.parent].members) = x.members
    BY <1>5, <2>2 DEF ReadInv, CommitsValid
  <2> QED
    BY <1>7, <1>9, <2>1, <2>2, <2>3
<1>12. ASSUME NEW r \in epochs[m.id].refs PROVE r \in Queued(store[d])
  <2>1. proposals[r].sender = a /\ proposals[r].epoch = E
    BY <1>9, <1>11 DEF AuthorInv, AuthorsKnown
  <2>2. PICK p \in LogSet \cup OutSet(a) : IsProposal(p, r)
    BY <1>5, <2>1 DEF NoLoss
  <2>3. p.type = "proposal" /\ p.id = r /\ p.at = E /\ p.from = a
    <3>1. Genuine(p, epochs, proposals)
      BY UnderWay
    <3> QED
      BY <2>1, <2>2, <3>1 DEF Genuine, IsProposal
  <2>4. ~Precedes(m, p) /\ p # m
    <3>1. ~(m.at < p.at)
      BY <1>1, <1>7, <1>9, <2>3
    <3> QED
      BY <2>3, <3>1 DEF Precedes, Handshake
  <2>5. PICK j \in 1..cursor[d] : j \in 1..Len(log) /\ p = log[j].message
    BY <1>8, <2>4
  <2>6. SeenBy(d, j)
    BY DEF ReadInv, SeenQueued
  <2>7. ASSUME NEW k \in j+1..cursor[d], IsCommit(log[k].message, E) PROVE FALSE
    <3>1. k \in 1..Len(log) /\ j < k
      BY <1>1, <2>5, <2>7
    <3> DEFINE n == log[k].message
    <3>2. Precedes(p, n) /\ Genuine(n, epochs, proposals) /\ n.type = "commit" /\ n.id = E
      BY <1>2, <1>4, <2>5, <2>7, <3>1 DEF IsCommit
    <3>3. n.at = E - 1
      BY <1>4, <1>7, <3>2 DEF Genuine
    <3> HIDE DEF n
    <3>4. p.at < n.at \/ p.at = n.at
      BY <2>3, <3>2 DEF Precedes, Handshake
    <3> QED
      BY <1>1, <1>7, <2>3, <3>3, <3>4
  <2> QED
    BY <2>3, <2>5, <2>6, <2>7 DEF SeenBy
<1> QED
  BY <1>10, <1>11, <1>12 DEF Stages

(* With one author and no loss, every reader keeps up at every step. *)
LEMMA FollowingNext ==
    Ordered /\ Inv /\ ReadInv /\ AuthorInv /\ LineInv /\ Following /\ [Next]_vars => Following'
<1> SUFFICES ASSUME Ordered, Inv, ReadInv, AuthorInv, LineInv, Following, [Next]_vars,
                    NEW a \in Clients, authors' \subseteq {a}, NoLoss',
                    NEW d \in Clients, Active(d)', d # a
             PROVE  KeptUp(d)'
  BY DEF Following
<1>0. TypeOK
  BY DEF Inv
<1>1. authors \subseteq {a} /\ NoLoss
  BY HistoryGrows, LossIsForGood
<1>2. /\ state \in [Clients -> {"None", "Operational", "Inactive"}] /\ epoch \in [Clients -> Nat]
      /\ used \in [Clients -> SUBSET MessageSet] /\ Len(log) \in Nat
  BY <1>0, Types
<1>3. cursor \in [Clients -> Nat]
  BY <1>0 DEF TypeOK
<1>4. ASSUME Active(d) PROVE KeptUp(d)
  BY <1>1, <1>4 DEF Following
<1>5. ASSUME state'[d] = state[d], epoch'[d] = epoch[d], used'[d] = used[d], cursor'[d] = cursor[d],
             \A j \in 1..Len(log) : log'[j] = log[j]
      PROVE  KeptUp(d)'
  <2>1. \A j \in 1..cursor[d] : j \in 1..Len(log)
    BY <1>2, <1>3 DEF ReadInv, CursorsInLog
  <2> QED
    BY <1>4, <1>5, <2>1 DEF KeptUp, Active
<1>6. ASSUME NEW c \in Clients, Proposes(c) \/ Sends(c) PROVE KeptUp(d)'
  BY <1>5, <1>6 DEF Proposes, Sends, Idles
<1>7. ASSUME NEW c \in Clients, Commits(c) PROVE KeptUp(d)'
  <2>1. d # c
    BY <1>7 DEF Commits
  <2> QED
    BY <1>2, <1>5, <1>7, <2>1 DEF Commits
<1>8. ASSUME NEW c \in Clients, Joins(c) PROVE KeptUp(d)'
  <2>1. UNCHANGED <<used, log, cursor>> /\ state[c] = "None"
    BY <1>8 DEF Joins
  <2>2. CASE d = c
    <3>1. cursor[d] = 0 /\ used[d] = {}
      BY <2>1, <2>2 DEF ReadInv, CursorsInLog
    <3> QED
      BY <2>1, <3>1 DEF KeptUp
  <2>3. CASE d # c
    BY <1>2, <1>5, <1>8, <2>1, <2>3 DEF Joins
  <2> QED
    BY <2>2, <2>3
<1>9. ASSUME NEW c \in Clients, Publishes(c) PROVE KeptUp(d)'
  <2>1. \A j \in 1..Len(log) : log'[j] = log[j]
    BY <1>9, OneMoreEntry
  <2> QED
    BY <1>5, <1>9, <2>1 DEF Publishes
<1>10. ASSUME Idles PROVE KeptUp(d)'
  BY <1>5, <1>10 DEF Idles
<1>11. ASSUME NEW c \in Clients, NEW i \in 1..Len(log),
              Stores(c, i) \/ Enters(c, i) \/ Consumes(c, i) \/ Skips(c, i)
       PROVE  KeptUp(d)'
  <2> DEFINE m == log[i].message
  <2>1. ReadsNext(c, i) /\ log' = log /\ i = cursor[c] + 1 /\ cursor' = [cursor EXCEPT ![c] = i]
    BY <1>11 DEF Stores, Enters, Consumes, Skips, ReadsNext
  <2>2. CASE d # c
    <3>1. /\ state'[d] = state[d] /\ epoch'[d] = epoch[d] /\ used'[d] = used[d]
      BY <1>2, <1>11, <2>2 DEF Stores, Enters, Consumes, Skips
    <3>2. cursor'[d] = cursor[d]
      BY <1>3, <2>1, <2>2
    <3> QED
      BY <1>5, <2>1, <3>1, <3>2
  <2>3. CASE d = c
    <3>1. cursor'[d] = i /\ \A j \in 1..i : j = i \/ j \in 1..cursor[d]
      BY <1>3, <2>1, <2>3
    <3>2. Active(d)
      BY <1>2, <1>11, <2>3 DEF Stores, Enters, Consumes, Skips, Active, Decrypts
    <3>3. KeptUp(d)
      BY <1>4, <3>2
    <3>4. ASSUME m.type = "commit", epoch[d] < m.id PROVE Decrypts(d, m) /\ Stages(d, m.id)
      BY <1>1, <2>1, <2>3, <3>2, <3>4, CanFollow
    <3>5. m \in MessageSet
      BY UnderWay DEF LogSet
    <3>6. ASSUME epoch'[d] = epoch[d], m.type = "commit" => m.id <= epoch[d],
                 \A n \in used'[d] : n \in used[d] \/ n.type # "commit"
          PROVE  KeptUp(d)'
      BY <2>1, <3>1, <3>3, <3>6 DEF KeptUp
    <3>7. CASE Stores(c, i)
      <4>1. epoch' = epoch /\ used' = [used EXCEPT ![c] = @ \cup {m}] /\ m.type = "proposal"
        BY <3>7 DEF Stores
      <4> QED
        BY <1>2, <2>3, <3>6, <4>1
    <3>8. CASE Enters(c, i)
      <4>1. /\ m.type = "commit" /\ epoch' = [epoch EXCEPT ![c] = m.id] /\ Decrypts(c, m)
        BY <3>8 DEF Enters
      <4>2. used'[d] = {} /\ epoch'[d] = m.id
        BY <1>2, <2>3, <3>8, <4>1 DEF Enters, Active
      <4>3. epoch[d] < m.id /\ m.id \in Nat /\ epoch[d] \in Nat
        <5>1. Genuine(m, epochs, proposals) /\ m.at = epoch[d]
          BY <2>3, <4>1, UnderWay DEF LogSet, Decrypts, HasSecrets
        <5>2. epochs[m.id].parent < m.id /\ epochs[m.id].parent = m.at
          BY <4>1, <5>1 DEF Genuine, Inv, ParentsFirst, Epochs
        <5> QED
          BY <1>2, <3>5, <5>1, <5>2 DEF MessageSet
      <4>4. \A j \in 1..cursor[d] : log[j].message.type = "commit" => log[j].message.id <= m.id
        <5>1. \A j \in 1..cursor[d] : log[j].message.id \in Nat
          <6>1. \A j \in 1..cursor[d] : j \in 1..Len(log)
            BY <1>2, <1>3 DEF ReadInv, CursorsInLog
          <6>2. \A j \in 1..Len(log) : log[j].message \in MessageSet
            BY UnderWay DEF LogSet
          <6> QED
            BY <6>1, <6>2 DEF MessageSet
        <5> QED
          BY <3>3, <4>3, <5>1 DEF KeptUp
      <4> QED
        BY <2>1, <3>1, <4>2, <4>3, <4>4 DEF KeptUp
    <3>9. CASE Consumes(c, i)
      <4>1. epoch' = epoch /\ used' = [used EXCEPT ![c] = @ \cup {m}] /\ Decrypts(c, m)
        BY <3>9 DEF Consumes
      <4>2. m.type # "commit"
        <5> SUFFICES ASSUME m.type = "commit" PROVE FALSE
          OBVIOUS
        <5>1. ~Stages(d, m.id)
          BY <2>3, <3>9 DEF Consumes
        <5>2. Genuine(m, epochs, proposals) /\ m.at = epoch[d]
          BY <2>3, <4>1, UnderWay DEF LogSet, Decrypts, HasSecrets
        <5>3. epochs[m.id].parent < m.id /\ epochs[m.id].parent = m.at
          BY <5>2 DEF Genuine, Inv, ParentsFirst, Epochs
        <5> QED
          BY <3>4, <5>1, <5>2, <5>3
      <4> QED
        BY <1>2, <2>3, <3>6, <4>1, <4>2
    <3>10. CASE Skips(c, i)
      <4>1. epoch' = epoch /\ used' = used /\ ~Decrypts(d, m)
        BY <2>3, <3>10 DEF Skips
      <4>2. m.type = "commit" => m.id <= epoch[d]
        <5>1. m.id \in Nat /\ epoch[d] \in Nat
          BY <1>2, <3>5 DEF MessageSet
        <5>2. m.type = "commit" => ~(epoch[d] < m.id)
          BY <3>4, <4>1
        <5> HIDE DEF m
        <5> QED
          BY <5>1, <5>2
      <4> QED
        BY <3>6, <4>1, <4>2
    <3> QED
      BY <1>11, <3>7, <3>8, <3>9, <3>10
  <2> QED
    BY <2>2, <2>3
<1> QED
  BY <1>6, <1>7, <1>8, <1>9, <1>10, <1>11, StepKinds

(* At the start there is one epoch, and nothing is under way. *)
LEMMA OrderInit == Init => AuthorInv /\ LineInv /\ Following
<1> SUFFICES ASSUME Init PROVE AuthorInv /\ LineInv /\ Following
  OBVIOUS
<1>1. /\ proposals = <<>> /\ log = <<>> /\ outbox = [c \in Clients |-> <<>>] /\ authors = {}
      /\ cursor = [c \in Clients |-> 0] /\ used = [c \in Clients |-> {}]
  BY DEF Init
<1>2. 1..Len(proposals) = {} /\ 1..Len(log) = {} /\ \A c \in Clients : 1..Len(outbox[c]) = {}
  BY <1>1, EmptySeq
<1>3. LogSet = {} /\ \A c \in Clients : OutSet(c) = {}
  BY <1>2 DEF LogSet, OutSet
<1>4. Epochs = {1} /\ Len(epochs) = 1 /\ epochs[1].parent = 0
  BY DEF Init, Epochs
<1>5. AuthorInv
  BY <1>1, <1>2, <1>3, <1>4 DEF AuthorInv, AuthorsKnown, MessagesSigned, CommitsCarried
<1>6. LineInv
  BY <1>1, <1>2, <1>3, <1>4 DEF LineInv, OneLine, InOrder
<1>7. \A d \in Clients : KeptUp(d)
  BY <1>1 DEF KeptUp
<1> QED
  BY <1>5, <1>6, <1>7 DEF Following

(* With one committer nobody is left behind: a member that has read a log   *)
(* with all the committer made is in the committer's epoch, with its view   *)
(* of the members, and holds no proposal the committer does not hold.       *)
THEOREM OneCommitterSuffices == Spec => []OneCommitterConverges
<1>1. CASE ~Ordered
  <2>1. OneCommitterConverges
    BY <1>1 DEF OneCommitterConverges
  <2> QED
    BY <2>1, PTL
<1>2. CASE Ordered
  <2> DEFINE I == Inv /\ ReadInv /\ AuthorInv /\ LineInv /\ Following
  <2>1. Init => I
    BY InvInit, ReadInit, OrderInit
  <2>2. I /\ [Next]_vars => I'
    BY <1>2, InvNext, ReadNext, AuthorNext, LineNext, FollowingNext
  <2>3. I => OneCommitterConverges
    <3> SUFFICES ASSUME Inv, ReadInv, AuthorInv, LineInv, Following,
                        NEW a \in Clients, authors = {a}, Active(a), outbox[a] = <<>>,
                        \A e \in Epochs : \A r \in epochs[e].refs : \E i \in 1..Len(log) :
                           log[i].message.type = "proposal" /\ log[i].message.id = r,
                        NEW d \in Clients, Active(d), cursor[d] = Len(log)
                 PROVE  /\ epoch[d] = epoch[a] /\ members[d] = members[a]
                        /\ Queued(store[d]) \subseteq Queued(store[a])
      BY DEF OneCommitterConverges
    <3>1. Len(epochs) \in Nat /\ Epochs = 1..Len(epochs)
      BY Types DEF Inv
    <3>2. epoch[a] = Len(epochs) /\ epoch[a] \in Epochs /\ epoch[d] \in Epochs
      BY AtTheEnd DEF Inv, EpochAgreement, Active
    <3>3. NoLoss
      BY DEF NoLoss, LogSet, IsProposal
    <3>4. epoch[d] = epoch[a]
      <4> SUFFICES ASSUME d # a, epoch[d] # Len(epochs) PROVE FALSE
        BY <3>2
      <4>1. KeptUp(d)
        BY <3>3 DEF Following
      <4>2. Len(epochs) \in Epochs /\ Len(epochs) # 1
        BY <3>1, <3>2
      <4>3. epochs[Len(epochs)].by = a
        BY <4>2 DEF AuthorInv, AuthorsKnown
      <4>4. OutSet(a) = {}
        BY EmptySeq DEF OutSet
      <4>5. PICK i \in 1..Len(log) : IsCommit(log[i].message, Len(epochs))
        BY <4>2, <4>3, <4>4 DEF AuthorInv, CommitsCarried, LogSet
      <4>6. Len(epochs) <= epoch[d]
        BY <4>1, <4>5 DEF KeptUp, IsCommit
      <4> QED
        BY <3>1, <3>2, <4>6
    <3>5. members[d] = members[a]
      BY <3>4 DEF Inv, EpochAgreement, Active
    <3>6. Queued(store[d]) \subseteq Queued(store[a])
      <4> SUFFICES ASSUME NEW r \in Queued(store[d]) PROVE r \in Queued(store[a])
        OBVIOUS
      <4>1. r \in 1..Len(proposals) /\ proposals[r].epoch = epoch[a]
        BY <3>4 DEF Inv, StoreKnown, StoreIsCurrent
      <4>2. proposals[r].sender = a
        BY <4>1 DEF AuthorInv, AuthorsKnown
      <4> QED
        BY <4>1, <4>2 DEF ReadInv, OwnQueued
    <3> QED
      BY <3>4, <3>5, <3>6
  <2> HIDE DEF I
  <2> QED
    BY <2>1, <2>2, <2>3, PTL DEF Spec
<1> QED
  BY <1>1, <1>2
-----------------------------------------------------------------------------
(* Members that only read agree.                                            *)

View(e, M, q, u) == [epoch |-> e, members |-> M, store |-> q, used |-> u]

(* What a member that has made no proposal and no commit sees. *)
ViewOf(c) == View(epoch[c], members[c], store[c], {m \in used[c] : Handshake(m)})

(* What the next entry of the log makes of the view of such a member, as    *)
(* long as it is not removed.                                               *)
Fits(v, x, props) ==
    /\ x.refs \subseteq Queued(v.store)
    /\ CanCommit(props, x.refs, v.members, x.by)
    /\ ApplyProposals(props, x.refs, v.members) = x.members

NextView(v, m, eps, props) ==
    IF ~Handshake(m) \/ m.at # v.epoch \/ m \in v.used THEN v
    ELSE IF m.type = "proposal" THEN View(v.epoch, v.members, Append(v.store, m.id), v.used \cup {m})
    ELSE IF Fits(v, eps[m.id], props) THEN View(m.id, eps[m.id].members, <<>>, {})
    ELSE View(v.epoch, v.members, v.store, v.used \cup {m})

(* V[n] is the view of a reader after n entries: its epochs are on one line, *)
(* and every member that only reads has the one for the entries it has read. *)
Views(V) ==
    /\ \A n \in 1..Len(log) : V[n] = NextView(V[n-1], log[n].message, epochs, proposals)
    /\ \A n \in 0..Len(log) : V[n].epoch \in Epochs
    /\ \A i, j \in 0..Len(log) : i <= j => V[i].epoch \in epochs[V[j].epoch].line
    /\ \A b \in Founders \ authors : Active(b) => V[cursor[b]] = ViewOf(b)

(* The line of an epoch is that of its parent and the epoch itself. *)
Lines ==
    \A e \in Epochs :
        /\ e \in epochs[e].line
        /\ epochs[e].parent \in Epochs => epochs[epochs[e].parent].line \subseteq epochs[e].line

ViewInv ==
    /\ \A b \in Founders : state[b] # "None"
    /\ Lines
    /\ \E V : Views(V)

(* What an entry makes of a view does not depend on later proposals and     *)
(* commits.                                                                 *)
LEMMA NextViewStays ==
    ASSUME Inv, ReadInv, epochs' \in Seq(EpochSet), Extended(epochs, epochs'),
           proposals' \in Seq(Proposal), Extended(proposals, proposals'),
           NEW m, Genuine(m, epochs, proposals), NEW v
    PROVE  NextView(v, m, epochs', proposals') = NextView(v, m, epochs, proposals)
<1>1. CASE m.type = "commit"
  <2>1. m.id \in Epochs /\ epochs'[m.id] = epochs[m.id]
    BY <1>1, GrowthKeeps DEF Genuine, Epochs
  <2>2. epochs[m.id].refs \in SUBSET (1..Len(proposals))
    BY <2>1 DEF ReadInv, CommitsValid
  <2> DEFINE x == epochs[m.id]
             ps == proposals
             qs == proposals'
  <2>3. Extended(ps, qs) /\ x.refs \in SUBSET (1..Len(ps))
    BY <2>2
  <2> HIDE DEF x, ps, qs
  <2>4. /\ CanCommit(qs, x.refs, v.members, x.by) <=> CanCommit(ps, x.refs, v.members, x.by)
        /\ ApplyProposals(qs, x.refs, v.members) = ApplyProposals(ps, x.refs, v.members)
    BY <2>3, LaterProposals, SMTT(30)
  <2>5. Fits(v, x, qs) <=> Fits(v, x, ps)
    BY <2>4 DEF Fits
  <2>6. Fits(v, epochs'[m.id], proposals') <=> Fits(v, epochs[m.id], proposals)
    BY <2>1, <2>5 DEF x, ps, qs
  <2> QED
    BY <2>1, <2>6 DEF NextView
<1>2. CASE m.type # "commit"
  BY <1>2 DEF NextView, Handshake
<1> QED
  BY <1>1, <1>2

(* An entry leaves a reader in its epoch, or takes it to the next one on    *)
(* the line.                                                                *)
LEMMA NextViewAdvances ==
    ASSUME Inv, Lines, NEW m, Genuine(m, epochs, proposals), NEW v, v.epoch \in Epochs
    PROVE  LET w == NextView(v, m, epochs, proposals) IN
           w.epoch \in Epochs /\ epochs[v.epoch].line \subseteq epochs[w.epoch].line
<1> DEFINE w == NextView(v, m, epochs, proposals)
<1>0. w.epoch # v.epoch => m.type = "commit" /\ m.at = v.epoch /\ w.epoch = m.id
  BY DEF NextView, View, Handshake
<1> SUFFICES w.epoch \in Epochs /\ epochs[v.epoch].line \subseteq epochs[w.epoch].line
  OBVIOUS
<1> HIDE DEF w
<1>1. CASE w.epoch = v.epoch
  BY <1>1
<1>2. CASE w.epoch # v.epoch
  <2>1. m.type = "commit" /\ m.at = v.epoch /\ w.epoch = m.id
    BY <1>0, <1>2
  <2>2. m.id \in Epochs /\ epochs[m.id].parent = v.epoch
    BY <2>1 DEF Genuine, Epochs
  <2>3. epochs[v.epoch].line \subseteq epochs[m.id].line
    BY <2>2 DEF Lines
  <2> QED
    BY <2>1, <2>2, <2>3
<1> QED
  BY <1>1, <1>2

(* While the log stays, so do the views, for more proposals and epochs. *)
LEMMA ViewsStay ==
    ASSUME Inv, ReadInv, NEW V, Views(V), epochs' \in Seq(EpochSet), Extended(epochs, epochs'),
           proposals' \in Seq(Proposal), Extended(proposals, proposals'), log' = log,
           \A b \in Founders \ authors' : Active(b)' => V[cursor'[b]] = ViewOf(b)'
    PROVE  Views(V)'
<1>1. Epochs \subseteq Epochs' /\ \A e \in Epochs : epochs'[e] = epochs[e]
  BY GrowthKeeps
<1>2. \A n \in 1..Len(log) : V[n] = NextView(V[n-1], log[n].message, epochs', proposals')
  <2> SUFFICES ASSUME NEW n \in 1..Len(log)
               PROVE  V[n] = NextView(V[n-1], log[n].message, epochs', proposals')
    OBVIOUS
  <2>1. Genuine(log[n].message, epochs, proposals)
    BY DEF Inv, MessagesGenuine
  <2> DEFINE v == V[n-1]
             m == log[n].message
  <2>2. V[n] = NextView(v, m, epochs, proposals)
    BY DEF Views
  <2> HIDE DEF v, m
  <2>3. NextView(v, m, epochs', proposals') = NextView(v, m, epochs, proposals)
    BY <2>1, NextViewStays DEF m
  <2> QED
    BY <2>2, <2>3 DEF v, m
<1>3. \A n \in 0..Len(log) : V[n].epoch \in Epochs
  BY DEF Views
<1>4. \A i, j \in 0..Len(log) : i <= j => V[i].epoch \in epochs'[V[j].epoch].line
  BY <1>1, <1>3 DEF Views
<1> QED
  BY <1>1, <1>2, <1>3, <1>4 DEF Views

(* Publishing adds the view after one more entry. *)
LEMMA ViewsPublish ==
    ASSUME Inv, ReadInv, Lines, NEW V, Views(V), NEW c \in Clients, Publishes(c)
    PROVE  \E W : Views(W)'
<1> DEFINE L == Len(log)
           h == outbox[c][1]
           next == NextView(V[L], h, epochs, proposals)
<1>0. TypeOK
  BY DEF Inv
<1>1. /\ L \in Nat /\ Len(log') = L + 1 /\ log'[L + 1].message = h
      /\ \A i \in 1..L : log'[i] = log[i]
      /\ 1 \in 1..Len(outbox[c])
  BY OneMoreEntry
<1>2. UNCHANGED <<state, epoch, members, store, used, proposals, epochs, cursor, authors>>
  BY DEF Publishes
<1>3. Genuine(h, epochs, proposals)
  BY <1>1 DEF Inv, MessagesGenuine
<1>4. V[L].epoch \in Epochs
  BY <1>1 DEF Views
<1> DEFINE v == V[L]
<1>5. next.epoch \in Epochs /\ epochs[v.epoch].line \subseteq epochs[next.epoch].line
  <2> HIDE DEF v, h
  <2> QED
    BY <1>3, <1>4, NextViewAdvances DEF v
<1>6. next.epoch \in epochs[next.epoch].line
  BY <1>5 DEF Lines
<1> HIDE DEF h, next, L
<1>7. PICK W : (\A n \in 0..L : W[n] = V[n]) /\ W[L + 1] = next
  <2> DEFINE U == [n \in 0..L+1 |-> IF n <= L THEN V[n] ELSE next]
  <2>1. (\A n \in 0..L : U[n] = V[n]) /\ U[L + 1] = next
    BY <1>1
  <2> HIDE DEF U
  <2> QED
    BY <2>1
<1>8. /\ \A n \in 0..L+1 : n \in 0..L \/ n = L + 1
      /\ \A n \in 1..L+1 : n \in 1..L \/ n = L + 1
      /\ \A n \in 1..L : n - 1 \in 0..L /\ n \in 0..L
      /\ L \in 0..L /\ (L + 1) - 1 = L /\ \A i, j \in 0..L+1 : i <= j /\ i = L + 1 => j = L + 1
      /\ \A i \in 0..L : i <= L
  BY <1>1
<1> HIDE DEF v
<1>9. ASSUME NEW n \in 1..L+1 PROVE W[n] = NextView(W[n-1], log'[n].message, epochs, proposals)
  <2>1. CASE n \in 1..L
    BY <1>1, <1>7, <1>8, <2>1 DEF Views, L
  <2>2. CASE n = L + 1
    BY <1>1, <1>7, <1>8, <2>2 DEF next
  <2> QED
    BY <1>8, <2>1, <2>2
<1>10. \A n \in 0..L+1 : W[n].epoch \in Epochs
  BY <1>5, <1>7, <1>8 DEF Views, L
<1>11. ASSUME NEW i \in 0..L+1, NEW j \in 0..L+1, i <= j
       PROVE  W[i].epoch \in epochs[W[j].epoch].line
  <2>1. CASE i \in 0..L /\ j \in 0..L
    BY <1>7, <1>11, <2>1 DEF Views, L
  <2>2. CASE i \in 0..L /\ j = L + 1
    <3>1. V[i].epoch \in epochs[v.epoch].line
      BY <1>8, <2>2 DEF Views, L, v
    <3> QED
      BY <1>5, <1>7, <2>2, <3>1
  <2>3. CASE i = L + 1
    BY <1>6, <1>7, <1>8, <1>11, <2>3
  <2> QED
    BY <1>8, <2>1, <2>2, <2>3
<1>12. ASSUME NEW b \in Founders \ authors, Active(b) PROVE W[cursor[b]] = ViewOf(b)
  <2>1. cursor[b] \in 0..L
    <3>1. b \in Clients /\ cursor[b] \in Nat
      BY <1>0, FoundersAreClients DEF TypeOK
    <3>2. cursor[b] <= L
      BY <3>1 DEF ReadInv, CursorsInLog, L
    <3> QED
      BY <1>1, <3>1, <3>2
  <2> QED
    BY <1>7, <1>12, <2>1 DEF Views
<1>13. Views(W)'
  <2>1. \A b \in Founders \ authors' : Active(b)' => W[cursor'[b]] = ViewOf(b)'
    BY <1>2, <1>12 DEF Active, ViewOf
  <2>2. Epochs' = Epochs
    BY <1>2 DEF Epochs
  <2> QED
    BY <1>1, <1>2, <1>9, <1>10, <1>11, <2>1, <2>2 DEF Views
<1> QED
  BY <1>13

(* A member that only reads has the next view when it reads the next entry, *)
(* unless it is removed by it.                                              *)
LEMMA ViewsRead ==
    ASSUME Inv, AuthorInv, NEW V, Views(V), NEW c \in Founders \ authors, NEW i \in 1..Len(log),
           Stores(c, i) \/ Enters(c, i) \/ Consumes(c, i) \/ Skips(c, i),
           Active(c)'
    PROVE  V[cursor'[c]] = ViewOf(c)'
<1> DEFINE m == log[i].message
           v == V[i-1]
<1>0. TypeOK /\ c \in Clients
  BY FoundersAreClients DEF Inv
<1>1. /\ state \in [Clients -> {"None", "Operational", "Inactive"}] /\ epoch \in [Clients -> Nat]
      /\ members \in [Clients -> SUBSET Clients] /\ store \in [Clients -> Seq(Nat)]
      /\ used \in [Clients -> SUBSET MessageSet]
  BY <1>0, Types
<1>2. cursor \in [Clients -> Nat]
  BY <1>0 DEF TypeOK
<1>3. ReadsNext(c, i)
  BY DEF Stores, Enters, Consumes, Skips
<1>4. cursor'[c] = i /\ i - 1 = cursor[c]
  BY <1>0, <1>2, <1>3 DEF ReadsNext
<1>5. Active(c)
  BY <1>0, <1>1 DEF Stores, Enters, Consumes, Skips, Active, Decrypts
<1>6. v = ViewOf(c) /\ V[i] = NextView(v, m, epochs, proposals)
  BY <1>4, <1>5 DEF Views
<1>7. /\ v.epoch = epoch[c] /\ v.members = members[c] /\ v.store = store[c]
      /\ v.used = {n \in used[c] : Handshake(n)}
  BY <1>6 DEF ViewOf, View
<1>8. m \in LogSet /\ (m.from # c \/ ~Handshake(m))
  <2>1. m \in LogSet
    BY DEF LogSet
  <2> QED
    BY <2>1, HandshakesByAuthors
<1> HIDE DEF v
<1>9. CASE Stores(c, i)
  <2>1. /\ Decrypts(c, m) /\ m.type = "proposal" /\ UNCHANGED <<epoch, members>>
        /\ store'[c] = Append(store[c], m.id) /\ used'[c] = used[c] \cup {m}
    BY <1>0, <1>1, <1>9 DEF Stores
  <2> HIDE DEF m
  <2>2. Handshake(m) /\ m.at = v.epoch /\ m \notin v.used
    BY <1>7, <2>1 DEF Decrypts, HasSecrets, Handshake
  <2>3. V[i] = View(v.epoch, v.members, Append(v.store, m.id), v.used \cup {m})
    BY <1>6, <2>1, <2>2 DEF NextView
  <2>4. {n \in used'[c] : Handshake(n)} = v.used \cup {m}
    BY <1>7, <2>1, <2>2
  <2> QED
    BY <1>4, <1>7, <2>1, <2>3, <2>4 DEF ViewOf
<1>10. CASE Enters(c, i)
  <2>1. /\ Decrypts(c, m) /\ m.type = "commit" /\ Stages(c, m.id)
        /\ epoch'[c] = m.id /\ store'[c] = <<>> /\ used'[c] = {}
        /\ members'[c] = ApplyProposals(proposals, epochs[m.id].refs, members[c])
        /\ c \notin Removed(proposals, epochs[m.id].refs)
    BY <1>0, <1>1, <1>10 DEF Enters, Active
  <2> HIDE DEF m
  <2>2. Handshake(m) /\ m.at = v.epoch /\ m \notin v.used
    BY <1>7, <2>1 DEF Decrypts, HasSecrets, Handshake
  <2>3. Fits(v, epochs[m.id], proposals) /\ members'[c] = epochs[m.id].members
    BY <1>7, <2>1 DEF Stages, Fits
  <2>4. V[i] = View(m.id, epochs[m.id].members, <<>>, {})
    BY <1>6, <2>1, <2>2, <2>3 DEF NextView
  <2>5. {n \in used'[c] : Handshake(n)} = {}
    BY <2>1
  <2> QED
    BY <1>4, <2>1, <2>3, <2>4, <2>5 DEF ViewOf
<1>11. CASE Consumes(c, i)
  <2>1. /\ Decrypts(c, m) /\ UNCHANGED <<epoch, members, store>> /\ used'[c] = used[c] \cup {m}
        /\ m.type = "application" \/ (m.type = "commit" /\ ~Stages(c, m.id))
    BY <1>0, <1>1, <1>11 DEF Consumes
  <2> HIDE DEF m
  <2>2. CASE m.type = "application"
    <3>1. V[i] = v
      BY <1>6, <2>2 DEF NextView, Handshake
    <3>2. {n \in used'[c] : Handshake(n)} = {n \in used[c] : Handshake(n)}
      BY <2>1, <2>2 DEF Handshake
    <3> QED
      BY <1>4, <1>6, <2>1, <3>1, <3>2 DEF ViewOf
  <2>3. CASE m.type = "commit" /\ ~Stages(c, m.id)
    <3>1. Handshake(m) /\ m.at = v.epoch /\ m \notin v.used
      BY <1>7, <2>1, <2>3 DEF Decrypts, HasSecrets, Handshake
    <3>2. ~Fits(v, epochs[m.id], proposals)
      BY <1>7, <2>3 DEF Stages, Fits
    <3>3. V[i] = View(v.epoch, v.members, v.store, v.used \cup {m})
      BY <1>6, <2>3, <3>1, <3>2 DEF NextView
    <3>4. {n \in used'[c] : Handshake(n)} = v.used \cup {m}
      BY <1>7, <2>1, <3>1
    <3> QED
      BY <1>4, <1>7, <2>1, <3>3, <3>4 DEF ViewOf
  <2> QED
    BY <2>1, <2>2, <2>3
<1>12. CASE Skips(c, i)
  <2>1. ~Decrypts(c, m) /\ UNCHANGED <<epoch, members, store, used>>
    BY <1>12 DEF Skips
  <2> HIDE DEF m
  <2>2. ~Handshake(m) \/ m.at # v.epoch \/ m \in v.used
    BY <1>5, <1>7, <1>8, <2>1 DEF Decrypts, ValidFraming, HasSecrets, Handshake
  <2>3. V[i] = v
    BY <1>6, <2>2 DEF NextView
  <2> QED
    BY <1>4, <1>6, <2>1, <2>3 DEF ViewOf
<1> QED
  BY <1>9, <1>10, <1>11, <1>12

(* Every step keeps the views. *)
LEMMA ViewNext == Ordered /\ Inv /\ ReadInv /\ AuthorInv /\ ViewInv /\ [Next]_vars => ViewInv'
<1> SUFFICES ASSUME Ordered, Inv, ReadInv, AuthorInv, ViewInv, [Next]_vars PROVE ViewInv'
  OBVIOUS
<1>0. TypeOK
  BY DEF Inv
<1>1. /\ state \in [Clients -> {"None", "Operational", "Inactive"}] /\ epoch \in [Clients -> Nat]
      /\ members \in [Clients -> SUBSET Clients] /\ store \in [Clients -> Seq(Nat)]
      /\ used \in [Clients -> SUBSET MessageSet]
      /\ Len(epochs) \in Nat /\ Epochs = 1..Len(epochs)
  BY <1>0, Types
<1>2. cursor \in [Clients -> Nat] /\ \A b \in Founders : b \in Clients
  BY <1>0, FoundersAreClients DEF TypeOK
<1>3. /\ epochs' \in Seq(EpochSet) /\ Extended(epochs, epochs')
      /\ proposals' \in Seq(Proposal) /\ Extended(proposals, proposals')
      /\ authors \subseteq authors'
  BY HistoryGrows
<1>4. PICK V : Views(V)
  BY DEF ViewInv
<1>5. \A b \in Founders : state[b] # "None"
  BY DEF ViewInv
(* A member is as it was. *)
<1>6. ASSUME NEW b \in Founders \ authors, state'[b] = state[b], epoch'[b] = epoch[b],
             members'[b] = members[b], store'[b] = store[b], used'[b] = used[b], cursor'[b] = cursor[b]
      PROVE  Active(b)' => V[cursor'[b]] = ViewOf(b)'
  <2>1. Active(b) => V[cursor[b]] = ViewOf(b)
    BY <1>4 DEF Views
  <2> QED
    BY <1>6, <2>1 DEF Active, ViewOf
<1>7. ASSUME epochs' = epochs PROVE Lines'
  BY <1>7 DEF ViewInv, Lines, Epochs
<1>8. ASSUME NEW c \in Clients, Proposes(c) PROVE ViewInv'
  <2>1. /\ authors' = authors \cup {c} /\ log' = log /\ store' = [store EXCEPT ![c] = Append(@, Len(proposals) + 1)]
        /\ UNCHANGED <<state, epoch, members, used, epochs, cursor>>
    BY <1>8 DEF Proposes
  <2>2. \A b \in Founders \ authors' : Active(b)' => V[cursor'[b]] = ViewOf(b)'
    <3> SUFFICES ASSUME NEW b \in Founders \ authors' PROVE Active(b)' => V[cursor'[b]] = ViewOf(b)'
      OBVIOUS
    <3>1. b \in Founders \ authors /\ b # c /\ b \in Clients
      BY <1>2, <2>1
    <3>2. store'[b] = store[b]
      BY <1>1, <2>1, <3>1
    <3> QED
      BY <1>6, <2>1, <3>1, <3>2
  <2>3. Views(V)'
    BY <1>3, <1>4, <2>1, <2>2, ViewsStay
  <2> QED
    BY <1>5, <1>7, <2>1, <2>3 DEF ViewInv
<1>9. ASSUME NEW c \in Clients, Commits(c) PROVE ViewInv'
  <2>1. /\ authors' = authors \cup {c} /\ log' = log /\ UNCHANGED <<state, cursor>>
        /\ store' = [store EXCEPT ![c] = <<>>] /\ used' = [used EXCEPT ![c] = {}]
        /\ epoch' = [epoch EXCEPT ![c] = Len(epochs) + 1]
        /\ \A d \in Clients : d # c => members'[d] = members[d]
    BY <1>9 DEF Commits
  <2>2. \A b \in Founders \ authors' : Active(b)' => V[cursor'[b]] = ViewOf(b)'
    <3> SUFFICES ASSUME NEW b \in Founders \ authors' PROVE Active(b)' => V[cursor'[b]] = ViewOf(b)'
      OBVIOUS
    <3>1. b \in Founders \ authors /\ b # c /\ b \in Clients
      BY <1>2, <2>1
    <3>2. store'[b] = store[b] /\ used'[b] = used[b] /\ epoch'[b] = epoch[b] /\ members'[b] = members[b]
      BY <1>1, <2>1, <3>1
    <3> QED
      BY <1>6, <2>1, <3>1, <3>2
  <2>3. Views(V)'
    BY <1>3, <1>4, <2>1, <2>2, ViewsStay
  <2>4. Lines'
    <3> DEFINE e == Len(epochs) + 1
    <3>1. /\ epoch[c] \in Epochs /\ \A i \in Epochs' : i \in Epochs \/ i = e
          /\ epochs'[e].parent = epoch[c] /\ epochs'[e].line = epochs[epoch[c]].line \cup {e}
      BY <1>9, CommitGrowth
    <3>2. \A i \in Epochs : epochs'[i] = epochs[i]
      BY <1>3, GrowthKeeps
    <3>3. \A i \in Epochs : epochs[i].parent < i /\ epochs[i].parent \in Nat
      <4>1. \A i \in Epochs : epochs[i] \in EpochSet
        BY <1>0, Types, ElementOfSeq
      <4> QED
        BY <4>1 DEF Inv, ParentsFirst, EpochSet
    <3> SUFFICES ASSUME NEW i \in Epochs'
                 PROVE  /\ i \in epochs'[i].line
                        /\ epochs'[i].parent \in Epochs' =>
                             epochs'[epochs'[i].parent].line \subseteq epochs'[i].line
      BY DEF Lines
    <3>4. CASE i \in Epochs
      <4>1. epochs[i].parent \in Epochs' => epochs[i].parent \in Epochs
        <5>1. epochs[i].parent # e
          BY <1>1, <3>3, <3>4
        <5> QED
          BY <3>1, <5>1
      <4> QED
        BY <3>2, <3>4, <4>1 DEF ViewInv, Lines
    <3>5. CASE i = e
      BY <3>1, <3>2, <3>5
    <3> QED
      BY <3>1, <3>4, <3>5
  <2> QED
    BY <1>5, <2>1, <2>3, <2>4 DEF ViewInv
<1>10. ASSUME NEW c \in Clients, Joins(c) PROVE ViewInv'
  <2>1. /\ state[c] = "None" /\ state' = [state EXCEPT ![c] = "Operational"]
        /\ UNCHANGED <<store, used, proposals, epochs, log, cursor, authors>>
    BY <1>10 DEF Joins
  <2>2. \A b \in Founders : /\ state'[b] = state[b] /\ epoch'[b] = epoch[b] /\ members'[b] = members[b]
    <3>1. \A b \in Founders : b \in Clients /\ b # c
      BY <1>2, <1>5, <2>1
    <3> QED
      BY <1>1, <1>10, <2>1, <3>1 DEF Joins
  <2>3. \A b \in Founders \ authors' : Active(b)' => V[cursor'[b]] = ViewOf(b)'
    BY <1>6, <2>1, <2>2
  <2>4. Views(V)'
    BY <1>3, <1>4, <2>1, <2>3, ViewsStay
  <2> QED
    BY <1>5, <1>7, <2>1, <2>2, <2>4 DEF ViewInv
<1>11. ASSUME Idles PROVE ViewInv'
  <2>1. UNCHANGED <<state, epoch, members, store, used, proposals, epochs, log, cursor, authors>>
    BY <1>11 DEF Idles
  <2>2. \A b \in Founders \ authors' : Active(b)' => V[cursor'[b]] = ViewOf(b)'
    BY <1>6, <2>1
  <2>3. Views(V)'
    BY <1>3, <1>4, <2>1, <2>2, ViewsStay
  <2> QED
    BY <1>5, <1>7, <2>1, <2>3 DEF ViewInv
<1>12. ASSUME NEW c \in Clients, Publishes(c) PROVE ViewInv'
  <2>1. state' = state /\ epochs' = epochs
    BY <1>12 DEF Publishes
  <2>2. \E W : Views(W)'
    BY <1>4, <1>12, ViewsPublish DEF ViewInv
  <2> QED
    BY <1>5, <1>7, <2>1, <2>2 DEF ViewInv
<1>13. ASSUME NEW c \in Clients, NEW i \in 1..Len(log),
              Stores(c, i) \/ Enters(c, i) \/ Consumes(c, i) \/ Skips(c, i)
       PROVE  ViewInv'
  <2>1. UNCHANGED <<proposals, epochs, log, authors>> /\ cursor' = [cursor EXCEPT ![c] = i]
    BY <1>13 DEF Stores, Enters, Consumes, Skips, ReadsNext
  <2>2. \A b \in Clients : b # c => /\ state'[b] = state[b] /\ epoch'[b] = epoch[b] /\ members'[b] = members[b]
                                    /\ store'[b] = store[b] /\ used'[b] = used[b]
    BY <1>1, <1>13 DEF Stores, Enters, Consumes, Skips
  <2>3. \A b \in Clients : b # c => cursor'[b] = cursor[b]
    BY <1>2, <2>1
  <2>4. \A b \in Founders : state'[b] # "None"
    <3>1. \A b \in Clients : state[b] # "None" => state'[b] # "None"
      BY <1>1, <1>13 DEF Stores, Enters, Consumes, Skips
    <3> QED
      BY <1>2, <1>5, <3>1
  <2>5. \A b \in Founders \ authors' : Active(b)' => V[cursor'[b]] = ViewOf(b)'
    <3> SUFFICES ASSUME NEW b \in Founders \ authors, Active(b)' PROVE V[cursor'[b]] = ViewOf(b)'
      BY <2>1
    <3>1. CASE b = c
      BY <1>4, <1>13, <3>1, ViewsRead
    <3>2. CASE b # c
      BY <1>2, <1>6, <2>2, <2>3, <3>2
    <3> QED
      BY <3>1, <3>2
  <2>6. Views(V)'
    BY <1>3, <1>4, <2>1, <2>5, ViewsStay
  <2> QED
    BY <1>7, <2>1, <2>4, <2>6 DEF ViewInv
<1> QED
  BY <1>8, <1>9, <1>10, <1>11, <1>12, <1>13, StepKinds DEF Sends

(* The founders start with the same view. *)
LEMMA ViewInit == Init => ViewInv
<1> SUFFICES ASSUME Init PROVE ViewInv
  OBVIOUS
<1>1. /\ log = <<>> /\ Len(log) = 0 /\ 1..Len(log) = {} /\ 0..Len(log) = {0}
  BY EmptySeq DEF Init
<1>2. /\ Len(epochs) = 1 /\ Epochs = {1} /\ epochs[1].line = {1} /\ epochs[1].parent = 0
  BY DEF Init, Epochs
<1>3. \A b \in Founders : /\ b \in Clients /\ state[b] = "Operational" /\ epoch[b] = 1 /\ members[b] = Founders
                          /\ store[b] = <<>> /\ used[b] = {} /\ cursor[b] = 0
  BY FoundersAreClients DEF Init
<1> DEFINE U == [n \in {0} |-> View(1, Founders, <<>>, {})]
<1>4. U[0] = View(1, Founders, <<>>, {}) /\ U[0].epoch = 1
  BY DEF View
<1> HIDE DEF U
<1>5. \A b \in Founders : ViewOf(b) = U[0]
  <2>1. \A b \in Founders : {m \in used[b] : Handshake(m)} = {}
    BY <1>3
  <2> QED
    BY <1>3, <1>4, <2>1 DEF ViewOf
<1>6. Views(U)
  BY <1>1, <1>2, <1>3, <1>4, <1>5 DEF Views
<1>7. Lines
  BY <1>2 DEF Lines
<1> QED
  BY <1>3, <1>6, <1>7 DEF ViewInv

(* The first epoch is that of the founders, for good. *)
FoundedBy == Len(epochs) >= 1 /\ epochs[1].members = Founders

LEMMA FoundersStay ==
    /\ Init => FoundedBy
    /\ Ordered /\ Inv /\ FoundedBy /\ [Next]_vars => FoundedBy'
<1>1. Init => FoundedBy
  BY DEF Init, FoundedBy
<1>2. ASSUME Ordered, Inv, FoundedBy, [Next]_vars PROVE FoundedBy'
  <2>1. epochs' \in Seq(EpochSet) /\ Extended(epochs, epochs')
    BY <1>2, HistoryGrows
  <2>2. Len(epochs) \in Nat /\ Len(epochs') \in Nat
    BY <1>2, <2>1, Types, LenProperties DEF Inv
  <2> QED
    BY <1>2, <2>1, <2>2 DEF FoundedBy, Extended
<1> QED
  BY <1>1, <1>2

(* Members that only read stay together: they are on one branch whatever    *)
(* the others commit concurrently, and in the same state after the same     *)
(* entries.                                                                 *)
THEOREM ReadersAgree ==
    ASSUME Ordered
    PROVE  Spec => []BystandersAgree
<1> DEFINE I == Inv /\ ReadInv /\ AuthorInv /\ ViewInv /\ FoundedBy
<1>1. Init => I
  BY InvInit, ReadInit, OrderInit, ViewInit, FoundersStay
<1>2. I /\ [Next]_vars => I'
  BY InvNext, ReadNext, AuthorNext, ViewNext, FoundersStay
<1>3. I => BystandersAgree
  <2> SUFFICES ASSUME Inv, ReadInv, ViewInv, NEW c \in Founders \ authors, NEW d \in Founders \ authors,
                      Active(c), Active(d)
               PROVE  /\ epoch[c] \in epochs[epoch[d]].line \/ epoch[d] \in epochs[epoch[c]].line
                      /\ cursor[c] = cursor[d] =>
                           epoch[c] = epoch[d] /\ members[c] = members[d] /\ store[c] = store[d]
    BY DEF BystandersAgree, FoundedBy
  <2>1. PICK V : Views(V)
    BY DEF ViewInv
  <2>2. V[cursor[c]] = ViewOf(c) /\ V[cursor[d]] = ViewOf(d)
    BY <2>1 DEF Views
  <2>3. /\ V[cursor[c]].epoch = epoch[c] /\ V[cursor[c]].members = members[c] /\ V[cursor[c]].store = store[c]
        /\ V[cursor[d]].epoch = epoch[d] /\ V[cursor[d]].members = members[d] /\ V[cursor[d]].store = store[d]
    BY <2>2 DEF ViewOf, View
  <2>4. cursor[c] \in 0..Len(log) /\ cursor[d] \in 0..Len(log)
    <3>1. c \in Clients /\ d \in Clients
      BY FoundersAreClients
    <3>2. cursor \in [Clients -> Nat]
      BY DEF Inv, TypeOK
    <3>3. cursor[c] <= Len(log) /\ cursor[d] <= Len(log) /\ Len(log) \in Nat
      BY <3>1, Types DEF Inv, ReadInv, CursorsInLog
    <3> QED
      BY <3>1, <3>2, <3>3
  <2>5. cursor[c] <= cursor[d] \/ cursor[d] <= cursor[c]
    BY <2>4
  <2>6. epoch[c] \in epochs[epoch[d]].line \/ epoch[d] \in epochs[epoch[c]].line
    BY <2>1, <2>3, <2>4, <2>5 DEF Views
  <2>7. cursor[c] = cursor[d] => epoch[c] = epoch[d] /\ members[c] = members[d] /\ store[c] = store[d]
    BY <2>3
  <2> QED
    BY <2>6, <2>7
<1> HIDE DEF I
<1> QED
  BY <1>1, <1>2, <1>3, PTL DEF Spec
=============================================================================
