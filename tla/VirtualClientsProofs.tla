------------------------ MODULE VirtualClientsProofs ------------------------
(***************************************************************************)
(* Proofs about the virtual client, for every number of emulators, groups  *)
(* and emulation epochs, every tolerance, forward distance and length of   *)
(* the ratchets, every number of past epochs and every plan.               *)
(***************************************************************************)
EXTENDS VirtualClients, SequenceTheorems, FiniteSetTheorems,
        WellFoundedInduction, TLAPS

-----------------------------------------------------------------------------
(* Types                                                                    *)

EmulationEpochs == Nat \ {0}
Generations     == 0..(MaxGeneration - 1)
Ratchets        == {r \in [next : Nat, retained : SUBSET Nat] : \A n \in r.retained : n < r.next}
Trees           == [Emulators \X OperationTypes -> Ratchets]

Builders == [kind : {"commit", "external"}, group : Groups, ep : EmulationEpochs, at : Nat,
             resync : BOOLEAN, generation : Generations]
Batches  == [kind : {"batch"}, ep : EmulationEpochs, generation : Generations, tree : Trees]
Uploads  == [ep : EmulationEpochs, leaf : Emulators, generation : Generations]
Bindings == [epoch : Nat, ep : EmulationEpochs]

(* The entries that a log may hold, by what puts them there. *)
LeafEntry(g, kind, ep, leaf, generation, resync) ==
    Entry(kind, DerivationInfo(ep, LeafKey(ep, leaf, generation, g),
                               Tbe(leaf, generation, 0, kind = "external")),
          LeafKey(ep, leaf, generation, g), <<>>, resync)
PackageEntry(kind, up, index, package) ==
    Entry(kind, DerivationInfo(up.ep, PackageKey(up.ep, up.leaf, up.generation, index),
                               Tbe(up.leaf, up.generation, index, FALSE)),
          PackageKey(up.ep, up.leaf, up.generation, index), package, FALSE)

LeafEntries(g) ==
    {LeafEntry(g, kind, ep, leaf, generation, resync) :
        kind \in {"commit", "external"}, ep \in EmulationEpochs, leaf \in Emulators,
        generation \in Generations, resync \in BOOLEAN}
Creations == {PackageEntry("create", up, 0, <<>>) : up \in Uploads}
Additions == {PackageEntry("add", up, index, <<u, index>>) :
                 up \in Uploads, u \in Nat, index \in 0..(BatchSize - 1)}
Plain     == {Entry(kind, None, NoTerm, <<>>, FALSE) : kind \in {"other", "remove"}}
Entries(g) == LeafEntries(g) \union Creations \union Additions \union Plain

OperationCoordinates ==
    [ep : EmulationEpochs, leaf : Emulators, type : OperationTypes, generation : Generations]

(* A stored group; its keys are terms, and its pending commit is described  *)
(* by PendingNext.                                                          *)
IsStoredGroup(m) ==
    m \in [pos : Nat, since : Nat, pending : {m.pending}, bindings : Seq(Bindings), key : {m.key}]
IsStaged(s) ==
    s \in [kind : {"commit", "welcome"}, group : Groups, pos : Nat, ep : Nat, key : {s.key}]

TreesOK ==
    /\ DOMAIN trees = Emulators
    /\ \A e \in Emulators : /\ DOMAIN trees[e] \subseteq EmulationEpochs
                            /\ \A ep \in DOMAIN trees[e] : trees[e][ep] \in Trees
StagedOK ==
    /\ DOMAIN staged = Emulators
    /\ \A e \in Emulators : staged[e] = None \/ IsStaged(staged[e])
GroupsOK ==
    /\ DOMAIN members = Emulators
    /\ \A e \in Emulators : /\ DOMAIN members[e] = Groups
                            /\ \A g \in Groups : IsStoredGroup(members[e][g])
LogsOK ==
    /\ DOMAIN log = Groups
    /\ \A g \in Groups : log[g] \in Seq(Entries(g))
    /\ uploads \in Seq(Uploads)
StateOK ==
    /\ emulation \in [Emulators -> [epoch : EmulationEpochs, exported : BOOLEAN, record : Nat]]
    /\ epochs \in [Emulators -> SUBSET EmulationEpochs]
    /\ packages \in [Emulators -> SUBSET (Nat \X Nat)]
    /\ handled \in [Emulators -> SUBSET Nat]
MemoryOK ==
    /\ building \in [Emulators -> Builders \union {None}]
    /\ batch \in [Emulators -> Batches \union {None}]
    /\ lost \in [Emulators -> SUBSET (Groups \X Nat)]
SentOK == DOMAIN sent \subseteq OperationCoordinates

TypeOK == TreesOK /\ StagedOK /\ GroupsOK /\ LogsOK /\ StateOK /\ MemoryOK /\ SentOK

-----------------------------------------------------------------------------
(* Operation secrets are used once                                          *)

NextOf(e, ep, leaf, type) == trees[e][ep][<<leaf, type>>].next

(* Only an epoch whose exporter was punctured has a tree.                   *)
TreesExported ==
    \A e \in Emulators : \A ep \in DOMAIN trees[e] :
        ep <= emulation[e].epoch /\ (ep = emulation[e].epoch => emulation[e].exported)

(* What left a client is behind the head of that client's own ratchet.      *)
SentBehind ==
    \A c \in DOMAIN sent :
        /\ sent[c] = 1
        /\ c.ep \in DOMAIN trees[c.leaf]
        /\ c.generation < NextOf(c.leaf, c.ep, c.leaf, c.type)

(* The generation of a commit under way is the last of its ratchet, and     *)
(* nothing was sent with it.                                                *)
BuilderOwnsAt(e) ==
    building[e] # None =>
        LET b == building[e] IN
        /\ b.ep \in epochs[e] /\ b.ep \in DOMAIN trees[e]
        /\ NextOf(e, b.ep, e, "leaf_node") = b.generation + 1
        /\ Coordinates(b.ep, e, "leaf_node", b.generation) \notin DOMAIN sent

BuilderOwns == \A e \in Emulators : BuilderOwnsAt(e)

(* An open batch holds what its tree would become.                          *)
BatchOwnsAt(e) ==
    batch[e] # None =>
        LET b == batch[e] IN
        /\ b.ep \in DOMAIN trees[e]
        /\ b.generation = NextOf(e, b.ep, e, "key_package")
        /\ b.tree = Derived(trees[e][b.ep], e, "key_package", b.generation)

BatchOwns == \A e \in Emulators : BatchOwnsAt(e)

OwnInv == TreesExported /\ SentBehind /\ BuilderOwns /\ BatchOwns

-----------------------------------------------------------------------------
(* Positions in the logs                                                    *)

(* The entries up to here are behind the emulator.                          *)
Seen(e, g) == IF members[e][g].pos = 0 THEN members[e][g].since ELSE members[e][g].pos

IsLeaf(c) == c.kind \in {"commit", "external"}

PositionAt(e, g) ==
    LET m == members[e][g] IN
    /\ Seen(e, g) <= Len(log[g])
    /\ m.pos = 0 /\ m.since > 0 => log[g][m.since].kind = "remove"
    /\ m.pos > 0 => m.since \in 1..m.pos
    /\ m.pending # None =>
         /\ m.pos \in 1..(Len(log[g]) - 1) /\ log[g][m.pos + 1] = m.pending
         /\ m.pending.kind = "commit" /\ m.pending.info.epoch_id \in epochs[e]
Positions == \A e \in Emulators, g \in Groups : PositionAt(e, g)

(* The only own commit that an emulator has not merged is the pending one.  *)
OwnBehindAt(e, g) ==
    \A i \in 1..Len(log[g]) :
        IsLeaf(log[g][i]) /\ log[g][i].info.tbe.leaf = e /\ i > Seen(e, g)
        => members[e][g].pending # None /\ i = members[e][g].pos + 1
OwnBehind == \A e \in Emulators, g \in Groups : OwnBehindAt(e, g)

(* What is staged is the next entry, or a Welcome after the removal; no     *)
(* builder has the group.                                                   *)
StagedNextAt(e) ==
    staged[e] # None =>
        LET s == staged[e]
            m == members[e][s.group]
            c == log[s.group][s.pos]
        IN  /\ s.pos \in 1..Len(log[s.group])
            /\ s.kind = "commit" => /\ m.pos > 0 /\ s.pos = m.pos + 1 /\ IsLeaf(c)
                                    /\ s.ep = c.info.epoch_id /\ s.ep \in epochs[e]
            /\ s.kind = "welcome" => m.pos = 0 /\ s.pos > m.since /\ c.kind = "add"
            /\ building[e] # None => building[e].group # s.group
StagedNext == \A e \in Emulators : StagedNextAt(e)

(* A member's commit is built by a member without a pending one.            *)
BuilderFitsAt(e) ==
    building[e] # None =>
        LET m == members[e][building[e].group] IN
        IF building[e].kind = "commit" THEN m.pos > 0 /\ m.pending = None ELSE m.pos = 0
BuilderFits == \A e \in Emulators : BuilderFitsAt(e)

PlacesInv == Positions /\ OwnBehind /\ StagedNext /\ BuilderFits

-----------------------------------------------------------------------------
(* Siblings follow                                                          *)

LeafCoordinates(c) ==
    Coordinates(c.info.epoch_id, c.info.tbe.leaf, "leaf_node", c.info.tbe.generation)
CreationCoordinates(c) ==
    Coordinates(c.info.epoch_id, c.info.tbe.leaf, "key_package", c.info.tbe.generation)
UploadCoordinates(up) == Coordinates(up.ep, up.leaf, "key_package", up.generation)

(* Everything in a log or an upload was sent, each under its own secret.    *)
AllSent ==
    /\ \A g \in Groups : \A i \in 1..Len(log[g]) :
         /\ IsLeaf(log[g][i]) => LeafCoordinates(log[g][i]) \in DOMAIN sent
         /\ log[g][i].kind = "create" => CreationCoordinates(log[g][i]) \in DOMAIN sent
    /\ \A u \in 1..Len(uploads) : UploadCoordinates(uploads[u]) \in DOMAIN sent

SecretsDiffer ==
    /\ \A g, h \in Groups : \A i \in 1..Len(log[g]), j \in 1..Len(log[h]) :
         IsLeaf(log[g][i]) /\ IsLeaf(log[h][j])
            /\ LeafCoordinates(log[g][i]) = LeafCoordinates(log[h][j]) => g = h /\ i = j
    /\ \A u, v \in 1..Len(uploads) :
         UploadCoordinates(uploads[u]) = UploadCoordinates(uploads[v]) => u = v
    /\ \A g \in Groups : \A i \in 1..Len(log[g]), u \in 1..Len(uploads) :
         log[g][i].kind = "create" => CreationCoordinates(log[g][i]) # UploadCoordinates(uploads[u])

(* A sibling's ratchet only moves to what the sibling sent.                 *)
HeadsSent ==
    \A e, f \in Emulators : \A ep \in DOMAIN trees[e] : \A type \in OperationTypes :
        e # f /\ NextOf(e, ep, f, type) > 0
        => Coordinates(ep, f, type, NextOf(e, ep, f, type) - 1) \in DOMAIN sent

(* A generation that can still be derived, or that the tolerance gave up.   *)
Open(tree, leaf, type, n) ==
    LET r == tree[<<leaf, type>>] IN
    n < r.next => n \in r.retained \/ n < r.next - 1 - Tolerance

Consumed(e, g, i) ==
    \/ i <= Seen(e, g)
    \/ staged[e] # None /\ staged[e].group = g /\ staged[e].pos = i
    \/ <<g, i>> \in lost[e]

CommitsOpen ==
    \A e \in Emulators, g \in Groups : \A i \in 1..Len(log[g]) :
        LET c == log[g][i] IN
        IsLeaf(c) /\ c.info.tbe.leaf # e /\ c.info.epoch_id \in DOMAIN trees[e] /\ ~Consumed(e, g, i)
        => Open(trees[e][c.info.epoch_id], c.info.tbe.leaf, "leaf_node", c.info.tbe.generation)
UploadsOpen ==
    \A e \in Emulators : \A u \in 1..Len(uploads) :
        LET up == uploads[u] IN
        up.leaf # e /\ up.ep \in DOMAIN trees[e] /\ u \notin handled[e]
        => Open(trees[e][up.ep], up.leaf, "key_package", up.generation)

FollowInv == AllSent /\ SecretsDiffer /\ HeadsSent /\ CommitsOpen /\ UploadsOpen

-----------------------------------------------------------------------------
(* Welcomes open                                                            *)

AddsFromUploads ==
    \A g \in Groups : \A i \in 1..Len(log[g]) :
        LET c == log[g][i]
            u == c.package[1]
        IN  c.kind = "add" =>
              /\ u \in 1..Len(uploads) /\ c.package = <<u, c.package[2]>>
              /\ c = PackageEntry("add", uploads[u], c.package[2], c.package)
              /\ c.package[2] \in 0..(BatchSize - 1)
PackagesOnce ==
    \A g, h \in Groups : \A i \in 1..Len(log[g]), j \in 1..Len(log[h]) :
        log[g][i].kind = "add" /\ log[h][j].kind = "add" /\ log[g][i].package = log[h][j].package
        => g = h /\ i = j

HandledStored ==
    \A e \in Emulators : \A u \in handled[e] :
        u \in 1..Len(uploads) /\ uploads[u].ep \in epochs[e]

(* Material is gone only for a Welcome that was taken.                      *)
PackagesKept ==
    \A e \in Emulators : \A u \in 1..Len(uploads), index \in 0..(BatchSize - 1) :
        uploads[u].leaf = e \/ u \in handled[e] =>
          \/ <<u, index>> \in packages[e]
          \/ \E g \in Groups : \E i \in 1..Len(log[g]) :
               log[g][i].kind = "add" /\ log[g][i].package = <<u, index>> /\ Consumed(e, g, i)

WelcomeInv == AddsFromUploads /\ PackagesOnce /\ HandledStored /\ PackagesKept

-----------------------------------------------------------------------------
(* Bindings                                                                 *)

Spaced(b) == \A i \in 1..Len(b) : \A j \in 1..i : b[i].epoch - b[j].epoch >= i - j

OrderedAt(e, g) ==
    LET b == members[e][g].bindings IN
    /\ Spaced(b)
    /\ \A i \in 1..Len(b) : b[i].epoch <= members[e][g].pos /\ b[i].ep \in epochs[e]

(* A member joined with a leaf and was not removed since.                   *)
InstalledAt(e, g) ==
    LET m == members[e][g] IN
    m.pos > 0 => /\ Installs(log[g][m.since])
                 /\ \A i \in m.since + 1..m.pos : log[g][i].kind \in {"other", "commit", "external"}

(* The epochs whose message secrets are kept are bound to the epoch of the  *)
(* leaf.                                                                    *)
Kept(e, g) ==
    {n \in members[e][g].since..members[e][g].pos : n >= members[e][g].pos - MaxPast}
EpochsBoundAt(e, g) ==
    members[e][g].pos > 0 =>
      \A n \in Kept(e, g) : LeafEpoch(g, n) > 0 =>
         \E i \in 1..Len(members[e][g].bindings) :
            members[e][g].bindings[i] = [epoch |-> n, ep |-> LeafEpoch(g, n)]

BoundAt(e, g) == OrderedAt(e, g) /\ InstalledAt(e, g) /\ EpochsBoundAt(e, g)
BindingInv == \A e \in Emulators, g \in Groups : BoundAt(e, g)

Inv == TypeOK /\ OwnInv /\ PlacesInv /\ FollowInv /\ WelcomeInv /\ BindingInv
-----------------------------------------------------------------------------
(* The constants are numbers. *)
LEMMA Numbers ==
    /\ Emulators \subseteq Nat
    /\ MaxForward \in Nat /\ Tolerance \in Nat /\ MaxGeneration \in Nat /\ MaxPast \in Nat
    /\ BatchSize \in Nat
  BY VirtualClientsAssumption

(* None is no builder, no batch and no staged commit. *)
LEMMA NoneApart ==
    /\ \A b \in Builders : b # None
    /\ \A b \in Batches : b # None
    /\ \A s : IsStaged(s) => s # None
  <1>1. \A b \in Builders : b # None
    <2> SUFFICES ASSUME NEW b \in Builders PROVE b.kind # None.kind
      OBVIOUS
    <2> QED BY DEF Builders, None
  <1>2. \A b \in Batches : b # None
    <2> SUFFICES ASSUME NEW b \in Batches PROVE b.kind # None.kind
      OBVIOUS
    <2> QED BY DEF Batches, None
  <1>3. ASSUME NEW s, IsStaged(s) PROVE s # None
    <2>1. s.kind # None.kind
      BY <1>3 DEF IsStaged, None
    <2> QED BY <2>1
  <1> QED BY <1>1, <1>2, <1>3

(* A set of numbers has a least element, and a greatest one below a bound. *)
LEMMA LeastNumber ==
    ASSUME NEW T \in SUBSET Nat, T # {}
    PROVE  \E x \in T : \A y \in T : x <= y
  <1> DEFINE R == OpToRel(<, Nat)
  <1>1. IsWellFoundedOn(R, Nat)
    BY NatLessThanWellFounded
  <1>2. R = {ss \in Nat \X Nat : ss[1] < ss[2]}
    BY Zenon DEF OpToRel
  <1> HIDE DEF R
  <1>3. PICK x \in T : \A y \in T : ~ (<<y, x>> \in R)
    BY <1>1, WFMin
  <1>4. \A y \in T : ~ (y < x)
    BY <1>2, <1>3
  <1> QED BY <1>3, <1>4

(* The largest element of a bounded set is its Max. *)
LEMMA MaxProperties ==
    ASSUME NEW n \in Nat, NEW S \in SUBSET (0..n), S # {}
    PROVE  Max(S) \in S /\ \A j \in S : j <= Max(S)
  <1> DEFINE T == {n - i : i \in S}
  <1>1. T \in SUBSET Nat /\ T # {}
    OBVIOUS
  <1>2. PICK x \in T : \A y \in T : x <= y
    BY <1>1, LeastNumber
  <1>3. PICK i \in S : x = n - i
    BY <1>2
  <1>4. \A j \in S : n - j \in T
    OBVIOUS
  <1>5. \A j \in S : j \in Nat /\ n - i <= n - j
    <2> SUFFICES ASSUME NEW j \in S PROVE n - i <= n - j
      OBVIOUS
    <2>1. n - j \in T
      BY <1>4
    <2> HIDE DEF T
    <2> QED BY <1>2, <1>3, <2>1
  <1>6. \A j \in S : i >= j
    BY <1>5
  <1>7. \E x_1 \in S : \A y \in S : x_1 >= y
    BY <1>6
  <1>8. Max(S) \in S /\ \A y \in S : Max(S) >= y
    BY <1>7, Zenon DEF Max
  <1> QED BY <1>8

-----------------------------------------------------------------------------
(* The operation secret tree                                                *)

(* Evicting the oldest keeps every generation that the tolerance covers. *)
LEMMA NewestKeeps ==
    ASSUME NEW next \in Nat, NEW S \in SUBSET Nat, \A m \in S : m < next,
           NEW n \in S, n >= next - Tolerance
    PROVE  n \in Newest(S)
  <1> DEFINE A == {m \in S : m > n}
             B == n + 1..next - 1
  <1>1. A \in SUBSET B
    <2> SUFFICES ASSUME NEW m \in A PROVE m \in B
      OBVIOUS
    <2>1. m \in Nat /\ m < next /\ m > n /\ n \in Nat
      OBVIOUS
    <2> QED BY <2>1
  <1>2. IsFiniteSet(B) /\ Cardinality(B) = next - 1 - n
    <2>1. n \in Nat /\ n < next
      OBVIOUS
    <2>2. Cardinality(B) = IF n + 1 > next - 1 THEN 0 ELSE (next - 1) - (n + 1) + 1
      BY <2>1, FS_Interval
    <2>3. IsFiniteSet(B)
      BY <2>1, FS_Interval
    <2> QED BY <2>1, <2>2, <2>3
  <1>3. Cardinality(A) <= Cardinality(B) /\ IsFiniteSet(A)
    BY <1>1, <1>2, FS_Subset
  <1>4. Cardinality(A) \in Nat
    BY <1>3, FS_CardinalityType
  <1>5. Cardinality(A) < Tolerance
    BY <1>2, <1>3, <1>4, Numbers
  <1> QED BY <1>5 DEF Newest

(* What generation_secret makes of a ratchet: the head only moves forward,  *)
(* and every other generation stays as open as it was.                      *)
LEMMA DerivedProperties ==
    ASSUME NEW t \in Trees, NEW leaf \in Emulators, NEW type \in OperationTypes,
           NEW n \in Nat
    PROVE  LET d == Derived(t, leaf, type, n)
               c == <<leaf, type>>
           IN  /\ d \in Trees
               /\ \A x \in Emulators \X OperationTypes : x # c => d[x] = t[x]
               /\ n < t[c].next => d[c].next = t[c].next
               /\ n >= t[c].next => d[c].next = n + 1
               /\ \A k \in Nat : k # n /\ Open(t, leaf, type, k) => Open(d, leaf, type, k)
  <1> DEFINE d == Derived(t, leaf, type, n)
             c == <<leaf, type>>
             r == t[c]
             late == [r EXCEPT !.retained = @ \ {n}]
             S == r.retained \union (r.next..(n - 1))
             ahead == [next |-> n + 1, retained |-> Newest(S)]
  <1>1. c \in Emulators \X OperationTypes /\ r \in Ratchets
    BY DEF Trees
  <1>2. r \in [next : Nat, retained : SUBSET Nat] /\ \A k \in r.retained : k < r.next
    BY <1>1 DEF Ratchets
  <1>3. d = [t EXCEPT ![c] = IF n < r.next THEN late ELSE ahead]
    BY DEF Derived
  <1>4. late \in Ratchets /\ late.next = r.next /\ late.retained = r.retained \ {n}
    BY <1>2 DEF Ratchets
  <1>5. Newest(S) \in SUBSET S
    BY DEF Newest
  <1>6. ASSUME n >= r.next PROVE ahead \in Ratchets
    <2>1. \A k \in S : k \in Nat /\ k < n + 1
      BY <1>2, <1>6
    <2>2. \A k \in Newest(S) : k \in Nat /\ k < n + 1
      BY <2>1, <1>5
    <2> HIDE DEF S
    <2> QED BY <2>2 DEF Ratchets
  <1>7. d[c] = IF n < r.next THEN late ELSE ahead
    BY <1>1, <1>3 DEF Trees
  <1>8. d \in Trees
    BY <1>1, <1>2, <1>3, <1>4, <1>6 DEF Trees
  <1>9. \A x \in Emulators \X OperationTypes : x # c => d[x] = t[x]
    BY <1>3 DEF Trees
  <1>10. ASSUME NEW k \in Nat, k # n, Open(t, leaf, type, k) PROVE Open(d, leaf, type, k)
    <2>1. k < r.next => k \in r.retained \/ k < r.next - 1 - Tolerance
      BY <1>10 DEF Open
    <2>2. CASE n < r.next
      <3>1. k < late.next => k \in late.retained \/ k < late.next - 1 - Tolerance
        BY <1>4, <1>10, <2>1
      <3> QED BY <3>1, <2>2, <1>7 DEF Open
    <2>3. CASE n >= r.next
      <3>1. \A m \in S : m \in Nat /\ m < n
        BY <1>2, <2>3
      <3>2. ASSUME k < n + 1, k >= n - Tolerance PROVE k \in Newest(S)
        <4>1. k < n
          BY <1>10, <3>2
        <4>2. k \in S
          BY <1>2, <2>1, <2>3, <3>2, <4>1, Numbers
        <4>3. S \in SUBSET Nat /\ \A m \in S : m < n
          BY <3>1
        <4> HIDE DEF S
        <4> QED BY <3>2, <4>2, <4>3, NewestKeeps
      <3>3. k < ahead.next => k \in ahead.retained \/ k < ahead.next - 1 - Tolerance
        BY <3>2, Numbers
      <3>4. ~ (n < r.next)
        BY <1>2, <2>3
      <3> QED BY <3>3, <3>4, <1>7 DEF Open
    <2> QED BY <2>2, <2>3, <1>2
  <1>11. n < r.next => d[c].next = r.next
    BY <1>4, <1>7
  <1>12. n >= r.next => d[c].next = n + 1
    BY <1>2, <1>7
  <1> QED BY <1>8, <1>9, <1>10, <1>11, <1>12

(* write_vc_operation_tree touches one tree of one emulator. *)
LEMMA StoreTreeProperties ==
    ASSUME TypeOK, NEW e \in Emulators, NEW ep, NEW t, StoreTree(e, ep, t)
    PROVE  /\ DOMAIN trees' = Emulators
           /\ \A f \in Emulators : f # e => trees'[f] = trees[f]
           /\ DOMAIN trees'[e] = DOMAIN trees[e] \union {ep}
           /\ \A x \in DOMAIN trees[e] : x # ep => trees'[e][x] = trees[e][x]
           /\ trees'[e][ep] = t
  BY DEF TypeOK, TreesOK, StoreTree

(* An operation that leaves a client is counted. *)
LEMMA LeavesProperties ==
    ASSUME NEW c, c \notin DOMAIN sent, \A x \in DOMAIN sent : sent[x] = 1, Leaves(c)
    PROVE  /\ DOMAIN sent' = DOMAIN sent \union {c}
           /\ \A x \in DOMAIN sent' : sent'[x] = 1
  BY DEF Leaves

(* What is known of an entry of a log, by its kind. *)
LEMMA EntryFields ==
    ASSUME NEW g \in Groups, NEW c \in Entries(g)
    PROVE  /\ c.kind \in {"commit", "external", "create", "add", "other", "remove"}
           /\ Installs(c) => /\ c.info # None
                             /\ c.info.epoch_id \in EmulationEpochs
                             /\ c.info.tbe.leaf \in Emulators
                             /\ c.info.tbe.generation \in Generations
                             /\ c.info.key = <<EpochEncryptionKey(c.info.epoch_id), c.key>>
           /\ IsLeaf(c) => CanStage(c, g)
           /\ c.kind = "add" => c.package \in Nat \X (0..(BatchSize - 1))
  <1> DEFINE P == /\ c.kind \in {"commit", "external", "create", "add", "other", "remove"}
                  /\ Installs(c) => /\ c.info # None
                                    /\ c.info.epoch_id \in EmulationEpochs
                                    /\ c.info.tbe.leaf \in Emulators
                                    /\ c.info.tbe.generation \in Generations
                                    /\ c.info.key = <<EpochEncryptionKey(c.info.epoch_id), c.key>>
                  /\ IsLeaf(c) => CanStage(c, g)
                  /\ c.kind = "add" => c.package \in Nat \X (0..(BatchSize - 1))
  <1>0. ASSUME NEW ep, NEW key, NEW tbe PROVE DerivationInfo(ep, key, tbe) # None
    <2>1. DerivationInfo(ep, key, tbe).kind # None.kind
      BY DEF DerivationInfo, None
    <2> QED BY <2>1
  <1>1. CASE c \in LeafEntries(g)
    <2>1. PICK kind \in {"commit", "external"}, ep \in EmulationEpochs, leaf \in Emulators,
               generation \in Generations, resync \in BOOLEAN :
               c = LeafEntry(g, kind, ep, leaf, generation, resync)
      BY <1>1 DEF LeafEntries
    <2> DEFINE key == LeafKey(ep, leaf, generation, g)
               tbe == Tbe(leaf, generation, 0, kind = "external")
    <2>2. c.kind = kind /\ c.info = DerivationInfo(ep, key, tbe) /\ c.key = key
      BY <2>1 DEF LeafEntry, Entry
    <2> HIDE DEF key, tbe
    <2>3. c.info.epoch_id = ep /\ c.info.key = <<EpochEncryptionKey(ep), c.key>> /\ c.info.tbe = tbe
      BY <2>2 DEF DerivationInfo
    <2>4. /\ c.info.tbe.leaf = leaf /\ c.info.tbe.generation = generation
          /\ c.info.tbe.external_init = (kind = "external")
      BY <2>3 DEF Tbe, tbe
    <2>5. RecreatedKey(c, g) = c.key
      BY <2>2, <2>3, <2>4 DEF RecreatedKey, key
    <2>6. CanStage(c, g)
      BY <2>2, <2>4, <2>5 DEF CanStage
    <2>7. c.info # None
      BY <2>2, <1>0
    <2> QED BY <2>2, <2>3, <2>4, <2>6, <2>7
  <1>2. ASSUME NEW kind \in {"create", "add"}, NEW up \in Uploads, NEW index, NEW package,
               c = PackageEntry(kind, up, index, package)
        PROVE  /\ c.kind = kind /\ c.package = package
               /\ c.info.epoch_id \in EmulationEpochs
               /\ c.info.tbe.leaf \in Emulators
               /\ c.info.tbe.generation \in Generations
               /\ c.info.key = <<EpochEncryptionKey(c.info.epoch_id), c.key>>
               /\ c.info # None
    <2> DEFINE key == PackageKey(up.ep, up.leaf, up.generation, index)
               tbe == Tbe(up.leaf, up.generation, index, FALSE)
    <2>1. /\ c.kind = kind /\ c.info = DerivationInfo(up.ep, key, tbe) /\ c.key = key
          /\ c.package = package
      BY <1>2 DEF PackageEntry, Entry
    <2> HIDE DEF key, tbe
    <2>2. c.info.epoch_id = up.ep /\ c.info.key = <<EpochEncryptionKey(up.ep), c.key>>
          /\ c.info.tbe = tbe
      BY <2>1 DEF DerivationInfo
    <2>3. c.info.tbe.leaf = up.leaf /\ c.info.tbe.generation = up.generation
      BY <2>2 DEF Tbe, tbe
    <2>4. up.ep \in EmulationEpochs /\ up.leaf \in Emulators /\ up.generation \in Generations
      BY DEF Uploads
    <2>5. c.info # None
      BY <2>1, <1>0
    <2> QED BY <2>1, <2>2, <2>3, <2>4, <2>5
  <1>3. CASE c \in Creations
    <2>1. PICK up \in Uploads : c = PackageEntry("create", up, 0, <<>>)
      BY <1>3 DEF Creations
    <2>2. /\ c.kind = "create"
          /\ c.info.epoch_id \in EmulationEpochs
          /\ c.info.tbe.leaf \in Emulators
          /\ c.info.tbe.generation \in Generations
          /\ c.info.key = <<EpochEncryptionKey(c.info.epoch_id), c.key>>
          /\ c.info # None
      BY <2>1, <1>2
    <2> QED BY <2>2 DEF IsLeaf
  <1>4. CASE c \in Additions
    <2>1. PICK up \in Uploads, u \in Nat, index \in 0..(BatchSize - 1) :
               c = PackageEntry("add", up, index, <<u, index>>)
      BY <1>4, SMTT(60) DEF Additions
    <2>2. /\ c.kind = "add" /\ c.package = <<u, index>>
          /\ c.info.epoch_id \in EmulationEpochs
          /\ c.info.tbe.leaf \in Emulators
          /\ c.info.tbe.generation \in Generations
          /\ c.info.key = <<EpochEncryptionKey(c.info.epoch_id), c.key>>
          /\ c.info # None
      BY <2>1, <1>2
    <2> QED BY <2>1, <2>2 DEF IsLeaf
  <1>5. CASE c \in Plain
    <2>1. c.kind \in {"other", "remove"}
      BY <1>5 DEF Plain, Entry
    <2> QED BY <2>1 DEF IsLeaf, Installs
  <1> QED BY <1>1, <1>3, <1>4, <1>5 DEF Entries

(* Where TypeOK puts the entries of a log. *)
LEMMA LogTypes ==
    ASSUME TypeOK, NEW g \in Groups
    PROVE  /\ log[g] \in Seq(Entries(g)) /\ Len(log[g]) \in Nat
           /\ DOMAIN log[g] = 1..Len(log[g])
           /\ \A i \in 1..Len(log[g]) : log[g][i] \in Entries(g)
  <1>1. log[g] \in Seq(Entries(g))
    BY DEF TypeOK, LogsOK
  <1> QED BY <1>1, LenProperties, ElementOfSeq

(* A log that got one more entry. *)
Appended(g, c) ==
    /\ DOMAIN log' = Groups
    /\ \A h \in Groups : h # g => log'[h] = log[h]
    /\ log'[g] \in Seq(Entries(g))
    /\ Len(log'[g]) = Len(log[g]) + 1
    /\ log'[g][Len(log[g]) + 1] = c
    /\ \A i \in 1..Len(log[g]) : log'[g][i] = log[g][i]

(* Appending to the log of a group. *)
LEMMA AppendLog ==
    ASSUME TypeOK, NEW g \in Groups, NEW c \in Entries(g),
           log' = [log EXCEPT ![g] = Append(@, c)]
    PROVE  Appended(g, c)
  <1>1. log[g] \in Seq(Entries(g)) /\ Len(log[g]) \in Nat /\ DOMAIN log = Groups
    BY LogTypes DEF TypeOK, LogsOK
  <1>2. /\ Append(log[g], c) \in Seq(Entries(g))
        /\ Len(Append(log[g], c)) = Len(log[g]) + 1
        /\ \A i \in 1..Len(log[g]) : Append(log[g], c)[i] = log[g][i]
        /\ Append(log[g], c)[Len(log[g]) + 1] = c
    BY <1>1, AppendProperties
  <1>3. log'[g] = Append(log[g], c) /\ DOMAIN log' = Groups
        /\ \A h \in Groups : h # g => log'[h] = log[h]
    BY <1>1
  <1> QED BY <1>2, <1>3 DEF Appended

-----------------------------------------------------------------------------
(* Bindings and stored groups                                               *)

(* The bindings d are those of b with a binding of epoch n at the end.      *)
Rebound(d, b, n, ep) ==
    /\ d \in Seq(Bindings) /\ Spaced(d)
    /\ Len(d) \in Nat /\ Len(d) > 0 /\ d[Len(d)] = [epoch |-> n, ep |-> ep]
    /\ \A i \in 1..Len(d) : d[i] = [epoch |-> n, ep |-> ep] \/ \E j \in 1..Len(b) : d[i] = b[j]
    /\ \A i \in 1..Len(b) : b[i].epoch >= n - MaxPast => \E j \in 1..Len(d) : d[j] = b[i]

(* VcEmulationBindings::insert of a later epoch: the new binding is the     *)
(* last one, the old ones keep their order, and only those of epochs whose  *)
(* message secrets are gone are dropped.                                    *)
LEMMA BindProperties ==
    ASSUME NEW b \in Seq(Bindings), NEW n \in Nat, NEW ep \in EmulationEpochs,
           Spaced(b), \A i \in 1..Len(b) : b[i].epoch < n
    PROVE  Rebound(Bind(b, n, ep), b, n, ep)
  <1> DEFINE new == [epoch |-> n, ep |-> ep]
             all == Append(b, new)
             L == Len(b)
             excess == Len(all) - (MaxPast + 1)
             k == IF excess > 0 THEN excess ELSE 0
             d == Bind(b, n, ep)
  <1>1. L \in Nat /\ DOMAIN b = 1..L /\ \A i \in 1..L : b[i] \in Bindings
    BY LenProperties, ElementOfSeq
  <1>2. \A i \in 1..L : b[i].epoch \in Nat
    BY <1>1 DEF Bindings
  <1>3. new \in Bindings
    BY DEF Bindings
  <1>4. /\ all \in Seq(Bindings) /\ Len(all) = L + 1 /\ all[L + 1] = new
        /\ \A i \in 1..L : all[i] = b[i]
    <2> HIDE DEF new
    <2> QED BY <1>3, AppendProperties
  <1>5. ~ Bound(b, n)
    BY <1>1, <1>2 DEF Bound
  <1>6. d = IF excess > 0 THEN SubSeq(all, excess + 1, Len(all)) ELSE all
    BY <1>5 DEF Bind
  <1> HIDE DEF new, all, d
  <1>7. k \in Nat /\ k <= L /\ (k > 0 => k = L - MaxPast)
    BY <1>1, <1>4, Numbers
  <1>8. /\ d \in Seq(Bindings) /\ Len(d) = L + 1 - k
        /\ \A i \in 1..(L + 1 - k) : d[i] = all[k + i]
    <2>1. CASE excess > 0
      <3>1. \A i \in excess + 1..Len(all) : all[i] \in Bindings
        BY <1>1, <1>4, <1>7, <2>1, ElementOfSeq
      <3>2. excess + 1 \in Nat /\ Len(all) \in Nat /\ k = excess
        BY <1>1, <1>4, <1>7, <2>1
      <3> DEFINE t == SubSeq(all, excess + 1, Len(all))
      <3>3. /\ t \in Seq(Bindings)
            /\ Len(t) = IF excess + 1 <= Len(all) THEN Len(all) - (excess + 1) + 1 ELSE 0
            /\ \A i \in 1..(Len(all) - (excess + 1) + 1) : t[i] = all[excess + 1 + i - 1]
        BY <1>4, <3>1, <3>2, SubSeqProperties
      <3>4. d = t
        BY <1>6, <2>1
      <3> HIDE DEF t, excess
      <3>5. Len(t) = L + 1 - k /\ Len(all) - (excess + 1) + 1 = L + 1 - k
        BY <1>1, <1>4, <1>7, <3>2, <3>3
      <3>6. \A i \in 1..(L + 1 - k) : excess + 1 + i - 1 = k + i
        BY <1>1, <1>7, <3>2
      <3> QED BY <3>3, <3>4, <3>5, <3>6
    <2>2. CASE ~ (excess > 0)
      <3>1. d = all /\ k = 0
        BY <1>6, <2>2
      <3> HIDE DEF k, excess
      <3>2. \A i \in 1..(L + 1 - k) : k + i = i
        BY <1>1, <3>1
      <3> QED BY <3>1, <3>2, <1>1, <1>4
    <2> QED BY <2>1, <2>2
  <1> HIDE DEF k, excess
  <1>9. \A i \in 1..(L + 1 - k) : IF k + i <= L THEN k + i \in 1..L /\ d[i] = b[k + i]
                                  ELSE k + i = L + 1 /\ d[i] = new
    <2> SUFFICES ASSUME NEW i \in 1..(L + 1 - k)
                 PROVE  IF k + i <= L THEN k + i \in 1..L /\ d[i] = b[k + i]
                        ELSE k + i = L + 1 /\ d[i] = new
      OBVIOUS
    <2>1. d[i] = all[k + i]
      BY <1>8
    <2>2. k + i <= L => k + i \in 1..L
      BY <1>1, <1>7
    <2>3. ~ (k + i <= L) => k + i = L + 1
      BY <1>1, <1>7
    <2> QED BY <1>4, <2>1, <2>2, <2>3
  <1>10. new.epoch = n
    BY DEF new
  <1>11. Spaced(d)
    <2> SUFFICES ASSUME NEW i \in 1..Len(d), NEW j \in 1..i
                 PROVE  d[i].epoch - d[j].epoch >= i - j
      BY DEF Spaced
    <2>1. i \in 1..(L + 1 - k) /\ j \in 1..(L + 1 - k)
      BY <1>1, <1>7, <1>8
    <2>2. CASE k + i <= L
      <3>1. k + i \in 1..L /\ d[i] = b[k + i] /\ k + j \in 1..(k + i) /\ d[j] = b[k + j]
        BY <1>1, <1>7, <1>9, <2>1, <2>2
      <3>2. b[k + i].epoch - b[k + j].epoch >= (k + i) - (k + j)
        BY <3>1 DEF Spaced
      <3> QED BY <3>1, <3>2, <1>1, <1>7, <2>1
    <2>3. CASE k + i > L
      <3>1. k + i = L + 1 /\ d[i].epoch = n
        BY <1>1, <1>7, <1>9, <1>10, <2>1, <2>3
      <3>2. CASE k + j <= L
        <4>1. k + j \in 1..L /\ d[j] = b[k + j] /\ L \in 1..L
          BY <1>1, <1>7, <1>9, <2>1, <3>2
        <4>2. b[L].epoch - b[k + j].epoch >= L - (k + j) /\ b[L].epoch < n
          BY <4>1 DEF Spaced
        <4>3. b[L].epoch \in Nat /\ b[k + j].epoch \in Nat
          BY <4>1, <1>2
        <4>4. n - b[k + j].epoch >= (k + i) - (k + j)
          BY <1>1, <1>7, <2>1, <3>1, <4>2, <4>3, SMTT(60)
        <4> QED BY <4>1, <4>4, <3>1, <1>1, <1>7, <2>1
      <3>3. CASE k + j > L
        <4>1. i = j
          BY <1>1, <1>7, <1>9, <2>1, <3>1, <3>3
        <4> QED BY <4>1, <3>1
      <3> QED BY <3>2, <3>3, <1>1, <1>7, <2>1
    <2> QED BY <2>2, <2>3, <1>1, <1>7, <2>1
  <1>12. Len(d) \in Nat /\ Len(d) > 0 /\ d[Len(d)] = new
    <2>1. L + 1 - k \in 1..(L + 1 - k) /\ ~ (k + (L + 1 - k) <= L)
      BY <1>1, <1>7
    <2> QED BY <2>1, <1>1, <1>7, <1>8, <1>9
  <1>13. \A i \in 1..Len(d) : d[i] = new \/ \E j \in 1..L : d[i] = b[j]
    BY <1>8, <1>9
  <1>14. ASSUME NEW i \in 1..L, b[i].epoch >= n - MaxPast
         PROVE  \E j \in 1..Len(d) : d[j] = b[i]
    <2>1. i > k
      <3> SUFFICES ASSUME i <= k PROVE FALSE
        BY <1>1, <1>7
      <3>1. k = L - MaxPast /\ L \in 1..L
        BY <1>1, <1>7
      <3>2. b[L].epoch - b[i].epoch >= L - i /\ b[L].epoch < n
        BY <3>1 DEF Spaced
      <3>3. b[L].epoch \in Nat /\ b[i].epoch \in Nat
        BY <3>1, <1>2
      <3> QED BY <3>1, <3>2, <3>3, <1>1, <1>7, <1>14, Numbers
    <2>2. i - k \in 1..(L + 1 - k) /\ k + (i - k) = i /\ k + (i - k) <= L
      BY <2>1, <1>1, <1>7
    <2> QED BY <2>2, <1>8, <1>9
  <1>15. Rebound(d, b, n, ep)
    BY <1>8, <1>11, <1>12, <1>13, <1>14 DEF new, Rebound
  <1> QED BY <1>15 DEF d

(* VcEmulationBindings::get finds the binding of an epoch. *)
LEMMA BindingAtProperties ==
    ASSUME NEW b \in Seq(Bindings), Spaced(b), NEW i \in 1..Len(b)
    PROVE  BindingAt(b, b[i].epoch) = b[i].ep
  <1>1. Len(b) \in Nat /\ DOMAIN b = 1..Len(b)
    BY LenProperties
  <1>0. \A j \in 1..Len(b) : b[j] \in Bindings
    BY ElementOfSeq
  <1>2. \A j \in 1..Len(b) : b[j].epoch \in Nat
    BY <1>0 DEF Bindings
  <1> DEFINE S == {j \in DOMAIN b : b[j].epoch = b[i].epoch}
  <1>3. ASSUME NEW j \in S PROVE j = i
    <2>1. j \in 1..Len(b) /\ b[j].epoch = b[i].epoch
      BY <1>1
    <2>2. CASE j < i
      <3>1. j \in 1..i
        BY <2>1, <2>2
      <3>2. b[i].epoch - b[j].epoch >= i - j
        BY <3>1 DEF Spaced
      <3> QED BY <3>2, <2>1, <2>2, <1>1, <1>2
    <2>3. CASE j > i
      <3>1. i \in 1..j
        BY <2>1, <2>3
      <3>2. b[j].epoch - b[i].epoch >= j - i
        BY <3>1, <2>1 DEF Spaced
      <3> QED BY <3>2, <2>1, <2>3, <1>1, <1>2
    <2> QED BY <2>1, <2>2, <2>3, <1>1
  <1>4. S = {i}
    BY <1>1, <1>3
  <1>5. Bound(b, b[i].epoch)
    BY <1>1 DEF Bound
  <1> HIDE DEF S
  <1>6. Min(S) = i
    <2>1. \E x \in S : \A y \in S : x <= y
      BY <1>1, <1>4
    <2>2. Min(S) \in S
      BY <2>1, Zenon DEF Min
    <2> QED BY <2>2, <1>4
  <1> QED BY <1>5, <1>6 DEF BindingAt, S

(* An epoch that is bound to something is bound to a stored epoch. *)
LEMMA BindingAtFound ==
    ASSUME NEW b \in Seq(Bindings), Spaced(b), NEW n \in Nat, BindingAt(b, n) > 0
    PROVE  \E i \in 1..Len(b) : b[i].epoch = n /\ BindingAt(b, n) = b[i].ep
  <1>1. Len(b) \in Nat /\ DOMAIN b = 1..Len(b)
    BY LenProperties
  <1>2. Bound(b, n)
    BY DEF BindingAt
  <1>3. PICK i \in 1..Len(b) : b[i].epoch = n
    BY <1>1, <1>2 DEF Bound
  <1> QED BY <1>3, BindingAtProperties

(* merge_staged_commit on a stored group. *)
LEMMA MergedFields ==
    ASSUME NEW m, IsStoredGroup(m), NEW n \in Nat, NEW ep, NEW key
    PROVE  LET r == Merged(m, n, ep, key)
               bound == IF ep > 0 THEN ep ELSE BindingAt(m.bindings, m.pos)
           IN  /\ r.pos = n /\ r.since = m.since /\ r.pending = None
               /\ r.bindings = IF bound > 0 THEN Bind(m.bindings, n, bound) ELSE m.bindings
               /\ r.bindings \in Seq(Bindings) => IsStoredGroup(r)
  <1> DEFINE bound == IF ep > 0 THEN ep ELSE BindingAt(m.bindings, m.pos)
             B == IF bound > 0 THEN Bind(m.bindings, n, bound) ELSE m.bindings
             K == IF key = NoTerm THEN m.key ELSE key
             r == [m EXCEPT !.pos = n, !.pending = None, !.bindings = B, !.key = K]
  <1>1. Merged(m, n, ep, key) = r
    BY DEF Merged
  <1> HIDE DEF B, K
  <1>2. /\ r.pos = n /\ r.since = m.since /\ r.pending = None /\ r.bindings = B /\ r.key = K
        /\ B \in Seq(Bindings) =>
             r \in [pos : Nat, since : Nat, pending : {None}, bindings : Seq(Bindings), key : {K}]
    BY DEF IsStoredGroup
  <1> QED BY <1>1, <1>2 DEF IsStoredGroup, B

(* The group of a client that joins. *)
LEMMA JoinedFields ==
    ASSUME NEW n \in Nat, NEW ep, NEW key
    PROVE  LET r == Joined(n, ep, key) IN
           /\ r.pos = n /\ r.since = n /\ r.pending = None
           /\ r.bindings = IF ep > 0 THEN Bind(<<>>, n, ep) ELSE <<>>
           /\ r.bindings \in Seq(Bindings) => IsStoredGroup(r)
  <1> DEFINE B == IF ep > 0 THEN Bind(<<>>, n, ep) ELSE <<>>
             r == [pos |-> n, since |-> n, pending |-> None, bindings |-> B, key |-> key]
  <1>1. Joined(n, ep, key) = r
    BY DEF Joined
  <1> HIDE DEF B
  <1> QED BY <1>1 DEF IsStoredGroup, B

(* The bindings of a client that joins, if it joins with a leaf of its own. *)
LEMMA FirstBinding ==
    ASSUME NEW n \in Nat, NEW ep \in EmulationEpochs
    PROVE  LET d == Bind(<<>>, n, ep) IN
           /\ d \in Seq(Bindings) /\ Spaced(d)
           /\ Len(d) \in Nat /\ Len(d) > 0 /\ d[Len(d)] = [epoch |-> n, ep |-> ep]
           /\ \A i \in 1..Len(d) : d[i] = [epoch |-> n, ep |-> ep]
  <1> DEFINE b == <<>>
  <1>1. b \in Seq(Bindings) /\ Len(b) = 0
    BY EmptySeq
  <1> HIDE DEF b
  <1>2. Spaced(b) /\ \A i \in 1..Len(b) : b[i].epoch < n
    BY <1>1 DEF Spaced
  <1> DEFINE d == Bind(b, n, ep)
  <1>3. /\ d \in Seq(Bindings) /\ Spaced(d)
        /\ Len(d) \in Nat /\ Len(d) > 0 /\ d[Len(d)] = [epoch |-> n, ep |-> ep]
        /\ \A i \in 1..Len(d) : d[i] = [epoch |-> n, ep |-> ep] \/ \E j \in 1..Len(b) : d[i] = b[j]
    <2>1. Rebound(d, b, n, ep)
      BY <1>1, <1>2, BindProperties
    <2> HIDE DEF d
    <2> QED BY <2>1 DEF Rebound
  <1> HIDE DEF d
  <1>4. \A i \in 1..Len(d) : d[i] = [epoch |-> n, ep |-> ep]
    BY <1>1, <1>3
  <1> QED BY <1>3, <1>4 DEF b, d

-----------------------------------------------------------------------------
(* Steps of the operation secret trees                                      *)

Cells == Emulators \X OperationTypes

(* One ratchet of one stored tree hands out generation n. *)
Moves(e, ep, leaf, type, n) ==
    /\ TreesOK'
    /\ \A f \in Emulators : DOMAIN trees'[f] = DOMAIN trees[f]
    /\ \A f \in Emulators : \A x \in DOMAIN trees[f] :
          f # e \/ x # ep => trees'[f][x] = trees[f][x]
    /\ \A y \in Cells : y # <<leaf, type>> => trees'[e][ep][y] = trees[e][ep][y]
    /\ trees'[e][ep][<<leaf, type>>].next =
          IF n < trees[e][ep][<<leaf, type>>].next THEN trees[e][ep][<<leaf, type>>].next ELSE n + 1
    /\ \A k \in Nat : k # n /\ Open(trees[e][ep], leaf, type, k) => Open(trees'[e][ep], leaf, type, k)

(* No ratchet goes back and no tree is deleted. *)
TreesGrow ==
    \A f \in Emulators : /\ DOMAIN trees[f] \subseteq DOMAIN trees'[f]
                         /\ \A x \in DOMAIN trees[f], y \in Cells :
                              trees[f][x][y].next <= trees'[f][x][y].next

(* The numbers of a stored ratchet. *)
LEMMA TreeTypes ==
    ASSUME TypeOK, NEW e \in Emulators, NEW ep \in DOMAIN trees[e]
    PROVE  /\ ep \in EmulationEpochs /\ trees[e][ep] \in Trees
           /\ \A y \in Cells : /\ trees[e][ep][y].next \in Nat
                               /\ trees[e][ep][y].retained \in SUBSET Nat
  <1>1. ep \in EmulationEpochs /\ trees[e][ep] \in Trees
    BY DEF TypeOK, TreesOK
  <1>2. \A y \in Cells : trees[e][ep][y] \in Ratchets
    BY <1>1 DEF Trees, Cells
  <1> QED BY <1>1, <1>2 DEF Ratchets

(* Storing a derived tree moves that one ratchet. *)
LEMMA StoreDerived ==
    ASSUME TypeOK, NEW e \in Emulators, NEW ep \in DOMAIN trees[e], NEW leaf \in Emulators,
           NEW type \in OperationTypes, NEW n \in Nat,
           StoreTree(e, ep, Derived(trees[e][ep], leaf, type, n))
    PROVE  Moves(e, ep, leaf, type, n)
  <1> DEFINE t == trees[e][ep]
             d == Derived(t, leaf, type, n)
             c == <<leaf, type>>
  <1>1. t \in Trees /\ c \in Cells /\ t[c].next \in Nat /\ ep \in EmulationEpochs
    BY TreeTypes DEF Cells
  <1>2. /\ d \in Trees
        /\ \A x \in Cells : x # c => d[x] = t[x]
        /\ n < t[c].next => d[c].next = t[c].next
        /\ n >= t[c].next => d[c].next = n + 1
        /\ \A k \in Nat : k # n /\ Open(t, leaf, type, k) => Open(d, leaf, type, k)
    BY <1>1, DerivedProperties DEF Cells
  <1> HIDE DEF d
  <1>3. /\ DOMAIN trees' = Emulators
        /\ \A f \in Emulators : f # e => trees'[f] = trees[f]
        /\ DOMAIN trees'[e] = DOMAIN trees[e] \union {ep}
        /\ \A x \in DOMAIN trees[e] : x # ep => trees'[e][x] = trees[e][x]
        /\ trees'[e][ep] = d
    BY StoreTreeProperties DEF d
  <1>4. \A f \in Emulators : DOMAIN trees'[f] = DOMAIN trees[f]
    BY <1>3
  <1>5. TreesOK'
    BY <1>1, <1>2, <1>3, <1>4 DEF TypeOK, TreesOK
  <1> QED BY <1>1, <1>2, <1>3, <1>4, <1>5 DEF Moves

(* What a move does to the heads and to what is open. *)
LEMMA MovesHeads ==
    ASSUME TypeOK, NEW e \in Emulators, NEW ep \in DOMAIN trees[e], NEW leaf \in Emulators,
           NEW type \in OperationTypes, NEW n \in Nat, Moves(e, ep, leaf, type, n)
    PROVE  /\ TreesGrow
           /\ \A f \in Emulators : \A x \in DOMAIN trees[f], y \in Cells :
                 f # e \/ x # ep \/ y # <<leaf, type>> => trees'[f][x][y] = trees[f][x][y]
           /\ \A f \in Emulators : \A x \in DOMAIN trees[f] :
                \A lf \in Emulators, ty \in OperationTypes, k \in Nat :
                  Open(trees[f][x], lf, ty, k) /\ ~ (f = e /\ x = ep /\ lf = leaf /\ ty = type /\ k = n)
                  => Open(trees'[f][x], lf, ty, k)
  <1> DEFINE c == <<leaf, type>>
  <1>1. c \in Cells
    BY DEF Cells
  <1>2. \A f \in Emulators : \A x \in DOMAIN trees[f], y \in Cells : trees[f][x][y].next \in Nat
    BY TreeTypes
  <1>3. \A f \in Emulators : \A x \in DOMAIN trees[f], y \in Cells :
                 f # e \/ x # ep \/ y # c => trees'[f][x][y] = trees[f][x][y]
    BY DEF Moves
  <1>4. trees[e][ep][c].next <= trees'[e][ep][c].next
    BY <1>1, <1>2 DEF Moves
  <1>5. TreesGrow
    BY <1>2, <1>3, <1>4 DEF TreesGrow, Moves
  <1>6. ASSUME NEW f \in Emulators, NEW x \in DOMAIN trees[f],
               NEW lf \in Emulators, NEW ty \in OperationTypes, NEW k \in Nat,
               Open(trees[f][x], lf, ty, k), ~ (f = e /\ x = ep /\ lf = leaf /\ ty = type /\ k = n)
        PROVE  Open(trees'[f][x], lf, ty, k)
    <2>1. CASE f # e \/ x # ep
      <3>1. trees'[f][x] = trees[f][x]
        BY <2>1 DEF Moves
      <3> QED BY <3>1, <1>6
    <2>2. CASE f = e /\ x = ep /\ (lf # leaf \/ ty # type)
      <3>1. <<lf, ty>> \in Cells /\ <<lf, ty>> # c
        BY <2>2 DEF Cells
      <3>2. trees'[f][x][<<lf, ty>>] = trees[f][x][<<lf, ty>>]
        BY <1>3, <3>1
      <3> QED BY <3>2, <1>6 DEF Open
    <2>3. CASE f = e /\ x = ep /\ lf = leaf /\ ty = type
      BY <2>3, <1>6 DEF Moves
    <2> QED BY <2>1, <2>2, <2>3
  <1> QED BY <1>3, <1>5, <1>6

(* Sent operations stay behind growing ratchets. *)
LEMMA SentKept ==
    ASSUME TypeOK, SentBehind, TreesGrow, TreesOK', UNCHANGED sent
    PROVE  SentBehind'
  <1> SUFFICES ASSUME NEW c \in DOMAIN sent'
               PROVE  /\ sent'[c] = 1 /\ c.ep \in DOMAIN trees'[c.leaf]
                      /\ c.generation < trees'[c.leaf][c.ep][<<c.leaf, c.type>>].next
    BY DEF SentBehind, NextOf
  <1>1. c \in OperationCoordinates /\ c \in DOMAIN sent
    BY DEF TypeOK, SentOK
  <1>2. c.leaf \in Emulators /\ <<c.leaf, c.type>> \in Cells /\ c.generation \in Int
    BY <1>1 DEF OperationCoordinates, Cells, Generations
  <1>3. /\ sent[c] = 1 /\ c.ep \in DOMAIN trees[c.leaf]
        /\ c.generation < trees[c.leaf][c.ep][<<c.leaf, c.type>>].next
    BY <1>1 DEF SentBehind, NextOf
  <1>4. c.ep \in DOMAIN trees'[c.leaf]
    BY <1>2, <1>3 DEF TreesGrow
  <1>5. trees[c.leaf][c.ep][<<c.leaf, c.type>>].next <= trees'[c.leaf][c.ep][<<c.leaf, c.type>>].next
    BY <1>2, <1>3 DEF TreesGrow
  <1>6. /\ trees[c.leaf][c.ep][<<c.leaf, c.type>>].next \in Nat
        /\ trees'[c.leaf][c.ep][<<c.leaf, c.type>>].next \in Nat
    BY <1>2, <1>3, <1>4 DEF TypeOK, TreesOK, Trees, Ratchets, Cells
  <1> QED BY <1>1, <1>2, <1>3, <1>4, <1>5, <1>6

(* One more operation leaves a client, behind the head of its ratchet. *)
LEMMA SentMore ==
    ASSUME TypeOK, SentBehind, TreesGrow, TreesOK', NEW c \in OperationCoordinates,
           c \notin DOMAIN sent, Leaves(c), c.ep \in DOMAIN trees'[c.leaf],
           c.generation < trees'[c.leaf][c.ep][<<c.leaf, c.type>>].next
    PROVE  SentBehind' /\ SentOK' /\ DOMAIN sent' = DOMAIN sent \union {c}
  <1>1. DOMAIN sent' = DOMAIN sent \union {c} /\ \A x \in DOMAIN sent' : sent'[x] = 1
    BY LeavesProperties DEF SentBehind
  <1>2. ASSUME NEW x \in DOMAIN sent'
        PROVE  /\ sent'[x] = 1 /\ x.ep \in DOMAIN trees'[x.leaf]
               /\ x.generation < trees'[x.leaf][x.ep][<<x.leaf, x.type>>].next
    <2>1. CASE x = c
      BY <2>1, <1>1
    <2>2. CASE x # c
      <3>1. x \in DOMAIN sent /\ x \in OperationCoordinates
        BY <1>1, <2>2 DEF TypeOK, SentOK
      <3>2. x.leaf \in Emulators /\ <<x.leaf, x.type>> \in Cells /\ x.generation \in Int
        BY <3>1 DEF OperationCoordinates, Cells, Generations
      <3>3. /\ x.ep \in DOMAIN trees[x.leaf]
            /\ x.generation < trees[x.leaf][x.ep][<<x.leaf, x.type>>].next
        BY <3>1 DEF SentBehind, NextOf
      <3>4. /\ x.ep \in DOMAIN trees'[x.leaf]
            /\ trees[x.leaf][x.ep][<<x.leaf, x.type>>].next <= trees'[x.leaf][x.ep][<<x.leaf, x.type>>].next
        BY <3>2, <3>3 DEF TreesGrow
      <3>5. /\ trees[x.leaf][x.ep][<<x.leaf, x.type>>].next \in Nat
            /\ trees'[x.leaf][x.ep][<<x.leaf, x.type>>].next \in Nat
        BY <3>2, <3>3, <3>4 DEF TypeOK, TreesOK, Trees, Ratchets, Cells
      <3> QED BY <1>1, <3>2, <3>3, <3>4, <3>5
    <2> QED BY <2>1, <2>2
  <1>3. SentOK'
    BY <1>1 DEF TypeOK, SentOK
  <1> QED BY <1>1, <1>2, <1>3 DEF SentBehind, NextOf

(* What is in memory is kept or dropped. *)
Dropped ==
    \A f \in Emulators : building'[f] \in {building[f], None} /\ batch'[f] \in {batch[f], None}

EpochsGrow == \A f \in Emulators : epochs[f] \subseteq epochs'[f]

(* A builder keeps its generation while its ratchet rests and nothing       *)
(* leaves under it.                                                         *)
LEMMA BuilderKept ==
    ASSUME TypeOK, NEW f \in Emulators, BuilderOwnsAt(f), building'[f] \in {building[f], None},
           EpochsGrow, TreesGrow,
           building'[f] # None =>
             LET b == building[f] IN
             /\ trees'[f][b.ep][<<f, "leaf_node">>].next = trees[f][b.ep][<<f, "leaf_node">>].next
             /\ Coordinates(b.ep, f, "leaf_node", b.generation) \notin DOMAIN sent'
    PROVE  BuilderOwnsAt(f)'
  <1>1. CASE building'[f] = None
    BY <1>1 DEF BuilderOwnsAt
  <1>2. CASE building'[f] # None
    <2> DEFINE b == building[f]
    <2>1. building'[f] = b /\ b # None
      BY <1>2
    <2>2. /\ b.ep \in epochs[f] /\ b.ep \in DOMAIN trees[f]
          /\ NextOf(f, b.ep, f, "leaf_node") = b.generation + 1
      BY <2>1 DEF BuilderOwnsAt
    <2>3. b.ep \in epochs'[f] /\ b.ep \in DOMAIN trees'[f]
      BY <2>2 DEF EpochsGrow, TreesGrow
    <2> HIDE DEF b
    <2> QED BY <2>1, <2>2, <2>3, <1>2 DEF BuilderOwnsAt, NextOf, b
  <1> QED BY <1>1, <1>2

(* An open batch stays what its tree would become while that tree rests. *)
LEMMA BatchKept ==
    ASSUME TypeOK, NEW f \in Emulators, BatchOwnsAt(f), batch'[f] \in {batch[f], None}, TreesGrow,
           batch'[f] # None => trees'[f][batch[f].ep] = trees[f][batch[f].ep]
    PROVE  BatchOwnsAt(f)'
  <1>1. CASE batch'[f] = None
    BY <1>1 DEF BatchOwnsAt
  <1>2. CASE batch'[f] # None
    <2> DEFINE b == batch[f]
    <2>1. batch'[f] = b /\ b # None
      BY <1>2
    <2>2. /\ b.ep \in DOMAIN trees[f] /\ b.generation = NextOf(f, b.ep, f, "key_package")
          /\ b.tree = Derived(trees[f][b.ep], f, "key_package", b.generation)
      BY <2>1 DEF BatchOwnsAt
    <2>3. b.ep \in DOMAIN trees'[f]
      BY <2>2 DEF TreesGrow
    <2> HIDE DEF b
    <2> QED BY <2>1, <2>2, <2>3, <1>2 DEF BatchOwnsAt, NextOf, b
  <1> QED BY <1>1, <1>2

(* Where builders and batches have what they own. *)
LEMMA OwnTypes ==
    ASSUME TypeOK, OwnInv, NEW f \in Emulators
    PROVE  /\ building[f] # None =>
                /\ building[f] \in Builders /\ building[f].ep \in DOMAIN trees[f]
                /\ Coordinates(building[f].ep, f, "leaf_node", building[f].generation)
                     \in OperationCoordinates \ DOMAIN sent
           /\ batch[f] # None =>
                /\ batch[f] \in Batches /\ batch[f].ep \in DOMAIN trees[f]
                /\ Coordinates(batch[f].ep, f, "key_package", batch[f].generation)
                     \in OperationCoordinates
  <1>1. building[f] \in Builders \union {None} /\ batch[f] \in Batches \union {None}
    BY DEF TypeOK, MemoryOK
  <1>2. BuilderOwnsAt(f) /\ BatchOwnsAt(f)
    BY DEF OwnInv, BuilderOwns, BatchOwns
  <1>3. building[f] # None => building[f].ep \in DOMAIN trees[f]
             /\ Coordinates(building[f].ep, f, "leaf_node", building[f].generation) \notin DOMAIN sent
    BY <1>2 DEF BuilderOwnsAt
  <1>4. batch[f] # None => batch[f].ep \in DOMAIN trees[f]
    BY <1>2 DEF BatchOwnsAt
  <1>5. building[f] \in Builders => Coordinates(building[f].ep, f, "leaf_node", building[f].generation)
                     \in OperationCoordinates
    BY DEF Builders, Coordinates, OperationCoordinates, OperationTypes
  <1>6. batch[f] \in Batches => Coordinates(batch[f].ep, f, "key_package", batch[f].generation)
                     \in OperationCoordinates
    BY DEF Batches, Coordinates, OperationCoordinates, OperationTypes
  <1> QED BY <1>1, <1>3, <1>4, <1>5, <1>6

(* Steps that leave trees and sent operations alone. *)
LEMMA OwnSame ==
    ASSUME TypeOK, OwnInv, UNCHANGED <<trees, sent>>, TreesExported', EpochsGrow, Dropped
    PROVE  OwnInv'
  <1>1. TreesGrow
    <2>1. \A f \in Emulators : \A x \in DOMAIN trees[f], y \in Cells : trees[f][x][y].next \in Nat
      BY TreeTypes
    <2> QED BY <2>1 DEF TreesGrow
  <1>2. TreesOK'
    BY DEF TypeOK, TreesOK
  <1>4. SentBehind'
    BY <1>1, <1>2, SentKept DEF OwnInv
  <1>5. \A f \in Emulators : BuilderOwnsAt(f)'
    <2> SUFFICES ASSUME NEW f \in Emulators PROVE BuilderOwnsAt(f)'
      OBVIOUS
    <2>1. BuilderOwnsAt(f) /\ building'[f] \in {building[f], None}
      BY DEF OwnInv, BuilderOwns, Dropped
    <2>2. building'[f] # None =>
            Coordinates(building[f].ep, f, "leaf_node", building[f].generation) \notin DOMAIN sent'
      BY <2>1, OwnTypes
    <2> QED BY <1>1, <2>1, <2>2, BuilderKept
  <1>6. \A f \in Emulators : BatchOwnsAt(f)'
    BY <1>1, BatchKept DEF OwnInv, BatchOwns, Dropped
  <1> QED BY <1>4, <1>5, <1>6 DEF OwnInv, BuilderOwns, BatchOwns

(* Another client's secret, or an own one that no commit under way has, is  *)
(* taken from a tree that no open batch holds.                              *)
LEMMA OwnMoves ==
    ASSUME TypeOK, OwnInv, UNCHANGED <<emulation, sent>>, EpochsGrow, Dropped,
           NEW e \in Emulators, NEW ep \in DOMAIN trees[e], NEW leaf \in Emulators,
           NEW type \in OperationTypes, NEW n \in Nat, Moves(e, ep, leaf, type, n),
           batch'[e] # None => batch[e].ep # ep,
           \/ building'[e] = None
           \/ leaf # e \/ type # "leaf_node"
           \/ n < trees[e][ep][<<leaf, type>>].next
    PROVE  OwnInv'
  <1> DEFINE c == <<leaf, type>>
  <1>1. /\ TreesGrow
        /\ \A f \in Emulators : \A x \in DOMAIN trees[f], y \in Cells :
              f # e \/ x # ep \/ y # c => trees'[f][x][y] = trees[f][x][y]
    BY MovesHeads
  <1>2. TreesOK' /\ \A f \in Emulators : DOMAIN trees'[f] = DOMAIN trees[f]
    BY DEF Moves
  <1>3. TreesExported'
    BY <1>2 DEF OwnInv, TreesExported
  <1>4. SentBehind'
    BY <1>1, <1>2, SentKept DEF OwnInv
  <1>5. \A f \in Emulators : BuilderOwnsAt(f)'
    <2> SUFFICES ASSUME NEW f \in Emulators PROVE BuilderOwnsAt(f)'
      OBVIOUS
    <2>1. BuilderOwnsAt(f) /\ building'[f] \in {building[f], None}
      BY DEF OwnInv, BuilderOwns, Dropped
    <2> DEFINE b == building[f]
    <2>2. ASSUME building'[f] # None
          PROVE  /\ trees'[f][b.ep][<<f, "leaf_node">>].next = trees[f][b.ep][<<f, "leaf_node">>].next
                 /\ Coordinates(b.ep, f, "leaf_node", b.generation) \notin DOMAIN sent'
      <3>1. b.ep \in DOMAIN trees[f] /\ <<f, "leaf_node">> \in Cells
            /\ Coordinates(b.ep, f, "leaf_node", b.generation) \notin DOMAIN sent
        BY <2>1, <2>2, OwnTypes DEF Cells, OperationTypes
      <3>2. CASE f = e /\ b.ep = ep /\ c = <<f, "leaf_node">>
        <4>1. leaf = e /\ type = "leaf_node"
          BY <3>2
        <4>2. n < trees[e][ep][c].next
          BY <4>1, <2>2, <3>2
        <4> QED BY <3>1, <3>2, <4>2 DEF Moves
      <3>3. CASE f # e \/ b.ep # ep \/ <<f, "leaf_node">> # c
        BY <1>1, <3>1, <3>3
      <3> QED BY <3>2, <3>3
    <2> QED BY <1>1, <2>1, <2>2, BuilderKept
  <1>6. \A f \in Emulators : BatchOwnsAt(f)'
    <2> SUFFICES ASSUME NEW f \in Emulators PROVE BatchOwnsAt(f)'
      OBVIOUS
    <2>1. BatchOwnsAt(f) /\ batch'[f] \in {batch[f], None}
      BY DEF OwnInv, BatchOwns, Dropped
    <2>2. batch'[f] # None => trees'[f][batch[f].ep] = trees[f][batch[f].ep]
      BY <2>1, OwnTypes DEF Moves
    <2> QED BY <1>1, <2>1, <2>2, BatchKept
  <1> QED BY <1>3, <1>4, <1>5, <1>6 DEF OwnInv, BuilderOwns, BatchOwns

(* A key package or a group of the own client leaves with the generation    *)
(* that is taken for it.                                                    *)
LEMMA OwnSends ==
    ASSUME TypeOK, OwnInv, UNCHANGED <<emulation, epochs>>, Dropped,
           NEW e \in Emulators, NEW ep \in DOMAIN trees[e], NEW n \in Generations,
           n = trees[e][ep][<<e, "key_package">>].next,
           Moves(e, ep, e, "key_package", n),
           Leaves(Coordinates(ep, e, "key_package", n)),
           batch'[e] # None => batch[e].ep # ep
    PROVE  /\ OwnInv' /\ SentOK' /\ Coordinates(ep, e, "key_package", n) \notin DOMAIN sent
           /\ DOMAIN sent' = DOMAIN sent \union {Coordinates(ep, e, "key_package", n)}
  <1> DEFINE c == <<e, "key_package">>
             s == Coordinates(ep, e, "key_package", n)
  <1>0. c \in Cells /\ "key_package" \in OperationTypes /\ n \in Nat /\ ep \in EmulationEpochs
    BY TreeTypes, Numbers DEF Cells, OperationTypes, Generations
  <1>1. /\ TreesGrow
        /\ \A f \in Emulators : \A x \in DOMAIN trees[f], y \in Cells :
              f # e \/ x # ep \/ y # c => trees'[f][x][y] = trees[f][x][y]
    BY <1>0, MovesHeads
  <1>2. TreesOK' /\ \A f \in Emulators : DOMAIN trees'[f] = DOMAIN trees[f]
    BY DEF Moves
  <1>3. TreesExported'
    BY <1>2 DEF OwnInv, TreesExported
  <1>4. /\ s \in OperationCoordinates /\ s.ep = ep /\ s.leaf = e /\ s.type = "key_package"
        /\ s.generation = n
    BY <1>0 DEF Coordinates, OperationCoordinates
  <1>5. s \notin DOMAIN sent
    <2> SUFFICES ASSUME s \in DOMAIN sent PROVE FALSE
      OBVIOUS
    <2>1. n < NextOf(e, ep, e, "key_package")
      BY <1>4 DEF OwnInv, SentBehind
    <2> QED BY <2>1, <1>0 DEF NextOf
  <1>6. trees'[e][ep][c].next = n + 1
    BY <1>0 DEF Moves
  <1>7. SentBehind' /\ SentOK' /\ DOMAIN sent' = DOMAIN sent \union {s}
    <2> HIDE DEF s
    <2>1. s.ep \in DOMAIN trees'[s.leaf] /\ s.generation < trees'[s.leaf][s.ep][<<s.leaf, s.type>>].next
      <3>1. n < trees'[e][ep][<<e, "key_package">>].next /\ ep \in DOMAIN trees'[e]
        BY <1>0, <1>2, <1>6
      <3> QED BY <3>1, <1>4
    <2>2. Leaves(s)
      BY DEF s
    <2> QED BY <1>1, <1>2, <1>4, <1>5, <2>1, <2>2, SentMore DEF OwnInv
  <1>8. EpochsGrow
    BY DEF EpochsGrow
  <1>9. \A f \in Emulators : BuilderOwnsAt(f)'
    <2> SUFFICES ASSUME NEW f \in Emulators PROVE BuilderOwnsAt(f)'
      OBVIOUS
    <2>1. BuilderOwnsAt(f) /\ building'[f] \in {building[f], None}
      BY DEF OwnInv, BuilderOwns, Dropped
    <2> DEFINE b == building[f]
               x == Coordinates(b.ep, f, "leaf_node", b.generation)
    <2>2. ASSUME building'[f] # None
          PROVE  /\ trees'[f][b.ep][<<f, "leaf_node">>].next = trees[f][b.ep][<<f, "leaf_node">>].next
                 /\ x \notin DOMAIN sent'
      <3>1. b.ep \in DOMAIN trees[f] /\ <<f, "leaf_node">> \in Cells /\ x \notin DOMAIN sent
        BY <2>1, <2>2, OwnTypes DEF Cells, OperationTypes
      <3>2. <<f, "leaf_node">> # c
        OBVIOUS
      <3>3. x.type # s.type
        BY <1>4 DEF Coordinates
      <3> QED BY <1>1, <1>7, <3>1, <3>2, <3>3
    <2> QED BY <1>1, <1>8, <2>1, <2>2, BuilderKept
  <1>10. \A f \in Emulators : BatchOwnsAt(f)'
    <2> SUFFICES ASSUME NEW f \in Emulators PROVE BatchOwnsAt(f)'
      OBVIOUS
    <2>1. BatchOwnsAt(f) /\ batch'[f] \in {batch[f], None}
      BY DEF OwnInv, BatchOwns, Dropped
    <2>2. batch'[f] # None => trees'[f][batch[f].ep] = trees[f][batch[f].ep]
      BY <2>1, OwnTypes DEF Moves
    <2> QED BY <1>1, <2>1, <2>2, BatchKept
  <1> QED BY <1>3, <1>5, <1>7, <1>9, <1>10 DEF OwnInv, BuilderOwns, BatchOwns

-----------------------------------------------------------------------------
(* Steps of the logs and of the groups                                      *)

LogGrows ==
    \A h \in Groups : /\ Len(log[h]) <= Len(log'[h])
                      /\ \A i \in 1..Len(log[h]) : log'[h][i] = log[h][i]

(* A log with one more entry has grown. *)
LEMMA AppendedGrows ==
    ASSUME TypeOK, NEW g \in Groups, NEW c, Appended(g, c)
    PROVE  LogGrows
  <1>1. \A h \in Groups : Len(log[h]) \in Nat
    BY LogTypes
  <1> QED BY <1>1 DEF Appended, LogGrows

(* The numbers of a stored group. *)
LEMMA GroupTypes ==
    ASSUME TypeOK, NEW e \in Emulators, NEW g \in Groups
    PROVE  LET m == members[e][g] IN
           /\ IsStoredGroup(m) /\ m.pos \in Nat /\ m.since \in Nat /\ m.bindings \in Seq(Bindings)
           /\ Seen(e, g) \in Nat
  BY DEF TypeOK, GroupsOK, IsStoredGroup, Seen

(* A position stays where it is in a growing log. *)
LEMMA PositionKept ==
    ASSUME TypeOK, NEW e \in Emulators, NEW g \in Groups, PositionAt(e, g),
           LogsOK', LogGrows, EpochsGrow, members'[e][g] = members[e][g]
    PROVE  PositionAt(e, g)'
  <1> DEFINE m == members[e][g]
  <1>1. m.pos \in Nat /\ m.since \in Nat /\ Seen(e, g) \in Nat
    BY GroupTypes
  <1>2. Len(log[g]) \in Nat /\ Len(log'[g]) \in Nat /\ Len(log[g]) <= Len(log'[g])
    <2>1. log'[g] \in Seq(Entries(g))
      BY DEF LogsOK
    <2> QED BY <2>1, LogTypes, LenProperties DEF LogGrows
  <1>3. Seen(e, g)' = Seen(e, g)
    BY DEF Seen
  <1>4. Seen(e, g)' <= Len(log'[g])
    BY <1>1, <1>2, <1>3 DEF PositionAt
  <1>5. ASSUME m.pos = 0, m.since > 0 PROVE log'[g][m.since].kind = "remove"
    <2>1. m.since \in 1..Len(log[g]) /\ log[g][m.since].kind = "remove"
      BY <1>1, <1>2, <1>5 DEF PositionAt, Seen
    <2> QED BY <2>1 DEF LogGrows
  <1>6. ASSUME m.pending # None
        PROVE  /\ m.pos \in 1..(Len(log'[g]) - 1) /\ log'[g][m.pos + 1] = m.pending
               /\ m.pending.kind = "commit" /\ m.pending.info.epoch_id \in epochs'[e]
    <2>1. /\ m.pos \in 1..(Len(log[g]) - 1) /\ log[g][m.pos + 1] = m.pending
          /\ m.pending.kind = "commit" /\ m.pending.info.epoch_id \in epochs[e]
      BY <1>6 DEF PositionAt
    <2>2. m.pos + 1 \in 1..Len(log[g]) /\ m.pos \in 1..(Len(log'[g]) - 1)
      BY <1>2, <2>1
    <2>3. log'[g][m.pos + 1] = log[g][m.pos + 1]
      BY <2>2 DEF LogGrows
    <2> QED BY <2>1, <2>2, <2>3 DEF EpochsGrow
  <1>7. m.pos > 0 => m.since \in 1..m.pos
    BY DEF PositionAt
  <1> QED BY <1>4, <1>5, <1>6, <1>7 DEF PositionAt

(* No own commit is left behind while others' entries come in. *)
LEMMA OwnBehindKept ==
    ASSUME TypeOK, NEW e \in Emulators, NEW g \in Groups, OwnBehindAt(e, g),
           LogsOK', LogGrows, members'[e][g] = members[e][g],
           \A i \in Len(log[g]) + 1..Len(log'[g]) :
              ~ (IsLeaf(log'[g][i]) /\ log'[g][i].info.tbe.leaf = e)
    PROVE  OwnBehindAt(e, g)'
  <1>1. Len(log[g]) \in Nat
    BY LogTypes
  <1>2. Seen(e, g)' = Seen(e, g)
    BY DEF Seen
  <1> SUFFICES ASSUME NEW i \in 1..Len(log'[g]), IsLeaf(log'[g][i]), log'[g][i].info.tbe.leaf = e,
                      i > Seen(e, g)
               PROVE  members[e][g].pending # None /\ i = members[e][g].pos + 1
    BY <1>2 DEF OwnBehindAt, IsLeaf
  <1>3. Len(log'[g]) \in Nat
    <2>1. log'[g] \in Seq(Entries(g))
      BY DEF LogsOK
    <2> QED BY <2>1, LenProperties
  <1>4. i \in 1..Len(log[g])
    BY <1>1, <1>3
  <1>5. log'[g][i] = log[g][i]
    BY <1>4 DEF LogGrows
  <1> QED BY <1>4, <1>5 DEF OwnBehindAt

(* What is staged stays next while its group rests. *)
LEMMA StagedKept ==
    ASSUME TypeOK, NEW e \in Emulators, StagedNextAt(e), LogsOK', LogGrows, EpochsGrow,
           staged'[e] \in {staged[e], None}, building'[e] \in {building[e], None},
           staged'[e] # None => members'[e][staged[e].group] = members[e][staged[e].group]
    PROVE  StagedNextAt(e)'
  <1> SUFFICES ASSUME staged'[e] # None PROVE StagedNextAt(e)'
    BY DEF StagedNextAt
  <1> DEFINE s == staged[e]
             g == s.group
             m == members[e][g]
  <1>1. staged'[e] = s /\ s # None /\ IsStaged(s)
    BY DEF TypeOK, StagedOK
  <1>2. g \in Groups /\ s.pos \in Nat
    BY <1>1 DEF IsStaged
  <1>3. s.pos \in 1..Len(log[g])
    BY <1>1 DEF StagedNextAt
  <1>4. log'[g][s.pos] = log[g][s.pos]
    BY <1>2, <1>3 DEF LogGrows
  <1>5. s.pos \in 1..Len(log'[g])
    <2>1. log'[g] \in Seq(Entries(g)) /\ Len(log[g]) <= Len(log'[g])
      BY <1>2 DEF LogsOK, LogGrows
    <2>2. Len(log'[g]) \in Nat /\ Len(log[g]) \in Nat
      BY <1>2, <2>1, LenProperties, LogTypes
    <2> QED BY <1>2, <1>3, <2>1, <2>2
  <1>6. /\ s.kind = "commit" => /\ m.pos > 0 /\ s.pos = m.pos + 1 /\ IsLeaf(log[g][s.pos])
                                /\ s.ep = log[g][s.pos].info.epoch_id /\ s.ep \in epochs'[e]
        /\ s.kind = "welcome" => m.pos = 0 /\ s.pos > m.since /\ log[g][s.pos].kind = "add"
        /\ building'[e] # None => building'[e].group # g
    BY <1>1 DEF StagedNextAt, EpochsGrow
  <1>7. members'[e][g] = m
    BY <1>1
  <1> HIDE DEF s, g, m
  <1>8. staged'[e].group = g
    BY <1>1 DEF g
  <1> QED BY <1>1, <1>4, <1>5, <1>6, <1>7, <1>8 DEF StagedNextAt, IsLeaf

(* A builder fits its group while that rests. *)
LEMMA FitsKept ==
    ASSUME NEW e \in Emulators, BuilderFitsAt(e), building'[e] \in {building[e], None},
           building'[e] # None => members'[e][building[e].group] = members[e][building[e].group]
    PROVE  BuilderFitsAt(e)'
  BY DEF BuilderFitsAt

(* Steps of the others, crashes, and steps of one's own outside the groups. *)
LEMMA PlacesRest ==
    ASSUME TypeOK, PlacesInv, LogsOK', LogGrows, EpochsGrow, UNCHANGED members,
           \A f \in Emulators : staged'[f] \in {staged[f], None} /\ building'[f] \in {building[f], None},
           \A h \in Groups : \A i \in Len(log[h]) + 1..Len(log'[h]) : ~ IsLeaf(log'[h][i])
    PROVE  PlacesInv'
  <1>1. \A f \in Emulators, h \in Groups : PositionAt(f, h)'
    BY PositionKept DEF PlacesInv, Positions
  <1>2. \A f \in Emulators, h \in Groups : OwnBehindAt(f, h)'
    BY OwnBehindKept DEF PlacesInv, OwnBehind
  <1>3. \A f \in Emulators : StagedNextAt(f)'
    BY StagedKept DEF PlacesInv, StagedNext
  <1>4. \A f \in Emulators : BuilderFitsAt(f)'
    BY FitsKept DEF PlacesInv, BuilderFits
  <1> QED BY <1>1, <1>2, <1>3, <1>4 DEF PlacesInv, Positions, OwnBehind, StagedNext, BuilderFits

(* What one emulator begins or stages. *)
LEMMA PlacesMemory ==
    ASSUME TypeOK, PlacesInv, UNCHANGED <<members, log, epochs, uploads>>, NEW e \in Emulators,
           \A f \in Emulators : f # e => staged'[f] = staged[f] /\ building'[f] = building[f],
           StagedNextAt(e)', BuilderFitsAt(e)'
    PROVE  PlacesInv'
  <1>0. LogsOK' /\ LogGrows /\ EpochsGrow
    <2>1. \A h \in Groups : Len(log[h]) \in Nat
      BY LogTypes
    <2> QED BY <2>1 DEF TypeOK, LogsOK, LogGrows, EpochsGrow
  <1>1. \A f \in Emulators, h \in Groups : PositionAt(f, h)'
    BY <1>0, PositionKept DEF PlacesInv, Positions
  <1>2. \A f \in Emulators, h \in Groups : OwnBehindAt(f, h)'
    <2>1. \A h \in Groups : \A i \in Len(log[h]) + 1..Len(log'[h]) : FALSE
      <3>1. \A h \in Groups : Len(log[h]) \in Nat
        BY LogTypes
      <3> QED BY <3>1
    <2> QED BY <1>0, <2>1, OwnBehindKept DEF PlacesInv, OwnBehind
  <1>3. \A f \in Emulators : StagedNextAt(f)'
    BY <1>0, StagedKept DEF PlacesInv, StagedNext
  <1>4. \A f \in Emulators : BuilderFitsAt(f)'
    BY FitsKept DEF PlacesInv, BuilderFits
  <1> QED BY <1>1, <1>2, <1>3, <1>4 DEF PlacesInv, Positions, OwnBehind, StagedNext, BuilderFits

(* A group of one emulator moves, and its log may get an entry of its own.  *)
LEMMA PlacesMember ==
    ASSUME TypeOK, PlacesInv, LogsOK', LogGrows, EpochsGrow, NEW e \in Emulators, NEW g \in Groups,
           \A f \in Emulators, h \in Groups : f # e \/ h # g => members'[f][h] = members[f][h],
           \A f \in Emulators, h \in Groups : f # e \/ h # g =>
              \A i \in Len(log[h]) + 1..Len(log'[h]) :
                 ~ (IsLeaf(log'[h][i]) /\ log'[h][i].info.tbe.leaf = f),
           PositionAt(e, g)', OwnBehindAt(e, g)',
           \A f \in Emulators : staged'[f] \in {staged[f], None} /\ building'[f] \in {building[f], None},
           staged'[e] # None => staged[e].group # g,
           building'[e] # None => building[e].group # g
    PROVE  PlacesInv'
  <1>1. \A f \in Emulators, h \in Groups : PositionAt(f, h)'
    BY PositionKept DEF PlacesInv, Positions
  <1>2. \A f \in Emulators, h \in Groups : OwnBehindAt(f, h)'
    BY OwnBehindKept DEF PlacesInv, OwnBehind
  <1>3. \A f \in Emulators : StagedNextAt(f)'
    <2> SUFFICES ASSUME NEW f \in Emulators PROVE StagedNextAt(f)'
      OBVIOUS
    <2>1. staged[f] # None => staged[f].group \in Groups
      BY DEF TypeOK, StagedOK, IsStaged
    <2>2. staged'[f] # None => members'[f][staged[f].group] = members[f][staged[f].group]
      BY <2>1
    <2> QED BY <2>2, StagedKept DEF PlacesInv, StagedNext
  <1>4. \A f \in Emulators : BuilderFitsAt(f)'
    <2> SUFFICES ASSUME NEW f \in Emulators PROVE BuilderFitsAt(f)'
      OBVIOUS
    <2>1. building[f] # None => building[f].group \in Groups
      BY DEF TypeOK, MemoryOK, Builders
    <2>2. building'[f] # None => members'[f][building[f].group] = members[f][building[f].group]
      BY <2>1
    <2> QED BY <2>2, FitsKept DEF PlacesInv, BuilderFits
  <1> QED BY <1>1, <1>2, <1>3, <1>4 DEF PlacesInv, Positions, OwnBehind, StagedNext, BuilderFits

(* A member merges the next entry of its log. *)
LEMMA MergedPlace ==
    ASSUME TypeOK, PlacesInv, NEW e \in Emulators, NEW g \in Groups, UNCHANGED log,
           members[e][g].pos \in 1..(Len(log[g]) - 1),
           members'[e][g].pos = members[e][g].pos + 1,
           members'[e][g].since = members[e][g].since, members'[e][g].pending = None
    PROVE  PositionAt(e, g)' /\ OwnBehindAt(e, g)'
  <1>1. /\ members[e][g].pos \in Nat /\ members[e][g].since \in Nat /\ Len(log[g]) \in Nat
        /\ PositionAt(e, g) /\ OwnBehindAt(e, g)
    BY GroupTypes, LogTypes DEF PlacesInv, Positions, OwnBehind
  <1>2. Seen(e, g) = members[e][g].pos /\ Seen(e, g)' = members[e][g].pos + 1
    BY <1>1 DEF Seen
  <1>3. PositionAt(e, g)'
    BY <1>1, <1>2 DEF PositionAt
  <1>4. OwnBehindAt(e, g)'
    BY <1>1, <1>2 DEF OwnBehindAt, IsLeaf
  <1> QED BY <1>3, <1>4

(* A client joins at an entry behind those it has seen. *)
LEMMA JoinedPlace ==
    ASSUME TypeOK, PlacesInv, NEW e \in Emulators, NEW g \in Groups, UNCHANGED log,
           members[e][g].pos = 0, NEW n \in 1..Len(log[g]), n > members[e][g].since,
           members'[e][g].pos = n, members'[e][g].since = n, members'[e][g].pending = None
    PROVE  PositionAt(e, g)' /\ OwnBehindAt(e, g)'
  <1>1. /\ members[e][g].since \in Nat /\ Len(log[g]) \in Nat
        /\ PositionAt(e, g) /\ OwnBehindAt(e, g)
    BY GroupTypes, LogTypes DEF PlacesInv, Positions, OwnBehind
  <1>2. Seen(e, g) = members[e][g].since /\ Seen(e, g)' = n /\ members[e][g].pending = None
    BY <1>1 DEF Seen, PositionAt
  <1>3. PositionAt(e, g)'
    BY <1>1, <1>2 DEF PositionAt
  <1>4. OwnBehindAt(e, g)'
    BY <1>1, <1>2 DEF OwnBehindAt, IsLeaf
  <1> QED BY <1>3, <1>4

-----------------------------------------------------------------------------
(* Steps of what siblings have to follow                                    *)

(* Types of what an entry or an upload was sent under. *)
LEMMA EntryTypes ==
    ASSUME TypeOK, NEW g \in Groups, NEW i \in 1..Len(log[g]),
           IsLeaf(log[g][i]) \/ log[g][i].kind = "create"
    PROVE  LET c == log[g][i] IN
           /\ c.info.epoch_id \in EmulationEpochs /\ c.info.tbe.leaf \in Emulators
           /\ c.info.tbe.generation \in Generations /\ c.info.tbe.generation \in Nat
  <1>1. log[g][i] \in Entries(g)
    BY LogTypes
  <1>2. Installs(log[g][i])
    BY DEF Installs, IsLeaf
  <1>3. \A n \in Generations : n \in Nat
    BY DEF Generations
  <1> QED BY <1>1, <1>2, <1>3, EntryFields

(* The uploads by their numbers. *)
LEMMA UploadTypes ==
    ASSUME TypeOK
    PROVE  /\ uploads \in Seq(Uploads) /\ Len(uploads) \in Nat /\ DOMAIN uploads = 1..Len(uploads)
           /\ \A u \in 1..Len(uploads) :
                /\ uploads[u] \in Uploads /\ uploads[u].ep \in EmulationEpochs
                /\ uploads[u].leaf \in Emulators /\ uploads[u].generation \in Generations
                /\ uploads[u].generation \in Nat
  <1>1. uploads \in Seq(Uploads)
    BY DEF TypeOK, LogsOK
  <1>2. \A u \in 1..Len(uploads) : uploads[u] \in Uploads
    BY <1>1, ElementOfSeq
  <1>3. \A n \in Generations : n \in Nat
    BY DEF Generations
  <1>4. \A up \in Uploads : up.ep \in EmulationEpochs /\ up.leaf \in Emulators /\ up.generation \in Generations
    BY DEF Uploads
  <1> QED BY <1>1, <1>2, <1>3, <1>4, LenProperties

(* Nothing new is in a log or an upload. *)
LEMMA SentSame ==
    ASSUME AllSent, SecretsDiffer, UNCHANGED <<log, uploads>>, DOMAIN sent \subseteq DOMAIN sent'
    PROVE  AllSent' /\ SecretsDiffer'
  <1>1. AllSent'
    BY DEF AllSent, IsLeaf, LeafCoordinates, CreationCoordinates, UploadCoordinates, Coordinates
  <1>2. /\ \A g, h \in Groups : \A i \in 1..Len(log'[g]), j \in 1..Len(log'[h]) :
             IsLeaf(log'[g][i]) /\ IsLeaf(log'[h][j])
                /\ LeafCoordinates(log'[g][i]) = LeafCoordinates(log'[h][j]) => g = h /\ i = j
        /\ \A u, v \in 1..Len(uploads') :
             UploadCoordinates(uploads'[u]) = UploadCoordinates(uploads'[v]) => u = v
        /\ \A g \in Groups : \A i \in 1..Len(log'[g]), u \in 1..Len(uploads') :
             log'[g][i].kind = "create" => CreationCoordinates(log'[g][i]) # UploadCoordinates(uploads'[u])
    BY DEF SecretsDiffer
  <1>3. SecretsDiffer'
    BY <1>2 DEF SecretsDiffer, IsLeaf, LeafCoordinates, CreationCoordinates, UploadCoordinates, Coordinates
  <1> QED BY <1>1, <1>3

(* A new entry has a secret of its own, or none. *)
LEMMA SentEntry ==
    ASSUME TypeOK, AllSent, SecretsDiffer, NEW g \in Groups, NEW c, Appended(g, c), UNCHANGED uploads,
           DOMAIN sent \subseteq DOMAIN sent',
           IsLeaf(c) => LeafCoordinates(c) \in DOMAIN sent' \ DOMAIN sent,
           c.kind = "create" => CreationCoordinates(c) \in DOMAIN sent' \ DOMAIN sent
    PROVE  AllSent' /\ SecretsDiffer'
  <1> DEFINE n == Len(log[g]) + 1
  <1>1. /\ \A h \in Groups : Len(log[h]) \in Nat
        /\ log'[g][n] = c /\ Len(log'[g]) = n
        /\ \A h \in Groups : h # g => log'[h] = log[h]
        /\ \A i \in 1..Len(log[g]) : log'[g][i] = log[g][i]
    BY LogTypes DEF Appended
  <1>2. \A h \in Groups : \A i \in 1..Len(log'[h]) :
           \/ h = g /\ i = n /\ log'[h][i] = c
           \/ i \in 1..Len(log[h]) /\ log'[h][i] = log[h][i]
    BY <1>1
  <1>3. /\ \A h \in Groups : \A i \in 1..Len(log'[h]) :
             /\ IsLeaf(log'[h][i]) => LeafCoordinates(log'[h][i]) \in DOMAIN sent'
             /\ log'[h][i].kind = "create" => CreationCoordinates(log'[h][i]) \in DOMAIN sent'
        /\ \A u \in 1..Len(uploads') : UploadCoordinates(uploads'[u]) \in DOMAIN sent'
    BY <1>2 DEF AllSent
  <1>4. AllSent'
    BY <1>3 DEF AllSent, IsLeaf, LeafCoordinates, CreationCoordinates, UploadCoordinates, Coordinates
  <1>5. ASSUME NEW h \in Groups, NEW k \in Groups, NEW i \in 1..Len(log'[h]), NEW j \in 1..Len(log'[k]),
               IsLeaf(log'[h][i]), IsLeaf(log'[k][j]),
               LeafCoordinates(log'[h][i]) = LeafCoordinates(log'[k][j])
        PROVE  h = k /\ i = j
    <2>1. CASE h = g /\ i = n /\ k = g /\ j = n
      BY <2>1
    <2>2. CASE i \in 1..Len(log[h]) /\ j \in 1..Len(log[k])
               /\ log'[h][i] = log[h][i] /\ log'[k][j] = log[k][j]
      BY <2>2, <1>5 DEF SecretsDiffer
    <2>3. CASE h = g /\ i = n /\ log'[h][i] = c /\ j \in 1..Len(log[k]) /\ log'[k][j] = log[k][j]
      BY <2>3, <1>5 DEF AllSent
    <2>4. CASE k = g /\ j = n /\ log'[k][j] = c /\ i \in 1..Len(log[h]) /\ log'[h][i] = log[h][i]
      BY <2>4, <1>5 DEF AllSent
    <2> QED BY <1>2, <2>1, <2>2, <2>3, <2>4
  <1>6. ASSUME NEW h \in Groups, NEW i \in 1..Len(log'[h]), NEW u \in 1..Len(uploads),
               log'[h][i].kind = "create", CreationCoordinates(log'[h][i]) = UploadCoordinates(uploads[u])
        PROVE  FALSE
    <2>1. CASE log'[h][i] = c
      BY <2>1, <1>6 DEF AllSent
    <2>2. CASE i \in 1..Len(log[h]) /\ log'[h][i] = log[h][i]
      BY <2>2, <1>6 DEF SecretsDiffer
    <2> QED BY <1>2, <2>1, <2>2
  <1>7. \A u, v \in 1..Len(uploads) :
           UploadCoordinates(uploads[u]) = UploadCoordinates(uploads[v]) => u = v
    BY DEF SecretsDiffer
  <1>8. SecretsDiffer'
    <2>1. \A h, k \in Groups : \A i \in 1..Len(log'[h]), j \in 1..Len(log'[k]) :
             IsLeaf(log'[h][i]) /\ IsLeaf(log'[k][j])
                /\ LeafCoordinates(log'[h][i]) = LeafCoordinates(log'[k][j]) => h = k /\ i = j
      BY <1>5
    <2>2. \A h \in Groups : \A i \in 1..Len(log'[h]), u \in 1..Len(uploads') :
             log'[h][i].kind = "create" => CreationCoordinates(log'[h][i]) # UploadCoordinates(uploads'[u])
      BY <1>6
    <2>3. \A u, v \in 1..Len(uploads') :
             UploadCoordinates(uploads'[u]) = UploadCoordinates(uploads'[v]) => u = v
      BY <1>7
    <2> QED BY <2>1, <2>2, <2>3
         DEF SecretsDiffer, IsLeaf, LeafCoordinates, CreationCoordinates, UploadCoordinates, Coordinates
  <1> QED BY <1>4, <1>8

(* The uploads with one more. *)
Uploaded(up) ==
    /\ uploads' \in Seq(Uploads) /\ Len(uploads') = Len(uploads) + 1
    /\ uploads'[Len(uploads) + 1] = up
    /\ \A u \in 1..Len(uploads) : uploads'[u] = uploads[u]

(* A new upload has a secret of its own. *)
LEMMA SentUpload ==
    ASSUME TypeOK, AllSent, SecretsDiffer, NEW up, Uploaded(up), UNCHANGED log,
           DOMAIN sent \subseteq DOMAIN sent', UploadCoordinates(up) \in DOMAIN sent' \ DOMAIN sent
    PROVE  AllSent' /\ SecretsDiffer'
  <1> DEFINE n == Len(uploads) + 1
  <1>1. \A u \in 1..Len(uploads') : \/ u = n /\ uploads'[u] = up
                                    \/ u \in 1..Len(uploads) /\ uploads'[u] = uploads[u]
    BY UploadTypes DEF Uploaded
  <1>2. /\ \A h \in Groups : \A i \in 1..Len(log'[h]) :
             /\ IsLeaf(log'[h][i]) => LeafCoordinates(log'[h][i]) \in DOMAIN sent'
             /\ log'[h][i].kind = "create" => CreationCoordinates(log'[h][i]) \in DOMAIN sent'
        /\ \A u \in 1..Len(uploads') : UploadCoordinates(uploads'[u]) \in DOMAIN sent'
    BY <1>1 DEF AllSent
  <1>3. AllSent'
    BY <1>2 DEF AllSent, IsLeaf, LeafCoordinates, CreationCoordinates, UploadCoordinates, Coordinates
  <1>4. \A u, v \in 1..Len(uploads') :
             UploadCoordinates(uploads'[u]) = UploadCoordinates(uploads'[v]) => u = v
    <2> SUFFICES ASSUME NEW u \in 1..Len(uploads'), NEW v \in 1..Len(uploads'),
                        UploadCoordinates(uploads'[u]) = UploadCoordinates(uploads'[v])
                 PROVE  u = v
      OBVIOUS
    <2>1. CASE u = n /\ v = n
      BY <2>1
    <2>2. CASE u \in 1..Len(uploads) /\ v \in 1..Len(uploads)
      BY <2>2, <1>1 DEF SecretsDiffer, Uploaded
    <2>3. CASE u = n /\ uploads'[u] = up /\ v \in 1..Len(uploads) /\ uploads'[v] = uploads[v]
      BY <2>3 DEF AllSent
    <2>4. CASE v = n /\ uploads'[v] = up /\ u \in 1..Len(uploads) /\ uploads'[u] = uploads[u]
      BY <2>4 DEF AllSent
    <2> QED BY <1>1, <2>1, <2>2, <2>3, <2>4
  <1>5. ASSUME NEW h \in Groups, NEW i \in 1..Len(log[h]), NEW u \in 1..Len(uploads'),
               log[h][i].kind = "create", CreationCoordinates(log[h][i]) = UploadCoordinates(uploads'[u])
        PROVE  FALSE
    <2>1. CASE uploads'[u] = up
      BY <2>1, <1>5 DEF AllSent
    <2>2. CASE u \in 1..Len(uploads) /\ uploads'[u] = uploads[u]
      BY <2>2, <1>5 DEF SecretsDiffer
    <2> QED BY <1>1, <2>1, <2>2
  <1>6. \A h, k \in Groups : \A i \in 1..Len(log[h]), j \in 1..Len(log[k]) :
             IsLeaf(log[h][i]) /\ IsLeaf(log[k][j])
                /\ LeafCoordinates(log[h][i]) = LeafCoordinates(log[k][j]) => h = k /\ i = j
    BY DEF SecretsDiffer
  <1>7. SecretsDiffer'
    <2>1. \A h, k \in Groups : \A i \in 1..Len(log'[h]), j \in 1..Len(log'[k]) :
             IsLeaf(log'[h][i]) /\ IsLeaf(log'[k][j])
                /\ LeafCoordinates(log'[h][i]) = LeafCoordinates(log'[k][j]) => h = k /\ i = j
      BY <1>6
    <2>2. \A h \in Groups : \A i \in 1..Len(log'[h]), u \in 1..Len(uploads') :
             log'[h][i].kind = "create" => CreationCoordinates(log'[h][i]) # UploadCoordinates(uploads'[u])
      BY <1>5
    <2> QED BY <2>1, <2>2, <1>4
         DEF SecretsDiffer, IsLeaf, LeafCoordinates, CreationCoordinates, UploadCoordinates, Coordinates
  <1> QED BY <1>3, <1>7

(* Heads of siblings' ratchets move to what was sent. *)
LEMMA HeadsSame ==
    ASSUME HeadsSent, UNCHANGED trees, DOMAIN sent \subseteq DOMAIN sent'
    PROVE  HeadsSent'
  BY DEF HeadsSent, NextOf, Coordinates

(* A sibling's ratchet moved to a generation that was sent. *)
LEMMA HeadsMove ==
    ASSUME TypeOK, HeadsSent, DOMAIN sent \subseteq DOMAIN sent',
           NEW e \in Emulators, NEW ep \in DOMAIN trees[e], NEW leaf \in Emulators,
           NEW type \in OperationTypes, NEW n \in Nat, Moves(e, ep, leaf, type, n),
           leaf = e \/ Coordinates(ep, leaf, type, n) \in DOMAIN sent'
    PROVE  HeadsSent'
  <1> DEFINE c == <<leaf, type>>
  <1> SUFFICES ASSUME NEW f \in Emulators, NEW l \in Emulators, NEW x \in DOMAIN trees'[f],
                      NEW ty \in OperationTypes, f # l, trees'[f][x][<<l, ty>>].next > 0
               PROVE  Coordinates(x, l, ty, trees'[f][x][<<l, ty>>].next - 1) \in DOMAIN sent'
    BY DEF HeadsSent, NextOf, Coordinates
  <1>1. x \in DOMAIN trees[f] /\ <<l, ty>> \in Cells /\ c \in Cells
    BY DEF Moves, Cells
  <1>2. trees[f][x][<<l, ty>>].next \in Nat
    BY <1>1, TreeTypes
  <1>3. trees[f][x][<<l, ty>>].next > 0
          => Coordinates(x, l, ty, trees[f][x][<<l, ty>>].next - 1) \in DOMAIN sent
    BY <1>1 DEF HeadsSent, NextOf
  <1>4. CASE f # e \/ x # ep \/ <<l, ty>> # c
    <2>1. trees'[f][x][<<l, ty>>] = trees[f][x][<<l, ty>>]
      BY <1>1, <1>4, MovesHeads
    <2> QED BY <1>3, <2>1
  <1>5. CASE f = e /\ x = ep /\ <<l, ty>> = c
    <2>1. l = leaf /\ ty = type /\ leaf # e
      BY <1>5
    <2>2. trees'[f][x][<<l, ty>>].next = IF n < trees[f][x][<<l, ty>>].next
                                         THEN trees[f][x][<<l, ty>>].next ELSE n + 1
      BY <1>5 DEF Moves
    <2>3. CASE n < trees[f][x][<<l, ty>>].next
      BY <2>2, <2>3, <1>3
    <2>4. CASE ~ (n < trees[f][x][<<l, ty>>].next)
      <3>1. trees'[f][x][<<l, ty>>].next - 1 = n
        BY <2>2, <2>4
      <3> QED BY <3>1, <2>1, <1>5
    <2> QED BY <2>3, <2>4
  <1> QED BY <1>4, <1>5

(* A generation that no sibling's ratchet has reached is open to all. *)
LEMMA AheadOpen ==
    ASSUME TypeOK, HeadsSent, NEW e \in Emulators, NEW f \in Emulators, e # f,
           NEW ep \in DOMAIN trees[f], NEW type \in OperationTypes, NEW n \in Nat,
           \A k \in Nat : Coordinates(ep, e, type, k) \in DOMAIN sent => k < n
    PROVE  Open(trees[f][ep], e, type, n)
  <1> DEFINE next == trees[f][ep][<<e, type>>].next
  <1>1. next \in Nat
    BY TreeTypes DEF Cells
  <1>2. next > 0 => Coordinates(ep, e, type, next - 1) \in DOMAIN sent
    BY DEF HeadsSent, NextOf
  <1>3. next > 0 => next - 1 < n
    BY <1>1, <1>2
  <1>4. ~ (n < next)
    BY <1>1, <1>3
  <1> QED BY <1>4 DEF Open

ConsumedGrows ==
    \A f \in Emulators, h \in Groups : \A i \in 1..Len(log[h]) : Consumed(f, h, i) => Consumed(f, h, i)'

(* Nothing that was consumed becomes new: the groups move on, and what is   *)
(* staged is merged or lost.                                                *)
LEMMA ConsumedKept ==
    ASSUME TypeOK,
           \A f \in Emulators, h \in Groups : Seen(f, h) <= Seen(f, h)',
           \A f \in Emulators, h \in Groups : Seen(f, h)' \in Nat,
           \A f \in Emulators : lost[f] \subseteq lost'[f],
           \A f \in Emulators : \/ staged[f] = None
                                \/ staged'[f] = staged[f]
                                \/ <<staged[f].group, staged[f].pos>> \in lost'[f]
                                \/ \A h \in Groups : staged[f].group = h => staged[f].pos <= Seen(f, h)'
    PROVE  ConsumedGrows
  <1> SUFFICES ASSUME NEW f \in Emulators, NEW h \in Groups, NEW i \in 1..Len(log[h]), Consumed(f, h, i)
               PROVE  Consumed(f, h, i)'
    BY DEF ConsumedGrows
  <1>1. Seen(f, h) \in Nat /\ Seen(f, h) <= Seen(f, h)' /\ Seen(f, h)' \in Nat /\ Len(log[h]) \in Nat
    BY GroupTypes, LogTypes
  <1>2. CASE i <= Seen(f, h)
    <2>1. i <= Seen(f, h)'
      BY <1>1, <1>2
    <2> QED BY <2>1 DEF Consumed
  <1>3. CASE <<h, i>> \in lost[f]
    BY <1>3 DEF Consumed
  <1>4. CASE staged[f] # None /\ staged[f].group = h /\ staged[f].pos = i
    <2>1. CASE staged'[f] = staged[f]
      BY <1>4, <2>1 DEF Consumed
    <2>2. CASE <<staged[f].group, staged[f].pos>> \in lost'[f]
      BY <1>4, <2>2 DEF Consumed
    <2>3. CASE \A k \in Groups : staged[f].group = k => staged[f].pos <= Seen(f, k)'
      <3>1. i <= Seen(f, h)'
        BY <1>4, <2>3
      <3> QED BY <3>1 DEF Consumed
    <2> QED BY <1>4, <2>1, <2>2, <2>3
  <1> QED BY <1>2, <1>3, <1>4 DEF Consumed

(* Whatever could be derived still can be. *)
OpensAll ==
    \A f \in Emulators : \A x \in DOMAIN trees'[f] : \A l \in Emulators, ty \in OperationTypes, k \in Nat :
       f # l /\ (x \in DOMAIN trees[f] => Open(trees[f][x], l, ty, k)) => Open(trees'[f][x], l, ty, k)

(* The same, but for one generation of a sibling. *)
OpensBut(e, ep, leaf, type, n) ==
    \A f \in Emulators : \A x \in DOMAIN trees'[f] : \A l \in Emulators, ty \in OperationTypes, k \in Nat :
       /\ f # l /\ (x \in DOMAIN trees[f] => Open(trees[f][x], l, ty, k))
       /\ ~ (f = e /\ x = ep /\ l = leaf /\ ty = type /\ k = n)
       => Open(trees'[f][x], l, ty, k)

(* A derivation closes only its own generation; at the own leaf, none that a sibling sent. *)
LEMMA MovesOpens ==
    ASSUME TypeOK, NEW e \in Emulators, NEW ep \in DOMAIN trees[e], NEW leaf \in Emulators,
           NEW type \in OperationTypes, NEW n \in Nat, Moves(e, ep, leaf, type, n)
    PROVE  OpensBut(e, ep, leaf, type, n) /\ (leaf = e => OpensAll)
  <1>1. \A f \in Emulators : DOMAIN trees'[f] = DOMAIN trees[f]
    BY DEF Moves
  <1>2. OpensBut(e, ep, leaf, type, n)
    BY <1>1, MovesHeads DEF OpensBut
  <1>3. leaf = e => OpensAll
    BY <1>2 DEF OpensBut, OpensAll
  <1> QED BY <1>2, <1>3

(* Without a derivation nothing closes. *)
LEMMA SameOpens ==
    ASSUME UNCHANGED trees
    PROVE  OpensAll
  BY DEF OpensAll

(* Commits stay open, and new ones are. *)
LEMMA CommitsKept ==
    ASSUME TypeOK, CommitsOpen, OpensAll, ConsumedGrows, LogGrows, LogsOK',
           \A f \in Emulators, h \in Groups : \A i \in Len(log[h]) + 1..Len(log'[h]) :
             LET c == log'[h][i] IN
             IsLeaf(c) /\ c.info.tbe.leaf # f /\ c.info.epoch_id \in DOMAIN trees'[f]
             => Open(trees'[f][c.info.epoch_id], c.info.tbe.leaf, "leaf_node", c.info.tbe.generation)
    PROVE  CommitsOpen'
  <1> SUFFICES ASSUME NEW f \in Emulators, NEW h \in Groups, NEW i \in 1..Len(log'[h]),
                      IsLeaf(log'[h][i]), log'[h][i].info.tbe.leaf # f,
                      log'[h][i].info.epoch_id \in DOMAIN trees'[f], ~ Consumed(f, h, i)'
               PROVE  Open(trees'[f][log'[h][i].info.epoch_id], log'[h][i].info.tbe.leaf, "leaf_node",
                           log'[h][i].info.tbe.generation)
    BY ZenonT(60) DEF CommitsOpen, Open, IsLeaf
  <1> DEFINE c == log'[h][i]
  <1>1. Len(log[h]) \in Nat /\ Len(log'[h]) \in Nat
    <2>1. log'[h] \in Seq(Entries(h))
      BY DEF LogsOK
    <2> QED BY <2>1, LogTypes, LenProperties
  <1>2. CASE i \in 1..Len(log[h])
    <2>1. c = log[h][i] /\ ~ Consumed(f, h, i)
      BY <1>2 DEF LogGrows, ConsumedGrows
    <2>2. c.info.tbe.leaf \in Emulators /\ c.info.tbe.generation \in Nat
      BY <1>2, <2>1, EntryTypes
    <2>3. c.info.epoch_id \in DOMAIN trees[f] =>
            Open(trees[f][c.info.epoch_id], c.info.tbe.leaf, "leaf_node", c.info.tbe.generation)
      BY <1>2, <2>1 DEF CommitsOpen
    <2> HIDE DEF c
    <2>4. "leaf_node" \in OperationTypes
      BY DEF OperationTypes
    <2> QED BY <2>2, <2>3, <2>4 DEF OpensAll, c
  <1>3. CASE i \in Len(log[h]) + 1..Len(log'[h])
    BY <1>3
  <1> QED BY <1>1, <1>2, <1>3

(* A sibling's commit is consumed, and no other. *)
LEMMA CommitsMove ==
    ASSUME TypeOK, CommitsOpen, SecretsDiffer, ConsumedGrows, UNCHANGED log,
           NEW e \in Emulators, NEW ep, NEW leaf, NEW n,
           OpensBut(e, ep, leaf, "leaf_node", n),
           NEW g \in Groups, NEW j \in 1..Len(log[g]), IsLeaf(log[g][j]), Consumed(e, g, j)',
           LeafCoordinates(log[g][j]) = Coordinates(ep, leaf, "leaf_node", n)
    PROVE  CommitsOpen'
  <1> SUFFICES ASSUME NEW f \in Emulators, NEW h \in Groups, NEW i \in 1..Len(log'[h]),
                      IsLeaf(log'[h][i]), log'[h][i].info.tbe.leaf # f,
                      log'[h][i].info.epoch_id \in DOMAIN trees'[f], ~ Consumed(f, h, i)'
               PROVE  Open(trees'[f][log'[h][i].info.epoch_id], log'[h][i].info.tbe.leaf, "leaf_node",
                           log'[h][i].info.tbe.generation)
    BY ZenonT(60) DEF CommitsOpen, Open, IsLeaf
  <1> DEFINE c == log[h][i]
  <1>1. ~ Consumed(f, h, i)
    BY DEF ConsumedGrows
  <1>2. c.info.tbe.leaf \in Emulators /\ c.info.tbe.generation \in Nat
    BY EntryTypes
  <1>3. c.info.epoch_id \in DOMAIN trees[f] =>
            Open(trees[f][c.info.epoch_id], c.info.tbe.leaf, "leaf_node", c.info.tbe.generation)
    BY <1>1 DEF CommitsOpen
  <1>4. ~ (f = e /\ c.info.epoch_id = ep /\ c.info.tbe.leaf = leaf /\ c.info.tbe.generation = n)
    <2> SUFFICES ASSUME f = e, c.info.epoch_id = ep, c.info.tbe.leaf = leaf, c.info.tbe.generation = n
                 PROVE  FALSE
      OBVIOUS
    <2>1. LeafCoordinates(c) = LeafCoordinates(log[g][j])
      BY DEF LeafCoordinates
    <2>2. h = g /\ i = j
      BY <2>1 DEF SecretsDiffer
    <2> QED BY <2>2
  <1> HIDE DEF c
  <1>5. "leaf_node" \in OperationTypes
    BY DEF OperationTypes
  <1> QED BY <1>2, <1>3, <1>4, <1>5 DEF OpensBut, c

(* The type of a secret taken decides what it can close. *)
LEMMA OtherTypeOpens ==
    ASSUME NEW e, NEW ep, NEW leaf, NEW n, NEW type \in OperationTypes, NEW other \in OperationTypes,
           type # other, OpensBut(e, ep, leaf, type, n)
    PROVE  \A f \in Emulators : \A x \in DOMAIN trees'[f] : \A l \in Emulators, k \in Nat :
             f # l /\ (x \in DOMAIN trees[f] => Open(trees[f][x], l, other, k))
             => Open(trees'[f][x], l, other, k)
  BY DEF OpensBut

(* A key package's secret closes no commit. *)
LEMMA CommitsOther ==
    ASSUME TypeOK, CommitsOpen, ConsumedGrows, UNCHANGED log,
           NEW e, NEW ep, NEW leaf, NEW n, OpensBut(e, ep, leaf, "key_package", n)
    PROVE  CommitsOpen'
  <1> SUFFICES ASSUME NEW f \in Emulators, NEW h \in Groups, NEW i \in 1..Len(log'[h]),
                      IsLeaf(log'[h][i]), log'[h][i].info.tbe.leaf # f,
                      log'[h][i].info.epoch_id \in DOMAIN trees'[f], ~ Consumed(f, h, i)'
               PROVE  Open(trees'[f][log'[h][i].info.epoch_id], log'[h][i].info.tbe.leaf, "leaf_node",
                           log'[h][i].info.tbe.generation)
    BY ZenonT(60) DEF CommitsOpen, Open, IsLeaf
  <1> DEFINE c == log[h][i]
  <1>1. ~ Consumed(f, h, i)
    BY DEF ConsumedGrows
  <1>2. c.info.tbe.leaf \in Emulators /\ c.info.tbe.generation \in Nat
    BY EntryTypes
  <1>3. c.info.epoch_id \in DOMAIN trees[f] =>
            Open(trees[f][c.info.epoch_id], c.info.tbe.leaf, "leaf_node", c.info.tbe.generation)
    BY <1>1 DEF CommitsOpen
  <1> HIDE DEF c
  <1>4. "leaf_node" \in OperationTypes /\ "key_package" \in OperationTypes
    BY DEF OperationTypes
  <1>5. \A f_1 \in Emulators : \A x \in DOMAIN trees'[f_1] : \A l \in Emulators, k \in Nat :
             f_1 # l /\ (x \in DOMAIN trees[f_1] => Open(trees[f_1][x], l, "leaf_node", k))
             => Open(trees'[f_1][x], l, "leaf_node", k)
    BY <1>4, OtherTypeOpens
  <1> QED BY <1>2, <1>3, <1>5 DEF c

(* Uploads stay open, and new ones are. *)
LEMMA UploadsKept ==
    ASSUME TypeOK, UploadsOpen, \A f \in Emulators : handled[f] \subseteq handled'[f],
           \A f \in Emulators : \A x \in DOMAIN trees'[f] : \A l \in Emulators, k \in Nat :
             f # l /\ (x \in DOMAIN trees[f] => Open(trees[f][x], l, "key_package", k))
             => Open(trees'[f][x], l, "key_package", k),
           Len(uploads') \in Nat, \A u \in 1..Len(uploads) : uploads'[u] = uploads[u],
           \A f \in Emulators : \A u \in Len(uploads) + 1..Len(uploads') :
             uploads'[u].leaf # f /\ uploads'[u].ep \in DOMAIN trees'[f]
             => Open(trees'[f][uploads'[u].ep], uploads'[u].leaf, "key_package", uploads'[u].generation)
    PROVE  UploadsOpen'
  <1> SUFFICES ASSUME NEW f \in Emulators, NEW u \in 1..Len(uploads'), uploads'[u].leaf # f,
                      uploads'[u].ep \in DOMAIN trees'[f], u \notin handled'[f]
               PROVE  Open(trees'[f][uploads'[u].ep], uploads'[u].leaf, "key_package",
                           uploads'[u].generation)
    BY DEF UploadsOpen, Open
  <1>1. Len(uploads) \in Nat
    BY UploadTypes
  <1>2. CASE u \in 1..Len(uploads)
    <2> DEFINE up == uploads[u]
    <2>1. uploads'[u] = up /\ up.leaf \in Emulators /\ up.generation \in Nat
      BY <1>2, UploadTypes
    <2>2. up.ep \in DOMAIN trees[f] => Open(trees[f][up.ep], up.leaf, "key_package", up.generation)
      BY <1>2, <2>1 DEF UploadsOpen
    <2> HIDE DEF up
    <2> QED BY <2>1, <2>2
  <1>3. CASE u \in Len(uploads) + 1..Len(uploads')
    BY <1>3
  <1> QED BY <1>1, <1>2, <1>3

(* A sibling's upload is processed, or the group it created is joined.      *)
LEMMA UploadsMove ==
    ASSUME TypeOK, UploadsOpen, UNCHANGED uploads,
           \A f \in Emulators : handled[f] \subseteq handled'[f],
           NEW e \in Emulators, NEW ep, NEW leaf, NEW n, OpensBut(e, ep, leaf, "key_package", n),
           \A u \in 1..Len(uploads) :
              UploadCoordinates(uploads[u]) = Coordinates(ep, leaf, "key_package", n)
              => u \in handled'[e]
    PROVE  UploadsOpen'
  <1> SUFFICES ASSUME NEW f \in Emulators, NEW u \in 1..Len(uploads), uploads[u].leaf # f,
                      uploads[u].ep \in DOMAIN trees'[f], u \notin handled'[f]
               PROVE  Open(trees'[f][uploads[u].ep], uploads[u].leaf, "key_package",
                           uploads[u].generation)
    BY DEF UploadsOpen, Open
  <1> DEFINE up == uploads[u]
  <1>1. up.leaf \in Emulators /\ up.generation \in Nat
    BY UploadTypes
  <1>2. up.ep \in DOMAIN trees[f] => Open(trees[f][up.ep], up.leaf, "key_package", up.generation)
    BY DEF UploadsOpen
  <1>3. ~ (f = e /\ up.ep = ep /\ up.leaf = leaf /\ up.generation = n)
    BY DEF UploadCoordinates
  <1> HIDE DEF up
  <1>4. "key_package" \in OperationTypes
    BY DEF OperationTypes
  <1> QED BY <1>1, <1>2, <1>3, <1>4 DEF OpensBut, up

-----------------------------------------------------------------------------
(* Steps of the key packages                                                *)

UploadsGrow ==
    Len(uploads) <= Len(uploads') /\ \A u \in 1..Len(uploads) : uploads'[u] = uploads[u]

(* The Welcome for a key package was taken. *)
Taken(e, u, index) ==
    \E g \in Groups : \E i \in 1..Len(log[g]) :
       log[g][i].kind = "add" /\ log[g][i].package = <<u, index>> /\ Consumed(e, g, i)

(* The lengths of the logs after a step. *)
LEMMA LogLengths ==
    ASSUME TypeOK, LogsOK', NEW g \in Groups
    PROVE  Len(log[g]) \in Nat /\ Len(log'[g]) \in Nat
  <1>1. log'[g] \in Seq(Entries(g))
    BY DEF LogsOK
  <1> QED BY <1>1, LogTypes, LenProperties

(* Added key packages still come from uploads. *)
LEMMA AddsKept ==
    ASSUME TypeOK, AddsFromUploads, LogsOK', LogGrows, UploadsGrow,
           \A h \in Groups : \A i \in Len(log[h]) + 1..Len(log'[h]) :
              log'[h][i].kind = "add" =>
                LET c == log'[h][i] IN
                /\ c.package[1] \in 1..Len(uploads) /\ c.package = <<c.package[1], c.package[2]>>
                /\ c = PackageEntry("add", uploads[c.package[1]], c.package[2], c.package)
                /\ c.package[2] \in 0..(BatchSize - 1)
    PROVE  AddsFromUploads'
  <1> SUFFICES ASSUME NEW h \in Groups, NEW i \in 1..Len(log'[h]), log'[h][i].kind = "add"
               PROVE  LET c == log'[h][i] IN
                      /\ c.package[1] \in 1..Len(uploads') /\ c.package = <<c.package[1], c.package[2]>>
                      /\ c = PackageEntry("add", uploads'[c.package[1]], c.package[2], c.package)
                      /\ c.package[2] \in 0..(BatchSize - 1)
    BY DEF AddsFromUploads, PackageEntry
  <1> DEFINE c == log'[h][i]
  <1>1. Len(log[h]) \in Nat /\ Len(log'[h]) \in Nat
    BY LogLengths
  <1>2. /\ c.package[1] \in 1..Len(uploads) /\ c.package = <<c.package[1], c.package[2]>>
        /\ c = PackageEntry("add", uploads[c.package[1]], c.package[2], c.package)
        /\ c.package[2] \in 0..(BatchSize - 1)
    <2>1. CASE i \in 1..Len(log[h])
      <3>1. c = log[h][i]
        BY <2>1 DEF LogGrows
      <3> HIDE DEF c
      <3> QED BY <2>1, <3>1 DEF AddsFromUploads, c
    <2>2. CASE i \in Len(log[h]) + 1..Len(log'[h])
      BY <2>2
    <2> QED BY <1>1, <2>1, <2>2
  <1> HIDE DEF c
  <1>3. uploads'[c.package[1]] = uploads[c.package[1]]
    BY <1>2 DEF UploadsGrow
  <1>4. c.package[1] \in 1..Len(uploads')
    <2>1. Len(uploads) \in Nat /\ uploads' \in Seq(Uploads)
      BY UploadTypes DEF LogsOK
    <2>2. Len(uploads') \in Nat
      BY <2>1, LenProperties
    <2> QED BY <1>2, <2>1, <2>2 DEF UploadsGrow
  <1> QED BY <1>2, <1>3, <1>4 DEF c

(* A key package is added once. *)
LEMMA OnceKept ==
    ASSUME TypeOK, PackagesOnce, LogsOK', LogGrows,
           \A h \in Groups : \A i \in Len(log[h]) + 1..Len(log'[h]) : log'[h][i].kind # "add"
    PROVE  PackagesOnce'
  <1> SUFFICES ASSUME NEW g \in Groups, NEW h \in Groups, NEW i \in 1..Len(log'[g]),
                      NEW j \in 1..Len(log'[h]), log'[g][i].kind = "add", log'[h][j].kind = "add",
                      log'[g][i].package = log'[h][j].package
               PROVE  g = h /\ i = j
    BY DEF PackagesOnce
  <1>1. ASSUME NEW k \in Groups, NEW x \in 1..Len(log'[k]), log'[k][x].kind = "add"
        PROVE  x \in 1..Len(log[k]) /\ log'[k][x] = log[k][x]
    <2>1. Len(log[k]) \in Nat /\ Len(log'[k]) \in Nat
      BY LogLengths
    <2>2. ~ (x \in Len(log[k]) + 1..Len(log'[k]))
      BY <1>1
    <2>3. x \in 1..Len(log[k])
      BY <2>1, <2>2
    <2> QED BY <2>3 DEF LogGrows
  <1>2. i \in 1..Len(log[g]) /\ log'[g][i] = log[g][i]
    BY <1>1
  <1>3. j \in 1..Len(log[h]) /\ log'[h][j] = log[h][j]
    BY <1>1
  <1> QED BY <1>2, <1>3 DEF PackagesOnce

(* A Welcome that was taken stays taken. *)
LEMMA TakenKept ==
    ASSUME TypeOK, LogsOK', LogGrows, ConsumedGrows, NEW f \in Emulators, NEW u, NEW index,
           Taken(f, u, index)
    PROVE  Taken(f, u, index)'
  <1>0. PICK g \in Groups : \E i \in 1..Len(log[g]) :
           log[g][i].kind = "add" /\ log[g][i].package = <<u, index>> /\ Consumed(f, g, i)
    BY DEF Taken
  <1>1. PICK i \in 1..Len(log[g]) :
           log[g][i].kind = "add" /\ log[g][i].package = <<u, index>> /\ Consumed(f, g, i)
    BY <1>0
  <1>2. Len(log[g]) \in Nat /\ Len(log'[g]) \in Nat /\ Len(log[g]) <= Len(log'[g])
    BY LogLengths DEF LogGrows
  <1>3. i \in 1..Len(log'[g]) /\ log'[g][i] = log[g][i] /\ Consumed(f, g, i)'
    BY <1>1, <1>2 DEF LogGrows, ConsumedGrows
  <1> QED BY <1>1, <1>3 DEF Taken

(* Material is kept, or its Welcome is taken. *)
LEMMA MaterialKept ==
    ASSUME TypeOK, PackagesKept, LogsOK', LogGrows, ConsumedGrows,
           \A f \in Emulators : \A u \in 1..Len(uploads'), index \in 0..(BatchSize - 1) :
              uploads'[u].leaf = f \/ u \in handled'[f] =>
                \/ <<u, index>> \in packages'[f] \/ Taken(f, u, index)'
                \/ /\ u \in 1..Len(uploads) /\ (uploads[u].leaf = f \/ u \in handled[f])
                   /\ <<u, index>> \notin packages[f]
    PROVE  PackagesKept'
  <1> SUFFICES ASSUME NEW f \in Emulators, NEW u \in 1..Len(uploads'), NEW index \in 0..(BatchSize - 1),
                      uploads'[u].leaf = f \/ u \in handled'[f]
               PROVE  <<u, index>> \in packages'[f] \/ Taken(f, u, index)'
    BY DEF PackagesKept, Taken
  <1>1. ASSUME u \in 1..Len(uploads), uploads[u].leaf = f \/ u \in handled[f], <<u, index>> \notin packages[f]
        PROVE  Taken(f, u, index)
    BY <1>1 DEF PackagesKept, Taken
  <1> QED BY <1>1, TakenKept

(* Steps that leave key packages alone. *)
LEMMA WelcomeRest ==
    ASSUME TypeOK, WelcomeInv, LogsOK', LogGrows, ConsumedGrows, EpochsGrow,
           UNCHANGED <<packages, handled, uploads>>,
           \A h \in Groups : \A i \in Len(log[h]) + 1..Len(log'[h]) : log'[h][i].kind # "add"
    PROVE  WelcomeInv'
  <1>1. UploadsGrow
    BY UploadTypes DEF UploadsGrow
  <1>2. AddsFromUploads'
    BY <1>1, AddsKept DEF WelcomeInv
  <1>3. PackagesOnce'
    BY OnceKept DEF WelcomeInv
  <1>4. HandledStored'
    BY DEF WelcomeInv, HandledStored, EpochsGrow
  <1>5. PackagesKept'
    BY MaterialKept DEF WelcomeInv
  <1> QED BY <1>2, <1>3, <1>4, <1>5 DEF WelcomeInv

(* A member adds the virtual client with a key package nobody used. *)
LEMMA WelcomeAdded ==
    ASSUME TypeOK, WelcomeInv, LogsOK', ConsumedGrows, UNCHANGED <<epochs, packages, handled, uploads>>,
           NEW g \in Groups, NEW u \in 1..Len(uploads), NEW index \in 0..(BatchSize - 1),
           ~ Used(<<u, index>>),
           Appended(g, PackageEntry("add", uploads[u], index, <<u, index>>))
    PROVE  WelcomeInv'
  <1> DEFINE c == PackageEntry("add", uploads[u], index, <<u, index>>)
             n == Len(log[g]) + 1
  <1>1. LogGrows /\ UploadsGrow
    BY AppendedGrows, UploadTypes DEF UploadsGrow
  <1>2. \A h \in Groups : Len(log[h]) \in Nat /\ DOMAIN log[h] = 1..Len(log[h])
    BY LogTypes
  <1>3. c.kind = "add" /\ c.package = <<u, index>> /\ c.package[1] = u /\ c.package[2] = index
    BY DEF PackageEntry, Entry
  <1>4. \A h \in Groups : \A i \in 1..Len(log'[h]) :
           \/ h = g /\ i = n /\ log'[h][i] = c
           \/ i \in 1..Len(log[h]) /\ log'[h][i] = log[h][i]
    BY <1>2, SMTT(60) DEF Appended
  <1> HIDE DEF c
  <1>5. AddsFromUploads'
    <2>1. ASSUME NEW h \in Groups, NEW i \in Len(log[h]) + 1..Len(log'[h]) PROVE log'[h][i] = c
      BY <1>2, <1>4, <2>1
    <2>2. /\ c.package[1] \in 1..Len(uploads) /\ c.package = <<c.package[1], c.package[2]>>
          /\ c = PackageEntry("add", uploads[c.package[1]], c.package[2], c.package)
          /\ c.package[2] \in 0..(BatchSize - 1)
      BY <1>3 DEF c
    <2> QED BY <1>1, <2>1, <2>2, AddsKept DEF WelcomeInv
  <1>6. PackagesOnce'
    <2>1. \A h \in Groups : \A i \in 1..Len(log[h]) : log[h][i].package # <<u, index>>
      BY <1>2 DEF Used
    <2> SUFFICES ASSUME NEW h \in Groups, NEW k \in Groups, NEW i \in 1..Len(log'[h]),
                        NEW j \in 1..Len(log'[k]), log'[h][i].kind = "add", log'[k][j].kind = "add",
                        log'[h][i].package = log'[k][j].package
                 PROVE  h = k /\ i = j
      BY DEF PackagesOnce
    <2>2. CASE h = g /\ i = n /\ k = g /\ j = n
      BY <2>2
    <2>3. CASE i \in 1..Len(log[h]) /\ log'[h][i] = log[h][i] /\ j \in 1..Len(log[k]) /\ log'[k][j] = log[k][j]
      BY <2>3 DEF WelcomeInv, PackagesOnce
    <2>4. CASE log'[h][i] = c /\ j \in 1..Len(log[k]) /\ log'[k][j] = log[k][j]
      BY <2>1, <2>4, <1>3
    <2>5. CASE log'[k][j] = c /\ i \in 1..Len(log[h]) /\ log'[h][i] = log[h][i]
      BY <2>1, <2>5, <1>3
    <2> QED BY <1>4, <2>2, <2>3, <2>4, <2>5
  <1>7. HandledStored'
    BY DEF WelcomeInv, HandledStored
  <1>8. PackagesKept'
    BY <1>1, MaterialKept DEF WelcomeInv
  <1> QED BY <1>5, <1>6, <1>7, <1>8 DEF WelcomeInv

(* New material is stored with the upload, or when the upload is processed. *)
LEMMA WelcomeStored ==
    ASSUME TypeOK, WelcomeInv, LogsOK', ConsumedGrows, UNCHANGED <<epochs, log>>, UploadsGrow,
           \A f \in Emulators : packages[f] \subseteq packages'[f],
           \A f \in Emulators : \A u \in handled'[f] \ handled[f] :
              u \in 1..Len(uploads') /\ uploads'[u].ep \in epochs[f] /\ Batch(u) \subseteq packages'[f],
           \A f \in Emulators : \A u \in Len(uploads) + 1..Len(uploads') :
              uploads'[u].leaf = f => Batch(u) \subseteq packages'[f]
    PROVE  WelcomeInv'
  <1>1. LogGrows
    BY LogTypes DEF LogGrows
  <1>2. Len(uploads) \in Nat /\ Len(uploads') \in Nat
    <2>1. uploads' \in Seq(Uploads)
      BY DEF LogsOK
    <2> QED BY <2>1, UploadTypes, LenProperties
  <1>3. \A h \in Groups : \A i \in Len(log[h]) + 1..Len(log'[h]) : FALSE
    BY LogTypes
  <1>4. AddsFromUploads'
    BY <1>1, <1>3, AddsKept DEF WelcomeInv
  <1>5. PackagesOnce'
    BY <1>1, <1>3, OnceKept DEF WelcomeInv
  <1>6. HandledStored'
    <2> SUFFICES ASSUME NEW f \in Emulators, NEW u \in handled'[f]
                 PROVE  u \in 1..Len(uploads') /\ uploads'[u].ep \in epochs'[f]
      BY DEF HandledStored
    <2>1. CASE u \in handled[f]
      <3>1. u \in 1..Len(uploads) /\ uploads[u].ep \in epochs[f]
        BY <2>1 DEF WelcomeInv, HandledStored
      <3> QED BY <3>1, <1>2 DEF UploadsGrow
    <2>2. CASE u \notin handled[f]
      BY <2>2
    <2> QED BY <2>1, <2>2
  <1>7. PackagesKept'
    <2>1. ASSUME NEW f \in Emulators, NEW u \in 1..Len(uploads'), NEW index \in 0..(BatchSize - 1),
                 uploads'[u].leaf = f \/ u \in handled'[f]
          PROVE  \/ <<u, index>> \in packages'[f]
                 \/ /\ u \in 1..Len(uploads) /\ (uploads[u].leaf = f \/ u \in handled[f])
                    /\ <<u, index>> \notin packages[f]
      <3>1. <<u, index>> \in Batch(u)
        BY DEF Batch
      <3>2. CASE u \in handled'[f] \ handled[f]
        BY <3>1, <3>2
      <3>3. CASE uploads'[u].leaf = f /\ u \in Len(uploads) + 1..Len(uploads')
        BY <3>1, <3>3
      <3>4. CASE uploads'[u].leaf = f /\ u \in 1..Len(uploads)
        BY <3>4 DEF UploadsGrow
      <3>5. CASE u \in handled[f]
        <4>1. u \in 1..Len(uploads)
          BY <3>5 DEF WelcomeInv, HandledStored
        <4> QED BY <4>1, <3>5
      <3> QED BY <2>1, <3>2, <3>3, <3>4, <3>5, <1>2
    <2> QED BY <1>1, <2>1, MaterialKept DEF WelcomeInv
  <1> QED BY <1>4, <1>5, <1>6, <1>7 DEF WelcomeInv

(* The material of a Welcome is deleted when the Welcome is taken. *)
LEMMA WelcomeTaken ==
    ASSUME TypeOK, WelcomeInv, LogsOK', ConsumedGrows, UNCHANGED <<epochs, log, uploads, handled>>,
           NEW e \in Emulators, NEW g \in Groups, NEW i \in 1..Len(log[g]), log[g][i].kind = "add",
           packages' = [packages EXCEPT ![e] = @ \ {log[g][i].package}],
           Consumed(e, g, i)'
    PROVE  WelcomeInv'
  <1>1. LogGrows /\ UploadsGrow
    BY LogTypes, UploadTypes DEF LogGrows, UploadsGrow
  <1>3. \A h \in Groups : \A j \in Len(log[h]) + 1..Len(log'[h]) : FALSE
    BY LogTypes
  <1>4. AddsFromUploads'
    BY <1>1, <1>3, AddsKept DEF WelcomeInv
  <1>5. PackagesOnce'
    BY <1>1, <1>3, OnceKept DEF WelcomeInv
  <1>6. HandledStored'
    BY DEF WelcomeInv, HandledStored
  <1>7. PackagesKept'
    <2>1. ASSUME NEW f \in Emulators, NEW u, NEW index, <<u, index>> \in packages[f],
                 <<u, index>> \notin packages'[f]
          PROVE  Taken(f, u, index)'
      <3>1. f = e /\ log[g][i].package = <<u, index>>
        BY <2>1 DEF TypeOK, StateOK
      <3>2. log'[g][i].kind = "add" /\ log'[g][i].package = <<u, index>> /\ i \in 1..Len(log'[g])
        BY <3>1
      <3> QED BY <3>1, <3>2 DEF Taken
    <2> QED BY <1>1, <2>1, MaterialKept DEF WelcomeInv
  <1> QED BY <1>4, <1>5, <1>6, <1>7 DEF WelcomeInv

-----------------------------------------------------------------------------
(* Steps of the bindings                                                    *)

(* The last leaf in the first entries of a log, and its emulation epoch.    *)
LastOf(l, n) == Max({0} \union {i \in 1..n : Installs(l[i]) \/ l[i].kind = "remove"})
EpochOf(l, n) == LET c == l[LastOf(l, n)] IN IF c.kind = "add" THEN 0 ELSE c.info.epoch_id

(* The last leaf is an entry that installed or removed one. *)
LEMMA LastOfProperties ==
    ASSUME NEW l, NEW n \in Nat
    PROVE  /\ LastOf(l, n) \in 0..n
           /\ LastOf(l, n) > 0 => Installs(l[LastOf(l, n)]) \/ l[LastOf(l, n)].kind = "remove"
           /\ \A i \in 1..n : Installs(l[i]) \/ l[i].kind = "remove" => i <= LastOf(l, n)
  <1> DEFINE S == {0} \union {i \in 1..n : Installs(l[i]) \/ l[i].kind = "remove"}
  <1>1. S \in SUBSET (0..n) /\ S # {}
    OBVIOUS
  <1>2. \A i \in S : i = 0 \/ (i \in 1..n /\ (Installs(l[i]) \/ l[i].kind = "remove"))
    OBVIOUS
  <1>3. \A i \in 1..n : Installs(l[i]) \/ l[i].kind = "remove" => i \in S
    OBVIOUS
  <1>4. LastOf(l, n) = Max(S)
    BY DEF LastOf
  <1> HIDE DEF S
  <1>5. Max(S) \in S /\ \A j \in S : j <= Max(S)
    BY <1>1, MaxProperties
  <1>6. LastOf(l, n) \in S /\ \A j \in S : j <= LastOf(l, n)
    BY <1>4, <1>5
  <1>7. LastOf(l, n) \in 0..n
    BY <1>1, <1>6
  <1>8. LastOf(l, n) > 0 => Installs(l[LastOf(l, n)]) \/ l[LastOf(l, n)].kind = "remove"
    BY <1>2, <1>6, <1>7
  <1>9. \A i \in 1..n : Installs(l[i]) \/ l[i].kind = "remove" => i <= LastOf(l, n)
    BY <1>3, <1>6
  <1> QED BY <1>7, <1>8, <1>9

(* It depends on those entries only. *)
LEMMA LastOfSame ==
    ASSUME NEW l, NEW k, NEW n \in Nat, \A i \in 1..n : l[i] = k[i]
    PROVE  LastOf(l, n) = LastOf(k, n)
  <1>1. {i \in 1..n : Installs(l[i]) \/ l[i].kind = "remove"}
          = {i \in 1..n : Installs(k[i]) \/ k[i].kind = "remove"}
    OBVIOUS
  <1> QED BY <1>1 DEF LastOf

(* An entry that installs a leaf is the last leaf itself. *)
LEMMA LastOfHere ==
    ASSUME NEW l, NEW n \in Nat \ {0}, Installs(l[n])
    PROVE  LastOf(l, n) = n
  BY LastOfProperties

(* One that does not leaves the last leaf as it was. *)
LEMMA LastOfBefore ==
    ASSUME NEW l, NEW n \in Nat, l[n + 1].kind = "other"
    PROVE  LastOf(l, n + 1) = LastOf(l, n)
  <1>1. ~ (Installs(l[n + 1]) \/ l[n + 1].kind = "remove")
    BY DEF Installs
  <1>2. {i \in 1..n + 1 : Installs(l[i]) \/ l[i].kind = "remove"}
          = {i \in 1..n : Installs(l[i]) \/ l[i].kind = "remove"}
    BY <1>1
  <1> QED BY <1>2 DEF LastOf

(* The epoch of a leaf stays the same in a growing log. *)
LEMMA EpochOfSame ==
    ASSUME NEW l, NEW k, NEW n \in Nat, \A i \in 1..n : l[i] = k[i],
           NEW j \in 1..n, Installs(l[j])
    PROVE  EpochOf(l, n) = EpochOf(k, n)
  <1>1. LastOf(l, n) = LastOf(k, n)
    BY LastOfSame
  <1>2. LastOf(l, n) \in 1..n
    BY LastOfProperties
  <1> QED BY <1>1, <1>2 DEF EpochOf

(* Bindings stay true while the group rests. *)
LEMMA BoundKept ==
    ASSUME TypeOK, NEW e \in Emulators, NEW g \in Groups, PositionAt(e, g), BoundAt(e, g),
           LogGrows, EpochsGrow,
           /\ members'[e][g].pos = members[e][g].pos /\ members'[e][g].since = members[e][g].since
           /\ members'[e][g].bindings = members[e][g].bindings
    PROVE  BoundAt(e, g)'
  <1> DEFINE m == members[e][g]
  <1>1. m.pos \in Nat /\ m.since \in Nat /\ Len(log[g]) \in Nat
    BY GroupTypes, LogTypes
  <1>2. OrderedAt(e, g)'
    BY DEF BoundAt, OrderedAt, EpochsGrow, Spaced
  <1>3. ASSUME m.pos > 0 PROVE m.since \in 1..m.pos /\ m.pos <= Len(log[g])
    BY <1>1, <1>3 DEF PositionAt, Seen
  <1>4. ASSUME m.pos > 0, NEW i \in 1..m.pos PROVE log'[g][i] = log[g][i]
    <2>1. i \in 1..Len(log[g])
      BY <1>1, <1>3, <1>4
    <2> QED BY <2>1 DEF LogGrows
  <1>5. ASSUME m.pos > 0
        PROVE  /\ Installs(log'[g][m.since])
               /\ \A i \in m.since + 1..m.pos : log'[g][i].kind \in {"other", "commit", "external"}
    <2>1. /\ Installs(log[g][m.since])
          /\ \A i \in m.since + 1..m.pos : log[g][i].kind \in {"other", "commit", "external"}
      BY <1>5 DEF BoundAt, InstalledAt
    <2>2. \A i \in m.since + 1..m.pos : i \in 1..m.pos
      BY <1>1
    <2> QED BY <1>3, <1>4, <1>5, <2>1, <2>2
  <1>6. InstalledAt(e, g)'
    BY <1>5 DEF InstalledAt, Installs
  <1>7. ASSUME m.pos > 0, NEW n \in Kept(e, g) PROVE EpochOf(log'[g], n) = EpochOf(log[g], n)
    <2>1. n \in Nat /\ n <= m.pos /\ m.since \in 1..n
      BY <1>1, <1>3, <1>7 DEF Kept
    <2>2. \A i \in 1..n : log[g][i] = log'[g][i]
      BY <1>1, <1>4, <1>7, <2>1
    <2>3. Installs(log[g][m.since])
      BY <1>7 DEF BoundAt, InstalledAt
    <2> QED BY <2>1, <2>2, <2>3, EpochOfSame
  <1>8. ASSUME m.pos > 0, NEW n \in Kept(e, g), EpochOf(log'[g], n) > 0
        PROVE  \E i \in 1..Len(m.bindings) : m.bindings[i] = [epoch |-> n, ep |-> EpochOf(log'[g], n)]
    <2>1. EpochOf(log[g], n) = LeafEpoch(g, n)
      BY DEF EpochOf, LeafEpoch, LastOf, LastLeaf
    <2> QED BY <1>7, <1>8, <2>1 DEF BoundAt, EpochsBoundAt
  <1>9. \A n : LeafEpoch(g, n)' = EpochOf(log'[g], n)
    BY DEF EpochOf, LeafEpoch, LastOf, LastLeaf, Installs
  <1>10. Kept(e, g)' = Kept(e, g)
    BY DEF Kept
  <1>11. EpochsBoundAt(e, g)'
    BY <1>8, <1>9, <1>10 DEF EpochsBoundAt
  <1> QED BY <1>2, <1>6, <1>11 DEF BoundAt

(* What a commit of the next epoch makes of the bindings: it binds the      *)
(* epoch of the leaf it installs, or the one the last epoch is bound to.    *)
LEMMA BoundMerged ==
    ASSUME TypeOK, NEW e \in Emulators, NEW g \in Groups, PositionAt(e, g), BoundAt(e, g),
           UNCHANGED log, EpochsGrow, members[e][g].pos \in 1..(Len(log[g]) - 1),
           NEW ep, NEW key, NEW c, c = log[g][members[e][g].pos + 1],
           \/ IsLeaf(c) /\ ep = c.info.epoch_id /\ ep \in epochs[e]
           \/ c.kind = "other" /\ ep = 0,
           members'[e][g] = Merged(members[e][g], members[e][g].pos + 1, ep, key)
    PROVE  IsStoredGroup(members'[e][g]) /\ BoundAt(e, g)'
  <1> DEFINE m == members[e][g]
             r == members'[e][g]
             n == m.pos + 1
             bound == IF ep > 0 THEN ep ELSE BindingAt(m.bindings, m.pos)
  <1>1. /\ m.pos \in Nat /\ m.since \in Nat /\ Len(log[g]) \in Nat /\ m.pos > 0
        /\ IsStoredGroup(m) /\ m.bindings \in Seq(Bindings) /\ m.since \in 1..m.pos
    BY GroupTypes, LogTypes DEF PositionAt
  <1>2. /\ r.pos = n /\ r.since = m.since /\ r.pending = None
        /\ r.bindings = IF bound > 0 THEN Bind(m.bindings, n, bound) ELSE m.bindings
        /\ r.bindings \in Seq(Bindings) => IsStoredGroup(r)
    BY <1>1, MergedFields
  <1>3. Spaced(m.bindings) /\ \A i \in 1..Len(m.bindings) :
            m.bindings[i].epoch <= m.pos /\ m.bindings[i].ep \in epochs[e]
    BY DEF BoundAt, OrderedAt
  <1>4. \A i \in 1..Len(m.bindings) : m.bindings[i] \in Bindings /\ m.bindings[i].epoch \in Nat
    <2>1. \A i \in 1..Len(m.bindings) : m.bindings[i] \in Bindings
      BY <1>1, ElementOfSeq
    <2> QED BY <2>1 DEF Bindings
  <1>5. epochs[e] \in SUBSET EmulationEpochs /\ 0 \notin EmulationEpochs
    BY DEF TypeOK, StateOK, EmulationEpochs
  <1>6. bound > 0 => bound \in epochs[e]
    <2>1. CASE ep > 0
      <3>1. ep # 0
        BY <2>1
      <3> QED BY <2>1, <3>1
    <2>2. CASE ~ (ep > 0)
      <3>1. BindingAt(m.bindings, m.pos) > 0 => BindingAt(m.bindings, m.pos) \in epochs[e]
        BY <1>1, <1>3, BindingAtFound
      <3> QED BY <2>2, <3>1
    <2> QED BY <2>1, <2>2
  <1> HIDE DEF bound, r
  <1> DEFINE d == Bind(m.bindings, n, bound)
             new == [epoch |-> n, ep |-> bound]
  <1>7. ASSUME bound > 0
        PROVE  /\ r.bindings = d /\ d \in Seq(Bindings) /\ Spaced(d)
               /\ Len(d) \in Nat /\ Len(d) > 0 /\ d[Len(d)] = new
               /\ \A i \in 1..Len(d) : d[i] = new \/ \E j \in 1..Len(m.bindings) : d[i] = m.bindings[j]
               /\ \A i \in 1..Len(m.bindings) :
                     m.bindings[i].epoch >= n - MaxPast => \E j \in 1..Len(d) : d[j] = m.bindings[i]
    <2>1. n \in Nat /\ bound \in EmulationEpochs /\ \A i \in 1..Len(m.bindings) : m.bindings[i].epoch < n
      <3>1. n \in Nat
        BY <1>1
      <3>2. bound \in EmulationEpochs
        BY <1>5, <1>6, <1>7
      <3>3. ASSUME NEW i \in 1..Len(m.bindings) PROVE m.bindings[i].epoch < n
        <4>1. m.bindings[i].epoch <= m.pos /\ m.bindings[i].epoch \in Nat /\ m.pos \in Nat
          BY <1>1, <1>3, <1>4
        <4> QED BY <4>1
      <3> QED BY <3>1, <3>2, <3>3
    <2>2. r.bindings = d
      BY <1>2, <1>7
    <2>3. m.bindings \in Seq(Bindings) /\ Spaced(m.bindings)
      BY <1>1, <1>3
    <2> HIDE DEF m, n
    <2>4. Rebound(d, m.bindings, n, bound)
      BY <2>1, <2>3, BindProperties
    <2> HIDE DEF d
    <2> QED BY <2>2, <2>4 DEF Rebound
  <1> HIDE DEF d
  <1>8. r.bindings \in Seq(Bindings) /\ Spaced(r.bindings)
    BY <1>1, <1>2, <1>3, <1>7
  <1>9. \A i \in 1..Len(r.bindings) : r.bindings[i].epoch <= n /\ r.bindings[i].ep \in epochs'[e]
    <2>1. CASE bound > 0
      <3> SUFFICES ASSUME NEW i \in 1..Len(d) PROVE d[i].epoch <= n /\ d[i].ep \in epochs'[e]
        BY <1>7, <2>1
      <3>1. new.epoch = n /\ new.ep = bound
        OBVIOUS
      <3>2. n <= n /\ bound \in epochs'[e]
        BY <1>1, <1>6, <2>1 DEF EpochsGrow
      <3>3. CASE d[i] = new
        BY <3>1, <3>2, <3>3
      <3>4. ASSUME NEW j \in 1..Len(m.bindings), d[i] = m.bindings[j]
            PROVE  d[i].epoch <= n /\ d[i].ep \in epochs'[e]
        <4>1. /\ m.bindings[j].epoch <= m.pos /\ m.bindings[j].ep \in epochs[e]
              /\ m.bindings[j].epoch \in Nat
          BY <1>3, <1>4
        <4> HIDE DEF m
        <4>2. m.bindings[j].epoch <= n /\ m.bindings[j].ep \in epochs'[e]
          BY <1>1, <4>1 DEF EpochsGrow
        <4> QED BY <4>2, <3>4
      <3> QED BY <1>7, <2>1, <3>3, <3>4
    <2>2. CASE ~ (bound > 0)
      <3>1. r.bindings = m.bindings
        BY <1>2, <2>2
      <3>2. ASSUME NEW i \in 1..Len(m.bindings)
            PROVE  m.bindings[i].epoch <= n /\ m.bindings[i].ep \in epochs'[e]
        <4>1. /\ m.bindings[i].epoch <= m.pos /\ m.bindings[i].epoch \in Nat /\ m.pos \in Nat
              /\ m.bindings[i].ep \in epochs[e]
          BY <1>1, <1>3, <1>4
        <4> QED BY <4>1 DEF EpochsGrow
      <3> QED BY <3>1, <3>2
    <2> QED BY <2>1, <2>2
  <1>10. OrderedAt(e, g)'
    BY <1>2, <1>8, <1>9 DEF OrderedAt, Spaced, r
  <1>11. /\ Installs(log[g][m.since])
         /\ \A i \in m.since + 1..m.pos : log[g][i].kind \in {"other", "commit", "external"}
    BY <1>1 DEF BoundAt, InstalledAt
  <1>12. \A i \in m.since + 1..n : log[g][i].kind \in {"other", "commit", "external"}
    <2>1. c.kind \in {"other", "commit", "external"}
      BY DEF IsLeaf
    <2>2. \A i \in m.since + 1..n : i \in m.since + 1..m.pos \/ i = n
      BY <1>1
    <2> QED BY <1>11, <2>1, <2>2
  <1>13. InstalledAt(e, g)'
    BY <1>2, <1>11, <1>12 DEF InstalledAt, Installs, r
  <1>14. \A x : LeafEpoch(g, x) = EpochOf(log[g], x) /\ LeafEpoch(g, x)' = EpochOf(log[g], x)
    BY DEF EpochOf, LeafEpoch, LastOf, LastLeaf, Installs
  <1>15. ASSUME NEW x \in Kept(e, g), EpochOf(log[g], x) > 0
         PROVE  \E i \in 1..Len(m.bindings) : m.bindings[i] = [epoch |-> x, ep |-> EpochOf(log[g], x)]
    BY <1>1, <1>14, <1>15 DEF BoundAt, EpochsBoundAt
  <1>16. EpochOf(log[g], n) > 0 => bound > 0 /\ EpochOf(log[g], n) = bound
    <2>1. CASE IsLeaf(c) /\ ep = c.info.epoch_id /\ ep \in epochs[e]
      <3>1. Installs(c) /\ c.kind # "add"
        BY <2>1 DEF IsLeaf, Installs
      <3>2. LastOf(log[g], n) = n
        BY <1>1, <3>1, LastOfHere
      <3>3. EpochOf(log[g], n) = ep
        BY <3>1, <3>2, <2>1 DEF EpochOf
      <3>4. ep > 0
        <4>1. ep \in EmulationEpochs
          BY <2>1, <1>5
        <4> QED BY <4>1 DEF EmulationEpochs
      <3> QED BY <3>3, <3>4 DEF bound
    <2>2. CASE c.kind = "other" /\ ep = 0
      <3>1. LastOf(log[g], n) = LastOf(log[g], m.pos)
        BY <1>1, <2>2, LastOfBefore
      <3>2. EpochOf(log[g], n) = EpochOf(log[g], m.pos)
        BY <3>1 DEF EpochOf
      <3>3. m.pos \in Kept(e, g)
        BY <1>1, Numbers DEF Kept
      <3>4. ASSUME EpochOf(log[g], m.pos) > 0
            PROVE  BindingAt(m.bindings, m.pos) = EpochOf(log[g], m.pos)
        <4>1. PICK i \in 1..Len(m.bindings) :
                 m.bindings[i] = [epoch |-> m.pos, ep |-> EpochOf(log[g], m.pos)]
          BY <1>15, <3>3, <3>4
        <4>2. m.bindings[i].epoch = m.pos /\ m.bindings[i].ep = EpochOf(log[g], m.pos)
          BY <4>1
        <4>3. BindingAt(m.bindings, m.bindings[i].epoch) = m.bindings[i].ep
          BY <1>1, <1>3, BindingAtProperties
        <4> QED BY <4>2, <4>3
      <3> QED BY <2>2, <3>2, <3>4 DEF bound
    <2> QED BY <2>1, <2>2
  <1>17. ASSUME NEW x \in m.since..n, x >= n - MaxPast, EpochOf(log[g], x) > 0
         PROVE  \E i \in 1..Len(r.bindings) : r.bindings[i] = [epoch |-> x, ep |-> EpochOf(log[g], x)]
    <2>1. CASE x = n
      <3>1. bound > 0 /\ EpochOf(log[g], n) = bound
        BY <2>1, <1>16, <1>17
      <3>2. r.bindings = d /\ Len(d) \in 1..Len(d) /\ d[Len(d)] = new
        BY <1>7, <3>1
      <3>3. new = [epoch |-> x, ep |-> EpochOf(log[g], x)]
        BY <2>1, <3>1
      <3> HIDE DEF new, n, m
      <3> QED BY <3>2, <3>3
    <2>2. CASE x # n
      <3>1. x \in Kept(e, g)
        BY <1>1, <1>17, <2>2, Numbers, SMTT(60) DEF Kept
      <3>2. PICK i \in 1..Len(m.bindings) : m.bindings[i] = [epoch |-> x, ep |-> EpochOf(log[g], x)]
        BY <1>15, <1>17, <3>1
      <3>3. m.bindings[i].epoch >= n - MaxPast
        BY <1>17, <3>2
      <3>4. CASE bound > 0
        <4>1. r.bindings = d /\ \E j \in 1..Len(d) : d[j] = m.bindings[i]
          BY <1>7, <3>3, <3>4
        <4> QED BY <3>2, <4>1
      <3>5. CASE ~ (bound > 0)
        BY <1>2, <3>2, <3>5
      <3> QED BY <3>4, <3>5
    <2> QED BY <2>1, <2>2
  <1>18. EpochsBoundAt(e, g)'
    <2>1. Kept(e, g)' = {x \in m.since..n : x >= n - MaxPast}
      BY <1>2 DEF Kept, r
    <2> QED BY <1>14, <1>17, <2>1 DEF EpochsBoundAt, r
  <1> QED BY <1>2, <1>8, <1>10, <1>13, <1>18 DEF BoundAt, r

(* A client that joins binds the epoch of its leaf, unless it joins with a  *)
(* key package.                                                             *)
LEMMA BoundJoined ==
    ASSUME TypeOK, LogsOK', NEW e \in Emulators, NEW g \in Groups, NEW n \in Nat \ {0},
           NEW ep, NEW key, NEW c, c = log'[g][n], Installs(c),
           \/ c.kind # "add" /\ ep = c.info.epoch_id /\ ep \in epochs'[e] /\ ep \in EmulationEpochs
           \/ c.kind = "add" /\ ep = 0,
           members'[e][g] = Joined(n, ep, key)
    PROVE  IsStoredGroup(members'[e][g]) /\ BoundAt(e, g)'
  <1> DEFINE r == members'[e][g]
             d == Bind(<<>>, n, ep)
             new == [epoch |-> n, ep |-> ep]
  <1>1. /\ r.pos = n /\ r.since = n /\ r.pending = None
        /\ r.bindings = IF ep > 0 THEN d ELSE <<>>
        /\ r.bindings \in Seq(Bindings) => IsStoredGroup(r)
    BY JoinedFields
  <1> HIDE DEF r
  <1>2. ASSUME c.kind # "add"
        PROVE  /\ r.bindings = d /\ d \in Seq(Bindings) /\ Spaced(d)
               /\ Len(d) \in Nat /\ Len(d) > 0 /\ d[Len(d)] = new
               /\ \A i \in 1..Len(d) : d[i] = new
    <2>1. ep \in EmulationEpochs /\ ep > 0
      BY <1>2 DEF EmulationEpochs
    <2>2. r.bindings = d
      BY <1>1, <2>1
    <2> QED BY <2>1, <2>2, FirstBinding
  <1>3. ASSUME c.kind = "add"
        PROVE  r.bindings \in Seq(Bindings) /\ Len(r.bindings) = 0 /\ Spaced(r.bindings)
    <2>1. r.bindings = <<>>
      BY <1>1, <1>3
    <2>2. r.bindings \in Seq(Bindings) /\ Len(r.bindings) = 0
      BY <2>1, EmptySeq
    <2> QED BY <2>2 DEF Spaced
  <1> HIDE DEF d
  <1>4. r.bindings \in Seq(Bindings) /\ Spaced(r.bindings)
    BY <1>2, <1>3
  <1>5. \A i \in 1..Len(r.bindings) : r.bindings[i].epoch <= n /\ r.bindings[i].ep \in epochs'[e]
    <2>1. CASE c.kind # "add"
      <3>1. \A i \in 1..Len(r.bindings) : r.bindings[i] = new
        BY <1>2, <2>1
      <3> QED BY <2>1, <3>1
    <2>2. CASE c.kind = "add"
      BY <1>3, <2>2
    <2> QED BY <2>1, <2>2
  <1>6. OrderedAt(e, g)'
    BY <1>1, <1>4, <1>5 DEF OrderedAt, Spaced, r
  <1>7. InstalledAt(e, g)'
    <2>1. \A i \in n + 1..n : FALSE
      OBVIOUS
    <2> QED BY <1>1, <2>1 DEF InstalledAt, Installs, r
  <1>8. \A x : LeafEpoch(g, x)' = EpochOf(log'[g], x)
    BY DEF EpochOf, LeafEpoch, LastOf, LastLeaf, Installs
  <1>9. LastOf(log'[g], n) = n
    BY LastOfHere
  <1>10. EpochOf(log'[g], n) = IF c.kind = "add" THEN 0 ELSE c.info.epoch_id
    BY <1>9 DEF EpochOf
  <1>11. EpochOf(log'[g], n) > 0 => \E i \in 1..Len(r.bindings) :
            r.bindings[i] = [epoch |-> n, ep |-> EpochOf(log'[g], n)]
    BY <1>2, <1>10
  <1>12. EpochsBoundAt(e, g)'
    <2>1. \A x \in Kept(e, g)' : x = n
      BY <1>1 DEF Kept, r
    <2> QED BY <1>8, <1>11, <2>1 DEF EpochsBoundAt, r
  <1> QED BY <1>1, <1>4, <1>6, <1>7, <1>12 DEF BoundAt, r

(* A removed client has no bindings. *)
LEMMA BoundRemoved ==
    ASSUME NEW e \in Emulators, NEW g \in Groups, NEW n \in Nat, members'[e][g] = Removed(n)
    PROVE  IsStoredGroup(members'[e][g]) /\ BoundAt(e, g)'
  <1> DEFINE r == members'[e][g]
             b == <<>>
  <1>1. b \in Seq(Bindings) /\ Len(b) = 0
    BY EmptySeq
  <1>2. r = [pos |-> 0, since |-> n, pending |-> None, bindings |-> b, key |-> NoTerm]
    BY DEF Removed
  <1> HIDE DEF b, r
  <1>3. IsStoredGroup(r) /\ r.pos = 0 /\ r.bindings = b
    BY <1>1, <1>2 DEF IsStoredGroup
  <1>4. OrderedAt(e, g)' /\ InstalledAt(e, g)' /\ EpochsBoundAt(e, g)'
    BY <1>1, <1>3 DEF OrderedAt, InstalledAt, EpochsBoundAt, Spaced, r
  <1> QED BY <1>3, <1>4 DEF BoundAt, r

-----------------------------------------------------------------------------
(* What a step leaves alone                                                 *)

(* A log that rests has no new entries. *)
LEMMA LogRests ==
    ASSUME TypeOK, UNCHANGED <<log, uploads>>
    PROVE  /\ LogsOK' /\ LogGrows /\ UploadsGrow
           /\ \A h \in Groups : \A i \in Len(log[h]) + 1..Len(log'[h]) : FALSE
  <1>1. \A h \in Groups : Len(log[h]) \in Nat
    BY LogTypes
  <1>2. LogsOK'
    BY DEF TypeOK, LogsOK
  <1>3. LogGrows /\ UploadsGrow
    BY <1>1, UploadTypes DEF LogGrows, UploadsGrow
  <1>4. \A h \in Groups : \A i \in Len(log[h]) + 1..Len(log'[h]) : FALSE
    BY <1>1
  <1> QED BY <1>2, <1>3, <1>4

(* Groups that rest are where they were. *)
LEMMA SeenSame ==
    ASSUME TypeOK, NEW f \in Emulators, NEW h \in Groups, members'[f][h] = members[f][h]
    PROVE  Seen(f, h)' = Seen(f, h) /\ Seen(f, h) \in Nat
  BY GroupTypes DEF Seen

(* Nothing is consumed or given up while groups rest and what is staged     *)
(* stays or is lost.                                                        *)
LEMMA ConsumedRest ==
    ASSUME TypeOK, UNCHANGED members, \A f \in Emulators : lost[f] \subseteq lost'[f],
           \A f \in Emulators : \/ staged[f] = None
                                \/ staged'[f] = staged[f]
                                \/ <<staged[f].group, staged[f].pos>> \in lost'[f]
    PROVE  ConsumedGrows
  <1>1. \A f \in Emulators, h \in Groups : Seen(f, h) <= Seen(f, h)' /\ Seen(f, h)' \in Nat
    <2> SUFFICES ASSUME NEW f \in Emulators, NEW h \in Groups
                 PROVE  Seen(f, h) <= Seen(f, h)' /\ Seen(f, h)' \in Nat
      OBVIOUS
    <2>1. Seen(f, h)' = Seen(f, h) /\ Seen(f, h) \in Nat
      BY SeenSame
    <2> QED BY <2>1
  <1> QED BY <1>1, ConsumedKept

(* A crash loses what is in memory, and records what was staged. *)
LEMMA ForgetKeeps ==
    ASSUME TypeOK, NEW e \in Emulators, Forget(e), UNCHANGED members
    PROVE  /\ MemoryOK' /\ StagedOK' /\ Dropped /\ ConsumedGrows
           /\ \A f \in Emulators : staged'[f] \in {staged[f], None}
           /\ building'[e] = None /\ batch'[e] = None
  <1>1. /\ building \in [Emulators -> Builders \union {None}]
        /\ batch \in [Emulators -> Batches \union {None}]
        /\ lost \in [Emulators -> SUBSET (Groups \X Nat)]
        /\ DOMAIN staged = Emulators
    BY DEF TypeOK, MemoryOK, StagedOK
  <1>2. staged[e] # None => <<staged[e].group, staged[e].pos>> \in Groups \X Nat
    BY DEF TypeOK, StagedOK, IsStaged
  <1>3. /\ building' = [building EXCEPT ![e] = None] /\ batch' = [batch EXCEPT ![e] = None]
        /\ staged' = [staged EXCEPT ![e] = None]
        /\ lost' = IF staged[e] = None THEN lost
                   ELSE [lost EXCEPT ![e] = lost[e] \union {<<staged[e].group, staged[e].pos>>}]
    BY DEF Forget
  <1>4. /\ \A f \in Emulators : lost[f] \subseteq lost'[f]
        /\ staged[e] # None => <<staged[e].group, staged[e].pos>> \in lost'[e]
        /\ lost' \in [Emulators -> SUBSET (Groups \X Nat)]
    BY <1>1, <1>2, <1>3
  <1>5. MemoryOK' /\ building'[e] = None /\ batch'[e] = None
    BY <1>1, <1>3, <1>4 DEF MemoryOK
  <1>6. Dropped
    BY <1>1, <1>3 DEF Dropped
  <1>7. \A f \in Emulators : IF f = e THEN staged'[f] = None ELSE staged'[f] = staged[f]
    BY <1>1, <1>3
  <1>8. StagedOK'
    <2>1. DOMAIN staged' = Emulators
      BY <1>1, <1>3
    <2>2. \A f \in Emulators : staged'[f] = None \/ IsStaged(staged'[f])
      BY <1>7 DEF TypeOK, StagedOK
    <2> QED BY <2>1, <2>2 DEF StagedOK, IsStaged
  <1>9. ConsumedGrows
    BY <1>4, <1>7, ConsumedRest
  <1> QED BY <1>5, <1>6, <1>7, <1>8, <1>9

(* What siblings follow, when no entry and no upload is new. *)
LEMMA FollowKept ==
    ASSUME TypeOK, FollowInv, UNCHANGED <<log, uploads>>, DOMAIN sent \subseteq DOMAIN sent',
           ConsumedGrows, OpensAll, HeadsSent',
           \A f \in Emulators : handled[f] \subseteq handled'[f]
    PROVE  FollowInv'
  <1>1. /\ LogsOK' /\ LogGrows
        /\ \A h \in Groups : \A i \in Len(log[h]) + 1..Len(log'[h]) : FALSE
    BY LogRests
  <1>2. AllSent' /\ SecretsDiffer'
    BY SentSame DEF FollowInv
  <1>3. CommitsOpen'
    BY <1>1, CommitsKept DEF FollowInv
  <1>4. UploadsOpen'
    <2>1. Len(uploads') \in Nat /\ \A u \in Len(uploads) + 1..Len(uploads') : FALSE
      BY UploadTypes
    <2>2. "key_package" \in OperationTypes
      BY DEF OperationTypes
    <2>3. \A f \in Emulators : \A x \in DOMAIN trees'[f] : \A l \in Emulators, k \in Nat :
             f # l /\ (x \in DOMAIN trees[f] => Open(trees[f][x], l, "key_package", k))
             => Open(trees'[f][x], l, "key_package", k)
      BY <2>2 DEF OpensAll
    <2> QED BY <2>1, <2>3, UploadsKept DEF FollowInv
  <1> QED BY <1>2, <1>3, <1>4 DEF FollowInv

(* Bindings, when the groups rest. *)
LEMMA BindingRest ==
    ASSUME TypeOK, PlacesInv, BindingInv, LogGrows, EpochsGrow, UNCHANGED members
    PROVE  BindingInv'
  BY BoundKept DEF PlacesInv, Positions, BindingInv

(* Bindings, when one group moves. *)
LEMMA BindingMember ==
    ASSUME TypeOK, PlacesInv, BindingInv, LogGrows, EpochsGrow, NEW e \in Emulators, NEW g \in Groups,
           \A f \in Emulators, h \in Groups : f # e \/ h # g => members'[f][h] = members[f][h],
           BoundAt(e, g)'
    PROVE  BindingInv'
  <1>1. ASSUME NEW f \in Emulators, NEW h \in Groups PROVE BoundAt(f, h)'
    <2>1. CASE f = e /\ h = g
      BY <2>1
    <2>2. CASE f # e \/ h # g
      BY <2>2, BoundKept DEF PlacesInv, Positions, BindingInv
    <2> QED BY <2>1, <2>2
  <1> QED BY <1>1 DEF BindingInv

(* A group is stored. *)
Stores(e, g, r) == members' = [members EXCEPT ![e][g] = r]

(* The stored group, and only that one, is replaced. *)
LEMMA GroupStored ==
    ASSUME TypeOK, NEW e \in Emulators, NEW g \in Groups, NEW r, Stores(e, g, r)
    PROVE  /\ members'[e][g] = r
           /\ \A f \in Emulators, h \in Groups : f # e \/ h # g => members'[f][h] = members[f][h]
           /\ IsStoredGroup(r) => GroupsOK'
  <1>1. DOMAIN members = Emulators /\ \A f \in Emulators : DOMAIN members[f] = Groups
    BY DEF TypeOK, GroupsOK
  <1>2. /\ members'[e][g] = r
        /\ \A f \in Emulators, h \in Groups : f # e \/ h # g => members'[f][h] = members[f][h]
        /\ DOMAIN members' = Emulators /\ \A f \in Emulators : DOMAIN members'[f] = Groups
    BY <1>1 DEF Stores
  <1>3. ASSUME IsStoredGroup(r) PROVE GroupsOK'
    <2>1. ASSUME NEW f \in Emulators, NEW h \in Groups PROVE IsStoredGroup(members'[f][h])
      <3>1. CASE f = e /\ h = g
        BY <1>2, <1>3, <3>1
      <3>2. CASE f # e \/ h # g
        BY <1>2, <3>2 DEF TypeOK, GroupsOK
      <3> QED BY <3>1, <3>2
    <2> QED BY <1>2, <2>1 DEF GroupsOK, IsStoredGroup
  <1> QED BY <1>2, <1>3

-----------------------------------------------------------------------------
(* Steps outside trees and groups                                           *)

(* Steps that change no tree, group, log or key package. *)
LEMMA InvStill ==
    ASSUME Inv, UNCHANGED <<trees, members, packages, handled, log, uploads>>, EpochsGrow,
           StateOK', MemoryOK', StagedOK', SentOK', OwnInv', ConsumedGrows,
           DOMAIN sent \subseteq DOMAIN sent',
           \A f \in Emulators : staged'[f] \in {staged[f], None} /\ building'[f] \in {building[f], None}
    PROVE  Inv'
  <1>0. TypeOK /\ OwnInv /\ PlacesInv /\ FollowInv /\ WelcomeInv /\ BindingInv
    BY DEF Inv
  <1>1. /\ LogsOK' /\ LogGrows /\ UploadsGrow
        /\ \A h \in Groups : \A i \in Len(log[h]) + 1..Len(log'[h]) : FALSE
    BY <1>0, LogRests
  <1>2. TreesOK' /\ GroupsOK'
    BY <1>0 DEF TypeOK, TreesOK, GroupsOK, IsStoredGroup
  <1>4. PlacesInv'
    BY <1>0, <1>1, PlacesRest
  <1>5. FollowInv'
    <2>1. OpensAll /\ HeadsSent'
      BY <1>0, SameOpens, HeadsSame DEF FollowInv
    <2> QED BY <1>0, <2>1, FollowKept
  <1>6. WelcomeInv'
    BY <1>0, <1>1, WelcomeRest
  <1>7. BindingInv'
    BY <1>0, <1>1, BindingRest
  <1> QED BY <1>1, <1>2, <1>4, <1>5, <1>6, <1>7 DEF Inv, TypeOK

(* Such steps of the emulation group, and those that drop what is in memory. *)
LEMMA InvRest ==
    ASSUME Inv, UNCHANGED <<trees, members, packages, handled, log, uploads, sent>>, EpochsGrow,
           StateOK', MemoryOK', StagedOK', TreesExported', Dropped, ConsumedGrows,
           \A f \in Emulators : staged'[f] \in {staged[f], None}
    PROVE  Inv'
  <1>1. OwnInv'
    BY OwnSame DEF Inv
  <1>2. SentOK' /\ DOMAIN sent \subseteq DOMAIN sent'
    BY DEF Inv, TypeOK, SentOK
  <1> QED BY <1>1, <1>2, InvStill DEF Dropped

(* Types that hold again because nothing of theirs changed. *)
LEMMA TypesRest ==
    ASSUME TypeOK
    PROVE  /\ UNCHANGED <<emulation, epochs, packages, handled>> => StateOK'
           /\ UNCHANGED <<building, batch, lost>> => MemoryOK'
           /\ UNCHANGED staged => StagedOK'
           /\ UNCHANGED members => GroupsOK'
           /\ UNCHANGED trees => TreesOK'
           /\ UNCHANGED sent => SentOK'
           /\ UNCHANGED <<building, batch>> => Dropped
           /\ UNCHANGED epochs => EpochsGrow
           /\ UNCHANGED <<emulation, trees>> /\ OwnInv => TreesExported'
           /\ UNCHANGED <<members, staged, lost>> => ConsumedGrows
  <1>1. UNCHANGED <<emulation, epochs, packages, handled>> => StateOK'
    BY DEF TypeOK, StateOK
  <1>2. UNCHANGED <<building, batch, lost>> => MemoryOK'
    BY DEF TypeOK, MemoryOK
  <1>3. UNCHANGED staged => StagedOK'
    BY DEF TypeOK, StagedOK, IsStaged
  <1>4. UNCHANGED members => GroupsOK'
    BY DEF TypeOK, GroupsOK, IsStoredGroup
  <1>5. UNCHANGED trees => TreesOK'
    BY DEF TypeOK, TreesOK
  <1>6. UNCHANGED sent => SentOK'
    BY DEF TypeOK, SentOK
  <1>7. UNCHANGED <<building, batch>> => Dropped
    BY DEF Dropped
  <1>8. UNCHANGED epochs => EpochsGrow
    BY DEF EpochsGrow
  <1>9. UNCHANGED <<emulation, trees>> /\ OwnInv => TreesExported'
    BY DEF OwnInv, TreesExported
  <1>10. UNCHANGED <<members, staged, lost>> => ConsumedGrows
    BY ConsumedRest
  <1> QED BY <1>1, <1>2, <1>3, <1>4, <1>5, <1>6, <1>7, <1>8, <1>9, <1>10

(* A crash takes what is in memory. *)
LEMMA CrashStep == ASSUME Inv, NEW e \in Emulators, Crash(e) PROVE Inv'
  <1>1. TypeOK /\ OwnInv
    BY DEF Inv
  <1>2. /\ Forget(e)
        /\ UNCHANGED <<emulation, epochs, trees, members, packages, handled, log, uploads, sent>>
    BY DEF Crash
  <1>3. /\ MemoryOK' /\ StagedOK' /\ Dropped /\ ConsumedGrows
        /\ \A f \in Emulators : staged'[f] \in {staged[f], None}
    BY <1>1, <1>2, ForgetKeeps
  <1>4. StateOK' /\ EpochsGrow /\ TreesExported'
    BY <1>1, <1>2, TypesRest
  <1> QED BY <1>2, <1>3, <1>4, InvRest

(* A commit builder is dropped. *)
LEMMA DropCommitStep == ASSUME Inv, NEW e \in Emulators, DropCommit(e) PROVE Inv'
  <1>1. TypeOK /\ OwnInv
    BY DEF Inv
  <1>2. /\ building' = [building EXCEPT ![e] = None]
        /\ UNCHANGED <<emulation, epochs, trees, batch, staged, members, packages, handled, log,
                       uploads, sent, lost>>
    BY DEF DropCommit
  <1>3. MemoryOK' /\ Dropped
    BY <1>1, <1>2 DEF TypeOK, MemoryOK, Dropped
  <1>4. StateOK' /\ StagedOK' /\ EpochsGrow /\ TreesExported' /\ ConsumedGrows
    BY <1>1, <1>2, TypesRest
  <1> QED BY <1>2, <1>3, <1>4, InvRest

(* A batch builder is dropped. *)
LEMMA DropBatchStep == ASSUME Inv, NEW e \in Emulators, DropBatch(e) PROVE Inv'
  <1>1. TypeOK /\ OwnInv
    BY DEF Inv
  <1>2. /\ batch' = [batch EXCEPT ![e] = None]
        /\ UNCHANGED <<emulation, epochs, trees, building, staged, members, packages, handled, log,
                       uploads, sent, lost>>
    BY DEF DropBatch
  <1>3. MemoryOK' /\ Dropped
    BY <1>1, <1>2 DEF TypeOK, MemoryOK, Dropped
  <1>4. StateOK' /\ StagedOK' /\ EpochsGrow /\ TreesExported' /\ ConsumedGrows
    BY <1>1, <1>2, TypesRest
  <1> QED BY <1>2, <1>3, <1>4, InvRest

(* The emulation group moves on: its new epoch has no tree yet. *)
LEMMA NextEmulationEpochStep == ASSUME Inv, NEW e \in Emulators, NextEmulationEpoch(e) PROVE Inv'
  <1>1. TypeOK /\ OwnInv
    BY DEF Inv
  <1>2. /\ emulation' = [emulation EXCEPT ![e].epoch = @ + 1, ![e].exported = FALSE]
        /\ UNCHANGED <<epochs, trees, building, batch, staged, members, packages, handled,
                       log, uploads, sent, lost>>
    BY DEF NextEmulationEpoch
  <1>3. emulation \in [Emulators -> [epoch : EmulationEpochs, exported : BOOLEAN, record : Nat]]
    BY <1>1 DEF TypeOK, StateOK
  <1>4. \A f \in Emulators : emulation[f] \in [epoch : EmulationEpochs, exported : BOOLEAN, record : Nat]
    BY <1>3
  <1>5. /\ emulation' \in [Emulators -> [epoch : EmulationEpochs, exported : BOOLEAN, record : Nat]]
        /\ emulation'[e].epoch = emulation[e].epoch + 1
        /\ \A f \in Emulators : f # e => emulation'[f] = emulation[f]
    <2>0. emulation[e].epoch + 1 \in EmulationEpochs
      <3>1. emulation[e].epoch \in EmulationEpochs
        BY <1>4
      <3> QED BY <3>1 DEF EmulationEpochs
    <2>1. [emulation[e] EXCEPT !.epoch = @ + 1, !.exported = FALSE]
             \in [epoch : EmulationEpochs, exported : BOOLEAN, record : Nat]
      BY <1>4, <2>0
    <2>2. emulation'[e] = [emulation[e] EXCEPT !.epoch = @ + 1, !.exported = FALSE]
      BY <1>2, <1>3
    <2>3. emulation'[e].epoch = emulation[e].epoch + 1
      BY <1>4, <2>2
    <2> QED BY <1>2, <1>3, <2>1, <2>2, <2>3
  <1>6. StateOK'
    BY <1>1, <1>2, <1>5 DEF TypeOK, StateOK
  <1>7. TreesExported'
    <2> SUFFICES ASSUME NEW f \in Emulators, NEW ep \in DOMAIN trees[f]
                 PROVE  ep <= emulation'[f].epoch /\ (ep = emulation'[f].epoch => emulation'[f].exported)
      BY <1>2 DEF TreesExported
    <2>1. ep <= emulation[f].epoch /\ (ep = emulation[f].epoch => emulation[f].exported)
      BY <1>1 DEF OwnInv, TreesExported
    <2>2. ep \in EmulationEpochs
      BY <1>1 DEF TypeOK, TreesOK
    <2>3. emulation[f].epoch \in EmulationEpochs
      BY <1>4
    <2>4. CASE f = e
      BY <1>5, <2>1, <2>2, <2>3, <2>4 DEF EmulationEpochs
    <2>5. CASE f # e
      BY <1>5, <2>1, <2>5
    <2> QED BY <2>4, <2>5
  <1>8. MemoryOK' /\ StagedOK' /\ EpochsGrow /\ Dropped /\ ConsumedGrows
    BY <1>1, <1>2, TypesRest
  <1> QED BY <1>2, <1>6, <1>7, <1>8, InvRest

-----------------------------------------------------------------------------
(* Registering an epoch                                                     *)

(* An epoch that was not registered has no tree; the one it gets is at the  *)
(* start of every ratchet.                                                  *)
LEMMA RegisterUpToStep ==
    ASSUME Inv, NEW e \in Emulators, NEW k \in 1..4, RegisterUpTo(e, k),
           MemoryOK', StagedOK', Dropped, ConsumedGrows,
           \A f \in Emulators : staged'[f] \in {staged[f], None}
    PROVE  Inv'
  <1> DEFINE ep == emulation[e].epoch
             R == [epoch : EmulationEpochs, exported : BOOLEAN, record : Nat]
  <1>0. TypeOK /\ OwnInv /\ PlacesInv /\ FollowInv /\ WelcomeInv /\ BindingInv
    BY DEF Inv
  <1>1. /\ ~ emulation[e].exported
        /\ emulation' = [emulation EXCEPT ![e].exported = TRUE, ![e].record = IF k = 4 THEN ep ELSE @]
        /\ IF k >= 2 THEN StoreTree(e, ep, NewTree) ELSE UNCHANGED trees
        /\ epochs' = [epochs EXCEPT ![e] = IF k >= 3 THEN epochs[e] \union {ep} ELSE epochs[e]]
        /\ UNCHANGED <<members, packages, handled, log, uploads, sent>>
    BY DEF RegisterUpTo
  <1>2. emulation \in [Emulators -> R] /\ epochs \in [Emulators -> SUBSET EmulationEpochs]
    BY <1>0 DEF TypeOK, StateOK
  <1>3. \A f \in Emulators : emulation[f] \in R
    BY <1>2
  <1>4. ep \in EmulationEpochs /\ ep \in Nat /\ (IF k = 4 THEN ep ELSE emulation[e].record) \in Nat
    BY <1>3 DEF EmulationEpochs
  <1>5. /\ emulation' \in [Emulators -> R] /\ emulation'[e].epoch = ep /\ emulation'[e].exported = TRUE
        /\ \A f \in Emulators : f # e => emulation'[f] = emulation[f]
    <2> HIDE DEF ep
    <2>1. [emulation[e] EXCEPT !.exported = TRUE, !.record = IF k = 4 THEN ep ELSE @] \in R
      BY <1>3, <1>4
    <2>2. emulation'[e] = [emulation[e] EXCEPT !.exported = TRUE, !.record = IF k = 4 THEN ep ELSE @]
      BY <1>1, <1>2
    <2>3. emulation'[e].epoch = emulation[e].epoch /\ emulation'[e].exported = TRUE
      BY <1>3, <2>2
    <2> QED BY <1>1, <1>2, <2>1, <2>2, <2>3 DEF ep
  <1> HIDE DEF ep
  <1>6. StateOK' /\ EpochsGrow
    BY <1>0, <1>1, <1>2, <1>4, <1>5 DEF TypeOK, StateOK, EpochsGrow
  <1>7. \A f \in Emulators : \A x \in DOMAIN trees[f] :
           x \in EmulationEpochs /\ x <= emulation[f].epoch /\ (x = emulation[f].epoch => emulation[f].exported)
    BY <1>0 DEF TypeOK, TreesOK, OwnInv, TreesExported
  <1>8. ep \notin DOMAIN trees[e]
    BY <1>1, <1>7 DEF ep
  <1>9. DOMAIN trees'[e] \subseteq DOMAIN trees[e] \union {ep} /\ \A f \in Emulators : f # e => trees'[f] = trees[f]
    BY <1>0, <1>1, StoreTreeProperties
  <1>10. TreesExported'
    <2> SUFFICES ASSUME NEW f \in Emulators, NEW x \in DOMAIN trees'[f]
                 PROVE  x <= emulation'[f].epoch /\ (x = emulation'[f].epoch => emulation'[f].exported)
      BY DEF TreesExported
    <2>1. CASE f = e
      <3>1. x = ep \/ x \in DOMAIN trees[e]
        BY <2>1, <1>9
      <3>2. x <= ep
        BY <3>1, <1>4, <1>7 DEF ep
      <3> QED BY <2>1, <3>2, <1>5
    <2>2. CASE f # e
      BY <2>2, <1>5, <1>7, <1>9
    <2> QED BY <2>1, <2>2
  <1>11. CASE ~ (k >= 2)
    BY <1>1, <1>6, <1>10, <1>11, InvRest
  <1>12. CASE k >= 2
    <2>1. /\ DOMAIN trees' = Emulators
          /\ DOMAIN trees'[e] = DOMAIN trees[e] \union {ep}
          /\ \A x \in DOMAIN trees[e] : trees'[e][x] = trees[e][x]
          /\ trees'[e][ep] = NewTree
      BY <1>0, <1>1, <1>8, <1>12, StoreTreeProperties
    <2>2. NewTree \in Trees /\ \A y \in Cells : NewTree[y].next = 0
      <3>1. NewRatchet \in Ratchets /\ NewRatchet.next = 0
        BY DEF NewRatchet, Ratchets
      <3> QED BY <3>1 DEF NewTree, Trees, Cells
    <2>3. TreesOK'
      <3>1. \A f \in Emulators : /\ DOMAIN trees'[f] \subseteq EmulationEpochs
                                 /\ \A x \in DOMAIN trees'[f] : trees'[f][x] \in Trees
        BY <1>0, <1>4, <1>9, <2>1, <2>2 DEF TypeOK, TreesOK
      <3> QED BY <2>1, <3>1 DEF TreesOK
    <2>4. \A f \in Emulators : \A x \in DOMAIN trees[f] :
             x \in DOMAIN trees'[f] /\ trees'[f][x] = trees[f][x]
      BY <1>9, <2>1
    <2>5. \A f \in Emulators : \A x \in DOMAIN trees'[f] :
             x \in DOMAIN trees[f] \/ (f = e /\ x = ep /\ trees'[f][x] = NewTree)
      BY <1>9, <2>1
    <2>6. TreesGrow
      <3>1. \A f \in Emulators : \A x \in DOMAIN trees[f], y \in Cells : trees[f][x][y].next \in Nat
        BY <1>0, TreeTypes
      <3> QED BY <2>4, <3>1 DEF TreesGrow
    <2>7. SentBehind'
      BY <1>0, <1>1, <2>3, <2>6, SentKept DEF OwnInv
    <2>8. \A f \in Emulators : BuilderOwnsAt(f)'
      <3> SUFFICES ASSUME NEW f \in Emulators PROVE BuilderOwnsAt(f)'
        OBVIOUS
      <3>1. BuilderOwnsAt(f) /\ building'[f] \in {building[f], None}
        BY <1>0 DEF OwnInv, BuilderOwns, Dropped
      <3>2. building'[f] # None =>
              /\ Coordinates(building[f].ep, f, "leaf_node", building[f].generation) \notin DOMAIN sent'
              /\ trees'[f][building[f].ep] = trees[f][building[f].ep]
        BY <1>0, <1>1, <2>4, <3>1, OwnTypes
      <3> QED BY <1>0, <1>6, <2>6, <3>1, <3>2, BuilderKept
    <2>9. \A f \in Emulators : BatchOwnsAt(f)'
      <3> SUFFICES ASSUME NEW f \in Emulators PROVE BatchOwnsAt(f)'
        OBVIOUS
      <3>1. BatchOwnsAt(f) /\ batch'[f] \in {batch[f], None}
        BY <1>0 DEF OwnInv, BatchOwns, Dropped
      <3>2. batch'[f] # None => trees'[f][batch[f].ep] = trees[f][batch[f].ep]
        BY <1>0, <2>4, <3>1, OwnTypes
      <3> QED BY <1>0, <2>6, <3>1, <3>2, BatchKept
    <2>10. OwnInv'
      BY <1>10, <2>7, <2>8, <2>9 DEF OwnInv, BuilderOwns, BatchOwns
    <2>11. OpensAll
      <3> SUFFICES ASSUME NEW f \in Emulators, NEW x \in DOMAIN trees'[f], NEW l \in Emulators,
                          NEW ty \in OperationTypes, NEW n \in Nat,
                          x \in DOMAIN trees[f] => Open(trees[f][x], l, ty, n)
                   PROVE  Open(trees'[f][x], l, ty, n)
        BY DEF OpensAll
      <3>1. CASE x \in DOMAIN trees[f]
        BY <2>4, <3>1
      <3>2. CASE trees'[f][x] = NewTree
        <4>1. <<l, ty>> \in Cells
          BY DEF Cells
        <4> QED BY <2>2, <3>2, <4>1 DEF Open
      <3> QED BY <2>5, <3>1, <3>2
    <2>12. HeadsSent'
      <3> SUFFICES ASSUME NEW f \in Emulators, NEW l \in Emulators, NEW x \in DOMAIN trees'[f],
                          NEW ty \in OperationTypes, f # l, trees'[f][x][<<l, ty>>].next > 0
                   PROVE  Coordinates(x, l, ty, trees'[f][x][<<l, ty>>].next - 1) \in DOMAIN sent'
        BY DEF HeadsSent, NextOf, Coordinates
      <3>1. CASE x \in DOMAIN trees[f]
        BY <1>0, <1>1, <2>4, <3>1 DEF FollowInv, HeadsSent, NextOf
      <3>2. CASE trees'[f][x] = NewTree
        <4>1. <<l, ty>> \in Cells
          BY DEF Cells
        <4> QED BY <2>2, <3>2, <4>1
      <3> QED BY <2>5, <3>1, <3>2
    <2>13. FollowInv'
      BY <1>0, <1>1, <2>11, <2>12, FollowKept
    <2>14. /\ LogsOK' /\ LogGrows
           /\ \A h \in Groups : \A i \in Len(log[h]) + 1..Len(log'[h]) : FALSE
      BY <1>0, <1>1, LogRests
    <2>15. PlacesInv'
      BY <1>0, <1>1, <1>6, <2>14, PlacesRest DEF Dropped
    <2>16. WelcomeInv'
      BY <1>0, <1>1, <1>6, <2>14, WelcomeRest
    <2>17. BindingInv'
      BY <1>0, <1>1, <1>6, <2>14, BindingRest
    <2>18. TypeOK'
      BY <1>0, <1>1, <1>6, <2>3, <2>14, TypesRest DEF TypeOK
    <2> QED BY <2>10, <2>13, <2>15, <2>16, <2>17, <2>18 DEF Inv
  <1> QED BY <1>11, <1>12

(* register_vc_emulation_epoch, and its crashes. *)
LEMMA RegisterStep ==
    ASSUME Inv, NEW e \in Emulators, Register(e) \/ \E k \in 1..3 : RegisterTorn(e, k)
    PROVE  Inv'
  <1>1. TypeOK
    BY DEF Inv
  <1>2. CASE Register(e)
    <2>1. RegisterUpTo(e, 4) /\ UNCHANGED <<building, batch, staged, lost, members>>
      BY <1>2 DEF Register, RegisterUpTo
    <2>2. MemoryOK' /\ StagedOK' /\ Dropped /\ ConsumedGrows
      BY <1>1, <2>1, TypesRest
    <2> QED BY <2>1, <2>2, RegisterUpToStep
  <1>3. ASSUME NEW k \in 1..3, RegisterTorn(e, k) PROVE Inv'
    <2>1. RegisterUpTo(e, k) /\ Forget(e) /\ UNCHANGED members
      BY <1>3 DEF RegisterTorn, RegisterUpTo
    <2>2. /\ MemoryOK' /\ StagedOK' /\ Dropped /\ ConsumedGrows
          /\ \A f \in Emulators : staged'[f] \in {staged[f], None}
      BY <1>1, <2>1, ForgetKeeps
    <2> QED BY <2>1, <2>2, RegisterUpToStep
  <1> QED BY <1>2, <1>3

-----------------------------------------------------------------------------
(* Secrets of the own leaf                                                  *)

(* The head of a ratchet that can be derived is a generation. *)
LEMMA HeadTypes ==
    ASSUME TypeOK, NEW e \in Emulators, NEW ep \in DOMAIN trees[e], NEW leaf \in Emulators,
           NEW type \in OperationTypes, NEW n, n = HeadGeneration(trees[e][ep], leaf, type),
           CanDerive(trees[e][ep], leaf, type, n)
    PROVE  /\ n \in Generations /\ n \in Nat /\ n = trees[e][ep][<<leaf, type>>].next
           /\ ep \in EmulationEpochs
  <1>1. trees[e][ep][<<leaf, type>>].next \in Nat /\ ep \in EmulationEpochs
    BY TreeTypes DEF Cells
  <1>2. n = trees[e][ep][<<leaf, type>>].next
    BY DEF HeadGeneration
  <1>3. n < MaxGeneration
    BY <1>1, <1>2 DEF CanDerive
  <1> QED BY <1>1, <1>2, <1>3, Numbers DEF Generations

(* next_operation_secret moves the own ratchet by one. *)
LEMMA Allocated ==
    ASSUME TypeOK, NEW e \in Emulators, NEW ep \in DOMAIN trees[e], NEW type \in OperationTypes,
           NEW n, n = HeadGeneration(trees[e][ep], e, type), Allocate(e, ep, type)
    PROVE  /\ n \in Generations /\ n \in Nat /\ n = trees[e][ep][<<e, type>>].next
           /\ Moves(e, ep, e, type, n)
           /\ trees'[e][ep][<<e, type>>].next = n + 1
           /\ ep \in EmulationEpochs
  <1>1. /\ n \in Generations /\ n \in Nat /\ n = trees[e][ep][<<e, type>>].next
        /\ ep \in EmulationEpochs
    BY HeadTypes DEF Allocate
  <1>2. Moves(e, ep, e, type, n)
    BY <1>1, StoreDerived DEF Allocate
  <1> QED BY <1>1, <1>2 DEF Moves

(* Nothing was sent under the head of an own ratchet. *)
LEMMA HeadUnsent ==
    ASSUME TypeOK, OwnInv, NEW e \in Emulators, NEW ep \in DOMAIN trees[e], NEW type \in OperationTypes,
           NEW n \in Nat, n = trees[e][ep][<<e, type>>].next
    PROVE  Coordinates(ep, e, type, n) \notin DOMAIN sent
  <1> SUFFICES ASSUME Coordinates(ep, e, type, n) \in DOMAIN sent PROVE FALSE
    OBVIOUS
  <1>1. n < NextOf(e, ep, e, type)
    BY DEF OwnInv, SentBehind, Coordinates
  <1> QED BY <1>1 DEF NextOf

(* Steps that only take a secret of the own leaf from its tree. *)
LEMMA InvMoved ==
    ASSUME Inv, UNCHANGED <<emulation, epochs, members, packages, handled, log, uploads, sent>>,
           NEW e \in Emulators, NEW ep \in DOMAIN trees[e], NEW type \in OperationTypes, NEW n \in Nat,
           Moves(e, ep, e, type, n),
           MemoryOK', StagedOK', OwnInv', PlacesInv', ConsumedGrows
    PROVE  Inv'
  <1>0. TypeOK /\ OwnInv /\ PlacesInv /\ FollowInv /\ WelcomeInv /\ BindingInv
    BY DEF Inv
  <1>1. /\ LogsOK' /\ LogGrows
        /\ \A h \in Groups : \A i \in Len(log[h]) + 1..Len(log'[h]) : FALSE
    BY <1>0, LogRests
  <1>2. TreesOK'
    BY DEF Moves
  <1>3. TypeOK' /\ EpochsGrow
    BY <1>0, <1>1, <1>2, TypesRest DEF TypeOK
  <1>4. OpensAll
    BY <1>0, MovesOpens
  <1>5. HeadsSent'
    BY <1>0, HeadsMove DEF FollowInv
  <1>6. FollowInv'
    BY <1>0, <1>4, <1>5, FollowKept
  <1>7. WelcomeInv'
    BY <1>0, <1>1, <1>3, WelcomeRest
  <1>8. BindingInv'
    BY <1>0, <1>1, <1>3, BindingRest
  <1> QED BY <1>3, <1>6, <1>7, <1>8 DEF Inv

(* A commit builder takes the next generation of the own leaf. *)
LEMMA VcEmulationStep ==
    ASSUME Inv, NEW e \in Emulators, NEW g \in Groups, NEW ep \in epochs[e],
           NEW kind \in {"commit", "external"}, VcEmulation(e, g, ep, kind)
    PROVE  Inv'
  <1> DEFINE n == HeadGeneration(trees[e][ep], e, "leaf_node")
             b == [kind |-> kind, group |-> g, ep |-> ep, at |-> Len(log[g]),
                   resync |-> InGroup(g), generation |-> n]
  <1>0. TypeOK /\ OwnInv /\ PlacesInv
    BY DEF Inv
  <1>1. /\ building[e] = None /\ staged[e] = None
        /\ ep \in DOMAIN trees[e] /\ TreeFree(e, ep)
        /\ IF kind = "commit" THEN members[e][g].pos > 0 /\ members[e][g].pending = None
           ELSE members[e][g].pos = 0
        /\ Allocate(e, ep, "leaf_node")
        /\ building' = [building EXCEPT ![e] = b]
        /\ UNCHANGED <<emulation, epochs, batch, staged, members, packages, handled, log,
                       uploads, sent, lost>>
    BY DEF VcEmulation, Loadable
  <1>2. "leaf_node" \in OperationTypes
    BY DEF OperationTypes
  <1>3. /\ n \in Generations /\ n \in Nat /\ n = trees[e][ep][<<e, "leaf_node">>].next
        /\ Moves(e, ep, e, "leaf_node", n)
        /\ trees'[e][ep][<<e, "leaf_node">>].next = n + 1
        /\ ep \in EmulationEpochs
    BY <1>0, <1>1, <1>2, Allocated
  <1> HIDE DEF n
  <1>4. b \in Builders
    <2>1. InGroup(g) \in BOOLEAN
      BY DEF InGroup
    <2>2. Len(log[g]) \in Nat
      BY <1>0, LogTypes
    <2> QED BY <1>3, <2>1, <2>2 DEF Builders
  <1>5. /\ b.kind = kind /\ b.group = g /\ b.ep = ep /\ b.generation = n
    OBVIOUS
  <1> HIDE DEF b
  <1>6. /\ building'[e] = b /\ \A f \in Emulators : f # e => building'[f] = building[f]
        /\ MemoryOK'
    BY <1>0, <1>1, <1>4 DEF TypeOK, MemoryOK
  <1>7. /\ TreesGrow /\ TreesOK'
        /\ \A f \in Emulators : DOMAIN trees'[f] = DOMAIN trees[f]
        /\ \A f \in Emulators : \A x \in DOMAIN trees[f] : f # e \/ x # ep => trees'[f][x] = trees[f][x]
    BY <1>0, <1>1, <1>2, <1>3, MovesHeads DEF Moves
  <1>8. StagedOK' /\ EpochsGrow /\ ConsumedGrows
    BY <1>0, <1>1, TypesRest
  <1>9. TreesExported'
    BY <1>0, <1>1, <1>7 DEF OwnInv, TreesExported
  <1>10. SentBehind'
    BY <1>0, <1>1, <1>7, SentKept DEF OwnInv
  <1>11. \A f \in Emulators : BuilderOwnsAt(f)'
    <2> SUFFICES ASSUME NEW f \in Emulators PROVE BuilderOwnsAt(f)'
      OBVIOUS
    <2>1. CASE f = e
      <3>1. Coordinates(ep, e, "leaf_node", n) \notin DOMAIN sent'
        BY <1>0, <1>1, <1>2, <1>3, HeadUnsent
      <3>2. ep \in epochs'[e] /\ ep \in DOMAIN trees'[e]
        BY <1>1, <1>7
      <3> QED BY <1>3, <1>5, <1>6, <2>1, <3>1, <3>2 DEF BuilderOwnsAt, NextOf, Coordinates
    <2>2. CASE f # e
      <3>1. BuilderOwnsAt(f) /\ building'[f] = building[f]
        BY <1>0, <1>6, <2>2 DEF OwnInv, BuilderOwns
      <3>2. building'[f] # None =>
              /\ Coordinates(building[f].ep, f, "leaf_node", building[f].generation) \notin DOMAIN sent'
              /\ trees'[f][building[f].ep] = trees[f][building[f].ep]
        BY <1>0, <1>1, <1>7, <2>2, <3>1, OwnTypes
      <3> QED BY <1>0, <1>7, <1>8, <3>1, <3>2, BuilderKept
    <2> QED BY <2>1, <2>2
  <1>12. \A f \in Emulators : BatchOwnsAt(f)'
    <2> SUFFICES ASSUME NEW f \in Emulators PROVE BatchOwnsAt(f)'
      OBVIOUS
    <2>1. BatchOwnsAt(f) /\ batch'[f] = batch[f]
      BY <1>0, <1>1 DEF OwnInv, BatchOwns
    <2>2. batch'[f] # None => trees'[f][batch[f].ep] = trees[f][batch[f].ep]
      BY <1>0, <1>1, <1>7, <2>1, OwnTypes DEF TreeFree
    <2> QED BY <1>0, <1>7, <2>1, <2>2, BatchKept
  <1>13. OwnInv'
    BY <1>9, <1>10, <1>11, <1>12 DEF OwnInv, BuilderOwns, BatchOwns
  <1>14. PlacesInv'
    <2>1. StagedNextAt(e)'
      BY <1>1 DEF StagedNextAt
    <2>2. BuilderFitsAt(e)'
      BY <1>1, <1>5, <1>6 DEF BuilderFitsAt
    <2> QED BY <1>0, <1>1, <1>6, <2>1, <2>2, PlacesMemory
  <1> QED BY <1>1, <1>2, <1>3, <1>6, <1>8, <1>13, <1>14, InvMoved

(* A batch builder holds what its tree would become. *)
LEMMA NewBatchStep ==
    ASSUME Inv, NEW e \in Emulators, NEW ep \in epochs[e], NewBatch(e, ep)
    PROVE  Inv'
  <1> DEFINE t == trees[e][ep]
             n == HeadGeneration(t, e, "key_package")
             b == [kind |-> "batch", ep |-> ep, generation |-> n, tree |-> Derived(t, e, "key_package", n)]
  <1>0. TypeOK /\ OwnInv
    BY DEF Inv
  <1>1. /\ ep \in DOMAIN trees[e] /\ CanDerive(t, e, "key_package", n)
        /\ batch' = [batch EXCEPT ![e] = b]
        /\ UNCHANGED <<emulation, epochs, trees, building, staged, members, packages, handled, log,
                       uploads, sent, lost>>
    BY DEF NewBatch, Loadable
  <1>2. "key_package" \in OperationTypes
    BY DEF OperationTypes
  <1>3. n \in Generations /\ n \in Nat /\ n = t[<<e, "key_package">>].next /\ ep \in EmulationEpochs
    BY <1>0, <1>1, <1>2, HeadTypes
  <1>4. t \in Trees
    BY <1>0, <1>1, TreeTypes
  <1> HIDE DEF n
  <1>5. Derived(t, e, "key_package", n) \in Trees
    BY <1>2, <1>3, <1>4, DerivedProperties
  <1>6. /\ b \in Batches /\ b.ep = ep /\ b.generation = n
        /\ b.tree = Derived(t, e, "key_package", n)
    BY <1>3, <1>5 DEF Batches
  <1> HIDE DEF b
  <1>7. batch'[e] = b /\ MemoryOK' /\ \A f \in Emulators : f # e => batch'[f] = batch[f]
    BY <1>0, <1>1, <1>6 DEF TypeOK, MemoryOK
  <1>8. StateOK' /\ StagedOK' /\ SentOK' /\ EpochsGrow /\ TreesOK' /\ TreesExported' /\ ConsumedGrows
    BY <1>0, <1>1, TypesRest
  <1>9. TreesGrow
    <2>1. \A f \in Emulators : \A x \in DOMAIN trees[f], y \in Cells : trees[f][x][y].next \in Nat
      BY <1>0, TreeTypes
    <2> QED BY <1>1, <2>1 DEF TreesGrow
  <1>10. SentBehind'
    BY <1>0, <1>1, <1>8, <1>9, SentKept DEF OwnInv
  <1>11. \A f \in Emulators : BuilderOwnsAt(f)'
    BY <1>0, <1>1 DEF OwnInv, BuilderOwns, BuilderOwnsAt, NextOf, Coordinates
  <1>12. \A f \in Emulators : BatchOwnsAt(f)'
    <2> SUFFICES ASSUME NEW f \in Emulators PROVE BatchOwnsAt(f)'
      OBVIOUS
    <2>1. CASE f = e
      <3>1. /\ b.ep \in DOMAIN trees'[e] /\ b.generation = trees'[e][b.ep][<<e, "key_package">>].next
            /\ b.tree = Derived(trees'[e][b.ep], e, "key_package", b.generation)
        BY <1>1, <1>3, <1>6
      <3> QED BY <1>7, <2>1, <3>1 DEF BatchOwnsAt, NextOf, Derived
    <2>2. CASE f # e
      <3>1. BatchOwnsAt(f) /\ batch'[f] = batch[f]
        BY <1>0, <1>7, <2>2 DEF OwnInv, BatchOwns
      <3> QED BY <1>0, <1>1, <1>9, <3>1, BatchKept
    <2> QED BY <2>1, <2>2
  <1>13. OwnInv'
    BY <1>8, <1>10, <1>11, <1>12 DEF OwnInv, BuilderOwns, BatchOwns
  <1> QED BY <1>1, <1>7, <1>8, <1>13, InvStill

(* A crash after the secret of a key package or of a group was taken. *)
LEMMA TornMove ==
    ASSUME Inv, UNCHANGED <<emulation, epochs, members, packages, handled, log, uploads, sent>>,
           NEW e \in Emulators, NEW ep \in DOMAIN trees[e], NEW n \in Nat,
           Moves(e, ep, e, "key_package", n), Forget(e)
    PROVE  Inv'
  <1>0. TypeOK /\ OwnInv /\ PlacesInv
    BY DEF Inv
  <1>1. /\ MemoryOK' /\ StagedOK' /\ Dropped /\ ConsumedGrows
        /\ \A f \in Emulators : staged'[f] \in {staged[f], None}
        /\ building'[e] = None /\ batch'[e] = None
    BY <1>0, ForgetKeeps
  <1>2. "key_package" \in OperationTypes /\ EpochsGrow
    BY DEF OperationTypes, EpochsGrow
  <1>3. OwnInv'
    BY <1>0, <1>1, <1>2, OwnMoves
  <1>4. /\ LogsOK' /\ LogGrows
        /\ \A h \in Groups : \A i \in Len(log[h]) + 1..Len(log'[h]) : FALSE
    BY <1>0, LogRests
  <1>5. PlacesInv'
    BY <1>0, <1>1, <1>2, <1>4, PlacesRest DEF Dropped
  <1> QED BY <1>1, <1>2, <1>3, <1>5, InvMoved

(* What an open batch writes is a move of its ratchet. *)
LEMMA BatchMoves ==
    ASSUME TypeOK, OwnInv, NEW e \in Emulators, batch[e] # None, StoreTree(e, batch[e].ep, batch[e].tree)
    PROVE  LET b == batch[e] IN
           /\ b.ep \in DOMAIN trees[e] /\ b.ep \in EmulationEpochs
           /\ b.generation \in Generations /\ b.generation \in Nat
           /\ b.generation = trees[e][b.ep][<<e, "key_package">>].next
           /\ Moves(e, b.ep, e, "key_package", b.generation)
  <1> DEFINE b == batch[e]
  <1>1. b \in Batches /\ b.ep \in DOMAIN trees[e]
    BY OwnTypes
  <1>2. /\ b.generation = trees[e][b.ep][<<e, "key_package">>].next
        /\ b.tree = Derived(trees[e][b.ep], e, "key_package", b.generation)
    BY DEF OwnInv, BatchOwns, BatchOwnsAt, NextOf
  <1>3. b.generation \in Generations /\ b.generation \in Nat /\ b.ep \in EmulationEpochs
    BY <1>1 DEF Batches, Generations
  <1>4. StoreTree(e, b.ep, Derived(trees[e][b.ep], e, "key_package", b.generation))
    BY <1>2
  <1>5. "key_package" \in OperationTypes
    BY DEF OperationTypes
  <1> HIDE DEF b
  <1>6. Moves(e, b.ep, e, "key_package", b.generation)
    BY <1>1, <1>3, <1>4, <1>5, StoreDerived
  <1> QED BY <1>1, <1>2, <1>3, <1>6 DEF b

(* finalize is torn after the tree was written. *)
LEMMA FinalizeTornStep == ASSUME Inv, NEW e \in Emulators, FinalizeTorn(e) PROVE Inv'
  <1>0. TypeOK /\ OwnInv
    BY DEF Inv
  <1>1. /\ batch[e] # None /\ StoreTree(e, batch[e].ep, batch[e].tree) /\ Forget(e)
        /\ UNCHANGED <<emulation, epochs, members, packages, handled, log, uploads, sent>>
    BY DEF FinalizeTorn
  <1>2. /\ batch[e].ep \in DOMAIN trees[e] /\ batch[e].generation \in Nat
        /\ Moves(e, batch[e].ep, e, "key_package", batch[e].generation)
    BY <1>0, <1>1, BatchMoves
  <1> QED BY <1>1, <1>2, TornMove

-----------------------------------------------------------------------------
(* Steps of logs and uploads                                                *)

(* Everything sent by a client is below the head of its ratchet. *)
LEMMA SentBelow ==
    ASSUME OwnInv, NEW e, NEW ep, NEW type, NEW k, Coordinates(ep, e, type, k) \in DOMAIN sent
    PROVE  k < trees[e][ep][<<e, type>>].next
  BY DEF OwnInv, SentBehind, NextOf, Coordinates

(* What siblings follow, when a log gets an entry. *)
LEMMA FollowAppended ==
    ASSUME TypeOK, FollowInv, LogsOK', UNCHANGED uploads, ConsumedGrows, OpensAll, HeadsSent',
           \A f \in Emulators : handled[f] \subseteq handled'[f],
           NEW g \in Groups, NEW c, Appended(g, c), DOMAIN sent \subseteq DOMAIN sent',
           IsLeaf(c) => LeafCoordinates(c) \in DOMAIN sent' \ DOMAIN sent,
           c.kind = "create" => CreationCoordinates(c) \in DOMAIN sent' \ DOMAIN sent,
           \A f \in Emulators :
              IsLeaf(c) /\ c.info.tbe.leaf # f /\ c.info.epoch_id \in DOMAIN trees'[f]
              => Open(trees'[f][c.info.epoch_id], c.info.tbe.leaf, "leaf_node", c.info.tbe.generation)
    PROVE  FollowInv'
  <1>1. LogGrows
    BY AppendedGrows
  <1>2. AllSent' /\ SecretsDiffer'
    BY SentEntry DEF FollowInv
  <1>3. \A h \in Groups : \A i \in Len(log[h]) + 1..Len(log'[h]) : log'[h][i] = c
    BY LogTypes DEF Appended
  <1>4. CommitsOpen'
    BY <1>1, <1>3, CommitsKept DEF FollowInv
  <1>5. UploadsOpen'
    <2>1. Len(uploads') \in Nat /\ \A u \in Len(uploads) + 1..Len(uploads') : FALSE
      BY UploadTypes
    <2>2. "key_package" \in OperationTypes
      BY DEF OperationTypes
    <2>3. \A f \in Emulators : \A x \in DOMAIN trees'[f] : \A l \in Emulators, k \in Nat :
             f # l /\ (x \in DOMAIN trees[f] => Open(trees[f][x], l, "key_package", k))
             => Open(trees'[f][x], l, "key_package", k)
      BY <2>2 DEF OpensAll
    <2> QED BY <2>1, <2>3, UploadsKept DEF FollowInv
  <1> QED BY <1>2, <1>4, <1>5 DEF FollowInv

(* An entry of another member. *)
LEMMA InvAppended ==
    ASSUME Inv, UNCHANGED <<emulation, epochs, trees, building, batch, staged, members, packages,
                            handled, uploads, sent, lost>>,
           NEW g \in Groups, NEW c \in Entries(g), Appended(g, c), ~ IsLeaf(c), c.kind # "create",
           WelcomeInv'
    PROVE  Inv'
  <1>0. TypeOK /\ OwnInv /\ PlacesInv /\ FollowInv /\ BindingInv
    BY DEF Inv
  <1>1. LogGrows
    BY <1>0, AppendedGrows
  <1>2. LogsOK'
    <2>1. \A h \in Groups : log'[h] \in Seq(Entries(h))
      BY <1>0 DEF Appended, TypeOK, LogsOK
    <2> QED BY <2>1, <1>0 DEF Appended, TypeOK, LogsOK
  <1>3. TypeOK' /\ EpochsGrow /\ Dropped /\ TreesExported' /\ ConsumedGrows
    BY <1>0, <1>2, TypesRest DEF TypeOK
  <1>4. OwnInv'
    BY <1>0, <1>3, OwnSame
  <1>5. \A h \in Groups : \A i \in Len(log[h]) + 1..Len(log'[h]) : log'[h][i] = c
    BY <1>0, LogTypes DEF Appended
  <1>6. PlacesInv'
    BY <1>0, <1>1, <1>2, <1>3, <1>5, PlacesRest
  <1>7. FollowInv'
    <2>1. OpensAll /\ HeadsSent'
      BY <1>0, SameOpens, HeadsSame DEF FollowInv
    <2> QED BY <1>0, <1>2, <1>3, <2>1, FollowAppended
  <1>8. BindingInv'
    BY <1>0, <1>1, <1>3, BindingRest
  <1> QED BY <1>3, <1>4, <1>6, <1>7, <1>8 DEF Inv

(* A commit of another member, or the removal of the virtual client. *)
LEMMA OtherCommitsStep ==
    ASSUME Inv, NEW g \in Groups, NEW kind \in {"other", "remove"}, OtherCommits(g, kind)
    PROVE  Inv'
  <1> DEFINE c == Entry(kind, None, NoTerm, <<>>, FALSE)
  <1>0. TypeOK /\ WelcomeInv
    BY DEF Inv
  <1>1. /\ log' = [log EXCEPT ![g] = Append(@, c)]
        /\ UNCHANGED <<emulation, epochs, trees, building, batch, staged, members, packages,
                       handled, uploads, sent, lost>>
    BY DEF OtherCommits
  <1>2. c \in Entries(g)
    BY DEF Entries, Plain
  <1>3. c.kind = kind
    BY DEF Entry
  <1> HIDE DEF c
  <1>4. Appended(g, c)
    BY <1>0, <1>1, <1>2, AppendLog
  <1>5. ~ IsLeaf(c) /\ c.kind # "create" /\ c.kind # "add"
    BY <1>3 DEF IsLeaf
  <1>6. LogsOK' /\ LogGrows
    <2>1. \A h \in Groups : log'[h] \in Seq(Entries(h))
      BY <1>0, <1>4 DEF Appended, TypeOK, LogsOK
    <2> QED BY <2>1, <1>0, <1>1, <1>4, AppendedGrows DEF Appended, TypeOK, LogsOK
  <1>7. \A h \in Groups : \A i \in Len(log[h]) + 1..Len(log'[h]) : log'[h][i] = c
    BY <1>0, <1>4, LogTypes DEF Appended
  <1>8. EpochsGrow /\ ConsumedGrows
    BY <1>0, <1>1, TypesRest
  <1>9. WelcomeInv'
    BY <1>0, <1>1, <1>5, <1>6, <1>7, <1>8, WelcomeRest
  <1> QED BY <1>1, <1>2, <1>4, <1>5, <1>9, InvAppended

(* A member adds the virtual client. *)
LEMMA OtherAddsStep ==
    ASSUME Inv, NEW g \in Groups, NEW u \in DOMAIN uploads, NEW index \in 0..(BatchSize - 1),
           OtherAdds(g, u, index)
    PROVE  Inv'
  <1> DEFINE c == PackageEntry("add", uploads[u], index, <<u, index>>)
  <1>0. TypeOK /\ WelcomeInv
    BY DEF Inv
  <1>1. /\ ~ Used(<<u, index>>)
        /\ log' = [log EXCEPT ![g] = Append(@, c)]
        /\ UNCHANGED <<emulation, epochs, trees, building, batch, staged, members, packages,
                       handled, uploads, sent, lost>>
    BY DEF OtherAdds, PackageEntry
  <1>2. u \in 1..Len(uploads) /\ u \in Nat /\ uploads[u] \in Uploads
    BY <1>0, UploadTypes
  <1>3. c \in Entries(g)
    BY <1>2 DEF Entries, Additions
  <1>4. c.kind = "add"
    BY DEF PackageEntry, Entry
  <1> HIDE DEF c
  <1>5. Appended(g, c)
    BY <1>0, <1>1, <1>3, AppendLog
  <1>6. ~ IsLeaf(c) /\ c.kind # "create"
    BY <1>4 DEF IsLeaf
  <1>7. LogsOK'
    <2>1. \A h \in Groups : log'[h] \in Seq(Entries(h))
      BY <1>0, <1>5 DEF Appended, TypeOK, LogsOK
    <2> QED BY <2>1, <1>0, <1>1, <1>5 DEF Appended, TypeOK, LogsOK
  <1>8. ConsumedGrows
    BY <1>0, <1>1, TypesRest
  <1>9. WelcomeInv'
    BY <1>0, <1>1, <1>2, <1>5, <1>7, <1>8, WelcomeAdded DEF c
  <1> QED BY <1>1, <1>3, <1>5, <1>6, <1>9, InvAppended

(* A batch of key packages is stored and its upload sent. *)
LEMMA FinalizeBatchStep == ASSUME Inv, NEW e \in Emulators, FinalizeBatch(e) PROVE Inv'
  <1> DEFINE b == batch[e]
             ep == b.ep
             n == b.generation
             s == Coordinates(ep, e, "key_package", n)
             up == [ep |-> ep, leaf |-> e, generation |-> n]
             v == Len(uploads) + 1
  <1>0. TypeOK /\ OwnInv /\ PlacesInv /\ FollowInv /\ WelcomeInv /\ BindingInv
    BY DEF Inv
  <1>1. /\ b # None /\ StoreTree(e, b.ep, b.tree)
        /\ packages' = [packages EXCEPT ![e] = packages[e] \union Batch(v)]
        /\ uploads' = Append(uploads, up)
        /\ Leaves(s)
        /\ batch' = [batch EXCEPT ![e] = None]
        /\ UNCHANGED <<emulation, epochs, building, staged, members, handled, log, lost>>
    BY DEF FinalizeBatch
  <1>2. /\ ep \in DOMAIN trees[e] /\ ep \in EmulationEpochs
        /\ n \in Generations /\ n \in Nat
        /\ n = trees[e][ep][<<e, "key_package">>].next
        /\ Moves(e, ep, e, "key_package", n)
    BY <1>0, <1>1, BatchMoves
  <1> HIDE DEF b, ep, n
  <1>3. up \in Uploads /\ UploadCoordinates(up) = s
    BY <1>2 DEF Uploads, UploadCoordinates
  <1>4. up.ep = ep /\ up.leaf = e /\ up.generation = n
    OBVIOUS
  <1> HIDE DEF up, s
  <1>5. Uploaded(up) /\ Len(uploads) \in Nat /\ v \in Nat
    <2>1. uploads \in Seq(Uploads) /\ Len(uploads) \in Nat
      BY <1>0, UploadTypes
    <2> QED BY <1>1, <1>3, <2>1, AppendProperties DEF Uploaded
  <1> HIDE DEF v
  <1>6. batch'[e] = None /\ Dropped /\ MemoryOK'
    BY <1>0, <1>1 DEF TypeOK, MemoryOK, Dropped
  <1>7. /\ OwnInv' /\ SentOK' /\ s \notin DOMAIN sent /\ DOMAIN sent' = DOMAIN sent \union {s}
    BY <1>0, <1>1, <1>2, <1>6, OwnSends DEF s
  <1>8. LogsOK' /\ LogGrows /\ UploadsGrow
    <2>1. \A h \in Groups : Len(log[h]) \in Nat
      BY <1>0, LogTypes
    <2> QED BY <2>1, <1>0, <1>1, <1>5 DEF TypeOK, LogsOK, LogGrows, Uploaded, UploadsGrow
  <1>9. StagedOK' /\ GroupsOK' /\ EpochsGrow /\ ConsumedGrows
    BY <1>0, <1>1, TypesRest
  <1>10. StateOK'
    <2>1. Batch(v) \subseteq Nat \X Nat
      BY <1>5, Numbers DEF Batch
    <2> QED BY <1>0, <1>1, <2>1 DEF TypeOK, StateOK
  <1>11. TypeOK'
    BY <1>2, <1>6, <1>7, <1>8, <1>9, <1>10 DEF TypeOK, Moves
  <1>12. \A h \in Groups : \A i \in Len(log[h]) + 1..Len(log'[h]) : FALSE
    BY <1>0, <1>1, LogTypes
  <1>13. PlacesInv'
    BY <1>0, <1>1, <1>8, <1>9, <1>12, PlacesRest
  <1>14. "key_package" \in OperationTypes
    BY DEF OperationTypes
  <1>15. OpensAll
    BY <1>0, <1>2, <1>14, MovesOpens
  <1>16. HeadsSent'
    BY <1>0, <1>2, <1>7, <1>14, HeadsMove DEF FollowInv
  <1>17. AllSent' /\ SecretsDiffer'
    BY <1>0, <1>1, <1>3, <1>5, <1>7, SentUpload DEF FollowInv
  <1>18. CommitsOpen'
    BY <1>0, <1>8, <1>9, <1>12, <1>15, CommitsKept DEF FollowInv
  <1>19. UploadsOpen'
    <2>1. ASSUME NEW f \in Emulators, f # e, ep \in DOMAIN trees'[f]
          PROVE  Open(trees'[f][ep], e, "key_package", n)
      <3>1. ep \in DOMAIN trees[f] /\ trees'[f][ep] = trees[f][ep]
        BY <1>2, <2>1 DEF Moves
      <3>2. \A k \in Nat : Coordinates(ep, e, "key_package", k) \in DOMAIN sent => k < n
        BY <1>0, <1>2, SentBelow
      <3>3. Open(trees[f][ep], e, "key_package", n)
        BY <1>0, <1>2, <1>14, <2>1, <3>1, <3>2, AheadOpen DEF FollowInv
      <3> QED BY <3>1, <3>3
    <2>2. \A u \in Len(uploads) + 1..Len(uploads') : uploads'[u] = up
      BY <1>5 DEF Uploaded
    <2>3. \A f \in Emulators : \A u \in Len(uploads) + 1..Len(uploads') :
             uploads'[u].leaf # f /\ uploads'[u].ep \in DOMAIN trees'[f]
             => Open(trees'[f][uploads'[u].ep], uploads'[u].leaf, "key_package", uploads'[u].generation)
      BY <1>4, <2>1, <2>2
    <2>4. \A f \in Emulators : \A x \in DOMAIN trees'[f] : \A l \in Emulators, k \in Nat :
             f # l /\ (x \in DOMAIN trees[f] => Open(trees[f][x], l, "key_package", k))
             => Open(trees'[f][x], l, "key_package", k)
      BY <1>14, <1>15 DEF OpensAll
    <2>5. Len(uploads') \in Nat /\ \A u \in 1..Len(uploads) : uploads'[u] = uploads[u]
      BY <1>5 DEF Uploaded
    <2>6. \A f \in Emulators : handled[f] \subseteq handled'[f]
      BY <1>1
    <2> QED BY <1>0, <2>3, <2>4, <2>5, <2>6, UploadsKept DEF FollowInv
  <1>20. WelcomeInv'
    <2>1. \A f \in Emulators : packages[f] \subseteq packages'[f]
      BY <1>0, <1>1 DEF TypeOK, StateOK
    <2>2. \A f \in Emulators : \A u \in Len(uploads) + 1..Len(uploads') :
              uploads'[u].leaf = f => Batch(u) \subseteq packages'[f]
      <3>1. \A u \in Len(uploads) + 1..Len(uploads') : u = v /\ uploads'[u] = up
        BY <1>5 DEF Uploaded, v
      <3>2. Batch(v) \subseteq packages'[e]
        BY <1>0, <1>1 DEF TypeOK, StateOK
      <3> QED BY <1>4, <3>1, <3>2
    <2> QED BY <1>0, <1>1, <1>8, <1>9, <2>1, <2>2, WelcomeStored
  <1>21. BindingInv'
    BY <1>0, <1>1, <1>8, <1>9, BindingRest
  <1> QED BY <1>7, <1>11, <1>13, <1>16, <1>17, <1>18, <1>19, <1>20, <1>21 DEF Inv, FollowInv

(* A sibling's upload is processed. *)
LEMMA ProcessUploadStep ==
    ASSUME Inv, NEW e \in Emulators, NEW u \in DOMAIN uploads, ProcessUpload(e, u)
    PROVE  Inv'
  <1> DEFINE up == uploads[u]
             ep == up.ep
             n == up.generation
  <1>0. TypeOK /\ OwnInv /\ PlacesInv /\ FollowInv /\ WelcomeInv /\ BindingInv
    BY DEF Inv
  <1>1. /\ up.leaf # e /\ ep \in epochs[e] /\ ep \in DOMAIN trees[e] /\ TreeFree(e, ep)
        /\ StoreTree(e, ep, Derived(trees[e][ep], up.leaf, "key_package", n))
        /\ packages' = [packages EXCEPT ![e] = packages[e] \union Batch(u)]
        /\ handled' = [handled EXCEPT ![e] = handled[e] \union {u}]
        /\ UNCHANGED <<emulation, epochs, building, batch, staged, members, log, uploads, sent, lost>>
    BY DEF ProcessUpload, Loadable, Retained
  <1>2. /\ u \in 1..Len(uploads) /\ u \in Nat /\ up.leaf \in Emulators /\ n \in Generations /\ n \in Nat
    BY <1>0, UploadTypes
  <1>3. "key_package" \in OperationTypes
    BY DEF OperationTypes
  <1>4. UploadCoordinates(up) = Coordinates(ep, up.leaf, "key_package", n)
        /\ UploadCoordinates(up) \in DOMAIN sent
    BY <1>0, <1>2 DEF UploadCoordinates, FollowInv, AllSent
  <1>5. \A w \in 1..Len(uploads) :
           UploadCoordinates(uploads[w]) = Coordinates(ep, up.leaf, "key_package", n) => w = u
    BY <1>0, <1>2, <1>4 DEF FollowInv, SecretsDiffer
  <1> HIDE DEF ep, n
  <1>6. Moves(e, ep, up.leaf, "key_package", n)
    BY <1>0, <1>1, <1>2, <1>3, StoreDerived
  <1>7. /\ LogsOK' /\ LogGrows /\ UploadsGrow
        /\ \A h \in Groups : \A i \in Len(log[h]) + 1..Len(log'[h]) : FALSE
    BY <1>0, <1>1, LogRests
  <1>8. MemoryOK' /\ StagedOK' /\ GroupsOK' /\ SentOK' /\ EpochsGrow /\ Dropped /\ ConsumedGrows
    BY <1>0, <1>1, TypesRest
  <1>9. StateOK'
    <2>1. Batch(u) \subseteq Nat \X Nat
      BY <1>2, Numbers DEF Batch
    <2> QED BY <1>0, <1>1, <1>2, <2>1 DEF TypeOK, StateOK
  <1>10. TypeOK'
    BY <1>6, <1>7, <1>8, <1>9 DEF TypeOK, Moves
  <1>11. OwnInv'
    BY <1>0, <1>1, <1>2, <1>3, <1>6, <1>8, OwnMoves DEF TreeFree
  <1>12. PlacesInv'
    BY <1>0, <1>1, <1>7, <1>8, PlacesRest
  <1>13. OpensBut(e, ep, up.leaf, "key_package", n)
    BY <1>0, <1>1, <1>2, <1>3, <1>6, MovesOpens
  <1>14. HeadsSent'
    BY <1>0, <1>1, <1>2, <1>3, <1>4, <1>6, HeadsMove DEF FollowInv
  <1>15. AllSent' /\ SecretsDiffer'
    BY <1>0, <1>1, SentSame DEF FollowInv
  <1>16. CommitsOpen'
    BY <1>0, <1>1, <1>8, <1>13, CommitsOther DEF FollowInv
  <1>17. u \in handled'[e] /\ \A f \in Emulators : handled[f] \subseteq handled'[f]
    BY <1>0, <1>1 DEF TypeOK, StateOK
  <1>18. UploadsOpen'
    BY <1>0, <1>1, <1>5, <1>13, <1>17, UploadsMove DEF FollowInv
  <1>19. WelcomeInv'
    <2>1. \A f \in Emulators : packages[f] \subseteq packages'[f]
      BY <1>0, <1>1 DEF TypeOK, StateOK
    <2>2. \A f \in Emulators : \A w \in handled'[f] \ handled[f] :
              w \in 1..Len(uploads') /\ uploads'[w].ep \in epochs[f] /\ Batch(w) \subseteq packages'[f]
      <3>1. Batch(u) \subseteq packages'[e]
        BY <1>0, <1>1 DEF TypeOK, StateOK
      <3>2. \A f \in Emulators : \A w \in handled'[f] \ handled[f] : f = e /\ w = u
        BY <1>0, <1>1 DEF TypeOK, StateOK
      <3>3. u \in 1..Len(uploads') /\ uploads'[u].ep \in epochs[e]
        BY <1>1, <1>2 DEF ep
      <3> QED BY <3>1, <3>2, <3>3
    <2>3. \A w \in Len(uploads) + 1..Len(uploads') : FALSE
      BY <1>0, <1>1, UploadTypes
    <2> QED BY <1>0, <1>1, <1>7, <1>8, <2>1, <2>2, <2>3, WelcomeStored
  <1>20. BindingInv'
    BY <1>0, <1>1, <1>7, <1>8, BindingRest
  <1> QED BY <1>10, <1>11, <1>12, <1>14, <1>15, <1>16, <1>18, <1>19, <1>20 DEF Inv, FollowInv

-----------------------------------------------------------------------------
(* Steps of one group                                                       *)

(* What was staged is merged, or nothing was. *)
Cleared(e) ==
    DOMAIN staged' = DOMAIN staged
    /\ \A f \in Emulators : staged'[f] = IF f = e THEN None ELSE staged[f]

(* A group moves on with what was staged for it or with the next entry. *)
LEMMA InvMember ==
    ASSUME Inv, UNCHANGED <<emulation, epochs, trees, building, batch, packages, handled, log, uploads,
                            sent, lost>>,
           NEW e \in Emulators, NEW g \in Groups, NEW r, Stores(e, g, r),
           IsStoredGroup(r), BoundAt(e, g)', PositionAt(e, g)', OwnBehindAt(e, g)',
           Seen(e, g) <= Seen(e, g)', Seen(e, g)' \in Nat,
           building[e] # None => building[e].group # g,
           Cleared(e),
           staged[e] # None => staged[e].group = g /\ staged[e].pos <= Seen(e, g)'
    PROVE  Inv'
  <1>0. TypeOK /\ OwnInv /\ PlacesInv /\ FollowInv /\ WelcomeInv /\ BindingInv
    BY DEF Inv
  <1>1. /\ \A f \in Emulators, h \in Groups : f # e \/ h # g => members'[f][h] = members[f][h]
        /\ GroupsOK'
    BY <1>0, GroupStored
  <1>2. staged'[e] = None /\ \A f \in Emulators : f # e => staged'[f] = staged[f]
    BY DEF Cleared
  <1>3. StagedOK'
    <2>1. DOMAIN staged' = Emulators
      BY <1>0 DEF TypeOK, StagedOK, Cleared
    <2>2. \A f \in Emulators : staged'[f] = None \/ IsStaged(staged'[f])
      BY <1>0, <1>2 DEF TypeOK, StagedOK
    <2> QED BY <2>1, <2>2 DEF StagedOK, IsStaged
  <1>4. /\ LogsOK' /\ LogGrows
        /\ \A h \in Groups : \A i \in Len(log[h]) + 1..Len(log'[h]) : FALSE
    BY <1>0, LogRests
  <1>5. MemoryOK' /\ StateOK' /\ SentOK' /\ TreesOK' /\ EpochsGrow /\ Dropped /\ TreesExported'
    BY <1>0, TypesRest
  <1>6. TypeOK'
    BY <1>1, <1>3, <1>4, <1>5 DEF TypeOK
  <1>7. OwnInv'
    BY <1>0, <1>5, OwnSame
  <1>8. PlacesInv'
    BY <1>0, <1>1, <1>2, <1>4, <1>5, PlacesMember
  <1>9. ConsumedGrows
    <2>1. ASSUME NEW f \in Emulators, NEW h \in Groups
          PROVE  Seen(f, h) <= Seen(f, h)' /\ Seen(f, h)' \in Nat
      <3>1. CASE f = e /\ h = g
        BY <3>1
      <3>2. CASE f # e \/ h # g
        <4>1. Seen(f, h)' = Seen(f, h) /\ Seen(f, h) \in Nat
          BY <1>0, <1>1, <3>2, SeenSame
        <4> QED BY <4>1
      <3> QED BY <3>1, <3>2
    <2>2. \A f \in Emulators : \/ staged[f] = None
                               \/ staged'[f] = staged[f]
                               \/ \A h \in Groups : staged[f].group = h => staged[f].pos <= Seen(f, h)'
      BY <1>2
    <2> QED BY <1>0, <2>1, <2>2, ConsumedKept
  <1>10. FollowInv'
    <2>1. OpensAll /\ HeadsSent'
      BY <1>0, SameOpens, HeadsSame DEF FollowInv
    <2> QED BY <1>0, <1>9, <2>1, FollowKept
  <1>11. WelcomeInv'
    BY <1>0, <1>4, <1>5, <1>9, WelcomeRest
  <1>12. BindingInv'
    BY <1>0, <1>1, <1>4, <1>5, BindingMember
  <1> QED BY <1>6, <1>7, <1>8, <1>10, <1>11, <1>12 DEF Inv

(* A commit is merged: the own one, that of another member, or a staged one. *)
LEMMA InvMerged ==
    ASSUME Inv, UNCHANGED <<emulation, epochs, trees, building, batch, packages, handled, log, uploads,
                            sent, lost>>,
           NEW e \in Emulators, NEW g \in Groups, NEW ep, NEW key, NEW c,
           members[e][g].pos \in 1..(Len(log[g]) - 1), c = log[g][members[e][g].pos + 1],
           \/ IsLeaf(c) /\ ep = c.info.epoch_id /\ ep \in epochs[e]
           \/ c.kind = "other" /\ ep = 0,
           Stores(e, g, Merged(members[e][g], members[e][g].pos + 1, ep, key)),
           building[e] # None => building[e].group # g,
           Cleared(e),
           staged[e] # None => staged[e].group = g /\ staged[e].pos = members[e][g].pos + 1
    PROVE  Inv'
  <1> DEFINE m == members[e][g]
             r == Merged(m, m.pos + 1, ep, key)
  <1>0. TypeOK /\ PlacesInv /\ BindingInv
    BY DEF Inv
  <1>1. m.pos \in Nat /\ m.pos > 0 /\ IsStoredGroup(m) /\ Len(log[g]) \in Nat
    BY <1>0, GroupTypes, LogTypes
  <1>2. members'[e][g] = r
    BY <1>0, GroupStored
  <1>3. r.pos = m.pos + 1 /\ r.since = m.since /\ r.pending = None
    <2>1. m.pos + 1 \in Nat
      BY <1>1
    <2> HIDE DEF m
    <2> QED BY <1>1, <2>1, MergedFields
  <1>4. PositionAt(e, g)' /\ OwnBehindAt(e, g)'
    BY <1>0, <1>2, <1>3, MergedPlace
  <1>5. IsStoredGroup(members'[e][g]) /\ BoundAt(e, g)'
    <2>1. EpochsGrow /\ PositionAt(e, g) /\ BoundAt(e, g)
      BY <1>0 DEF EpochsGrow, PlacesInv, Positions, BindingInv
    <2> QED BY <1>0, <1>2, <2>1, BoundMerged
  <1>6. Seen(e, g) = m.pos /\ Seen(e, g)' = m.pos + 1
    BY <1>1, <1>2, <1>3 DEF Seen
  <1>7. Seen(e, g) <= Seen(e, g)' /\ Seen(e, g)' \in Nat
        /\ (staged[e] # None => staged[e].group = g /\ staged[e].pos <= Seen(e, g)')
    BY <1>1, <1>6
  <1> HIDE DEF r
  <1> QED BY <1>2, <1>4, <1>5, <1>7, InvMember DEF r

(* The own pending commit comes back. *)
LEMMA ProcessOwnStep == ASSUME Inv, NEW e \in Emulators, NEW g \in Groups, ProcessOwn(e, g) PROVE Inv'
  <1> DEFINE m == members[e][g]
             c == log[g][m.pos + 1]
  <1>0. TypeOK /\ PlacesInv
    BY DEF Inv
  <1>1. /\ m.pos \in 1..(Len(log[g]) - 1) /\ staged[e] = None
        /\ building[e] # None => building[e].group # g
        /\ c = m.pending
        /\ Stores(e, g, Merged(members[e][g], members[e][g].pos + 1, c.info.epoch_id, c.key))
        /\ UNCHANGED <<emulation, epochs, trees, building, batch, staged, packages, handled, log,
                       uploads, sent, lost>>
    BY DEF ProcessOwn, CanProcess, NextEntry, Stores
  <1>2. Len(log[g]) \in Nat
    BY <1>0, LogTypes
  <1>3. m.pos + 1 \in 1..Len(log[g])
    BY <1>1, <1>2
  <1>4. c \in Entries(g)
    BY <1>0, <1>3, LogTypes
  <1>5. c # None
    <2>1. c.kind # None.kind
      BY <1>4, EntryFields DEF None
    <2> QED BY <2>1
  <1>6. c.kind = "commit" /\ c.info.epoch_id \in epochs[e]
    BY <1>0, <1>1, <1>5 DEF PlacesInv, Positions, PositionAt
  <1>7. IsLeaf(c) /\ Cleared(e)
    BY <1>1, <1>6 DEF IsLeaf, Cleared
  <1> HIDE DEF c
  <1> QED BY <1>1, <1>6, <1>7, InvMerged DEF c

(* A commit of another member comes in. *)
LEMMA ProcessOtherStep == ASSUME Inv, NEW e \in Emulators, NEW g \in Groups, ProcessOther(e, g) PROVE Inv'
  <1> DEFINE m == members[e][g]
             c == log[g][m.pos + 1]
  <1>0. TypeOK
    BY DEF Inv
  <1>1. /\ m.pos \in 1..(Len(log[g]) - 1) /\ staged[e] = None
        /\ building[e] # None => building[e].group # g
        /\ c.kind = "other"
        /\ Stores(e, g, Merged(members[e][g], members[e][g].pos + 1, 0, NoTerm))
        /\ UNCHANGED <<emulation, epochs, trees, building, batch, staged, packages, handled, log,
                       uploads, sent, lost>>
    BY DEF ProcessOther, CanProcess, NextEntry, Stores
  <1>2. Cleared(e)
    BY <1>1 DEF Cleared
  <1> HIDE DEF c
  <1> QED BY <1>1, <1>2, InvMerged DEF c

(* The virtual client is removed. *)
LEMMA ProcessRemovalStep ==
    ASSUME Inv, NEW e \in Emulators, NEW g \in Groups, ProcessRemoval(e, g)
    PROVE  Inv'
  <1> DEFINE m == members[e][g]
             n == m.pos + 1
             r == Removed(n)
  <1>0. TypeOK /\ PlacesInv
    BY DEF Inv
  <1>1. /\ m.pos \in 1..(Len(log[g]) - 1) /\ staged[e] = None
        /\ building[e] # None => building[e].group # g
        /\ log[g][n].kind = "remove"
        /\ Stores(e, g, r)
        /\ UNCHANGED <<emulation, epochs, trees, building, batch, staged, packages, handled, log,
                       uploads, sent, lost>>
    BY DEF ProcessRemoval, CanProcess, NextEntry, Stores
  <1>2. m.pos \in Nat /\ m.pos > 0 /\ Len(log[g]) \in Nat /\ n \in Nat
    BY <1>0, <1>1, GroupTypes, LogTypes
  <1>3. members'[e][g] = r
    BY <1>0, <1>1, GroupStored
  <1>4. r.pos = 0 /\ r.since = n /\ r.pending = None
    BY DEF Removed
  <1>5. IsStoredGroup(r) /\ BoundAt(e, g)'
    BY <1>2, <1>3, BoundRemoved
  <1> HIDE DEF r
  <1>6. Seen(e, g) = m.pos /\ Seen(e, g)' = n
    BY <1>2, <1>3, <1>4 DEF Seen
  <1>7. PositionAt(e, g)'
    BY <1>1, <1>2, <1>3, <1>4, <1>6 DEF PositionAt
  <1>8. OwnBehindAt(e, g)'
    <2>1. OwnBehindAt(e, g)
      BY <1>0 DEF PlacesInv, OwnBehind
    <2>2. \A i \in 1..Len(log[g]) : IsLeaf(log[g][i]) /\ log[g][i].info.tbe.leaf = e => ~ (i > n)
      BY <1>2, <1>6, <2>1 DEF OwnBehindAt
    <2>3. log' = log
      BY <1>1
    <2> QED BY <1>6, <2>2, <2>3 DEF OwnBehindAt, IsLeaf
  <1>9. Cleared(e) /\ Seen(e, g) <= Seen(e, g)' /\ Seen(e, g)' \in Nat
    BY <1>1, <1>2, <1>6 DEF Cleared
  <1> QED BY <1>1, <1>5, <1>7, <1>8, <1>9, InvMember

(* What was staged is merged. *)
LEMMA MergeStagedStep == ASSUME Inv, NEW e \in Emulators, MergeStaged(e) PROVE Inv'
  <1> DEFINE s == staged[e]
  <1>0. TypeOK /\ PlacesInv
    BY DEF Inv
  <1>1. s # None /\ IsStaged(s)
    BY <1>0 DEF TypeOK, StagedOK, MergeStaged
  <1>2. s.group \in Groups /\ s.kind \in {"commit", "welcome"} /\ s.pos \in Nat
    BY <1>1 DEF IsStaged
  <1>3. PICK g \in Groups, n \in Nat : g = s.group /\ n = s.pos
    BY <1>2
  <1> DEFINE m == members[e][g]
             c == log[g][n]
  <1>4. /\ Stores(e, g, IF s.kind = "commit" THEN Merged(m, n, s.ep, s.key) ELSE Joined(n, 0, s.key))
        /\ Cleared(e)
        /\ UNCHANGED <<emulation, epochs, trees, building, batch, packages, handled, log, uploads,
                       sent, lost>>
    <2>1. DOMAIN staged = Emulators
      BY <1>0 DEF TypeOK, StagedOK
    <2> QED BY <1>3, <2>1 DEF MergeStaged, Stores, Cleared
  <1>5. /\ n \in 1..Len(log[g])
        /\ s.kind = "commit" => /\ m.pos > 0 /\ n = m.pos + 1 /\ IsLeaf(c)
                                /\ s.ep = c.info.epoch_id /\ s.ep \in epochs[e]
        /\ s.kind = "welcome" => m.pos = 0 /\ n > m.since /\ c.kind = "add"
        /\ building[e] # None => building[e].group # g
    BY <1>0, <1>1, <1>3 DEF PlacesInv, StagedNext, StagedNextAt
  <1>6. m.pos \in Nat /\ m.since \in Nat /\ Len(log[g]) \in Nat
    BY <1>0, GroupTypes, LogTypes
  <1>7. CASE s.kind = "commit"
    <2>1. Stores(e, g, Merged(members[e][g], members[e][g].pos + 1, s.ep, s.key))
      BY <1>4, <1>5, <1>7
    <2>2. m.pos \in 1..(Len(log[g]) - 1)
      BY <1>5, <1>6, <1>7
    <2>3. staged[e] # None => staged[e].group = g /\ staged[e].pos = members[e][g].pos + 1
      BY <1>3, <1>5, <1>7
    <2>4. c = log[g][members[e][g].pos + 1]
      BY <1>5, <1>7
    <2>5. IsLeaf(c) /\ s.ep = c.info.epoch_id /\ s.ep \in epochs[e]
      BY <1>5, <1>7
    <2> HIDE DEF s, c
    <2> QED BY <1>4, <1>5, <2>1, <2>2, <2>3, <2>4, <2>5, InvMerged
  <1>8. CASE s.kind = "welcome"
    <2> DEFINE r == Joined(n, 0, s.key)
    <2>1. Stores(e, g, r)
      BY <1>4, <1>8
    <2>2. members'[e][g] = r
      BY <1>0, <2>1, GroupStored
    <2>3. r.pos = n /\ r.since = n /\ r.pending = None
      BY JoinedFields
    <2>4. PositionAt(e, g)' /\ OwnBehindAt(e, g)'
      BY <1>0, <1>4, <1>5, <1>8, <2>2, <2>3, JoinedPlace
    <2>5. LogsOK'
      BY <1>0, <1>4, LogRests
    <2>6. n \in Nat \ {0} /\ c = log'[g][n] /\ Installs(c) /\ c.kind = "add"
      BY <1>4, <1>5, <1>8 DEF Installs
    <2> HIDE DEF c
    <2>7. IsStoredGroup(members'[e][g]) /\ BoundAt(e, g)'
      BY <1>0, <2>2, <2>5, <2>6, BoundJoined
    <2> HIDE DEF r
    <2>8. Seen(e, g) = m.since /\ Seen(e, g)' = n
      BY <1>5, <1>8, <2>2, <2>3, <2>6 DEF Seen
    <2>9. /\ Seen(e, g) <= Seen(e, g)' /\ Seen(e, g)' \in Nat
          /\ staged[e] # None => staged[e].group = g /\ staged[e].pos <= Seen(e, g)'
      BY <1>3, <1>5, <1>6, <1>8, <2>8
    <2> QED BY <1>4, <1>5, <2>1, <2>2, <2>4, <2>7, <2>9, InvMember
  <1> QED BY <1>2, <1>7, <1>8

(* The checks of a Welcome, which follow the deletion of its material.      *)
Accepts(e, g, valid) ==
    LET c == log[g][LastLeaf(g, Len(log[g]))] IN
    valid /\ members[e][g].pos = 0 /\ (uploads[c.package[1]].leaf # e => OwnLeafFound(e, c))

(* A Welcome is staged and its material deleted. *)
LEMMA WelcomeAccepted ==
    ASSUME Inv, NEW e \in Emulators, NEW g \in Groups, NEW valid, StageWelcome(e, g, valid),
           Accepts(e, g, valid)
    PROVE  Inv'
  <1>i. PICK i : i = LastLeaf(g, Len(log[g]))
    OBVIOUS
  <1> DEFINE c == log[g][i]
             up == uploads[c.package[1]]
             key == PackageKey(up.ep, up.leaf, up.generation, c.package[2])
             s == [kind |-> "welcome", group |-> g, pos |-> i, ep |-> 0, key |-> key]
  <1>0. TypeOK /\ OwnInv /\ PlacesInv /\ FollowInv /\ WelcomeInv /\ BindingInv
    BY DEF Inv
  <1>1. /\ i > 0 /\ c.kind = "add" /\ members[e][g].pos = 0 /\ staged[e] = None
        /\ building[e] # None => building[e].group # g
        /\ packages' = [packages EXCEPT ![e] = @ \ {c.package}]
        /\ staged' = [staged EXCEPT ![e] = s]
        /\ UNCHANGED <<emulation, epochs, trees, building, batch, members, handled, log, uploads,
                       sent, lost>>
    BY <1>i DEF StageWelcome, DeleteMaterial, Accepts
  <1> HIDE DEF key
  <1>2. Len(log[g]) \in Nat /\ members[e][g].since \in Nat
    BY <1>0, LogTypes, GroupTypes
  <1>3. i = LastOf(log[g], Len(log[g]))
    BY <1>i DEF LastLeaf, LastOf
  <1>4. i \in 1..Len(log[g]) /\ \A j \in 1..Len(log[g]) : log[g][j].kind = "remove" => j <= i
    <2>1. i \in 0..Len(log[g]) /\ \A j \in 1..Len(log[g]) : log[g][j].kind = "remove" => j <= i
      BY <1>2, <1>3, LastOfProperties
    <2> QED BY <1>1, <1>2, <2>1
  <1> HIDE DEF c
  <1>5. i > members[e][g].since
    <2>1. /\ members[e][g].since <= Len(log[g])
          /\ members[e][g].since > 0 => log[g][members[e][g].since].kind = "remove"
      BY <1>0, <1>1 DEF PlacesInv, Positions, PositionAt, Seen
    <2>2. CASE members[e][g].since > 0
      <3>1. members[e][g].since \in 1..Len(log[g])
        BY <1>2, <2>1, <2>2
      <3>2. members[e][g].since <= i /\ members[e][g].since # i
        BY <1>1, <1>4, <2>1, <2>2, <3>1 DEF c
      <3> QED BY <1>2, <1>4, <3>2
    <2>3. CASE ~ (members[e][g].since > 0)
      BY <1>2, <1>4, <2>3
    <2> QED BY <2>2, <2>3
  <1>6. IsStaged(s) /\ s.kind = "welcome" /\ s.group = g /\ s.pos = i
    BY <1>4 DEF IsStaged
  <1>7. s # None
    BY <1>6, NoneApart
  <1> HIDE DEF s
  <1>8. staged'[e] = s /\ \A f \in Emulators : f # e => staged'[f] = staged[f]
    BY <1>0, <1>1 DEF TypeOK, StagedOK
  <1>9. StagedOK'
    <2>1. DOMAIN staged' = Emulators
      BY <1>0, <1>1 DEF TypeOK, StagedOK
    <2>2. \A f \in Emulators : staged'[f] = None \/ IsStaged(staged'[f])
      BY <1>0, <1>6, <1>8 DEF TypeOK, StagedOK
    <2> QED BY <2>1, <2>2 DEF StagedOK, IsStaged
  <1>10. /\ LogsOK' /\ LogGrows
         /\ \A h \in Groups : \A j \in Len(log[h]) + 1..Len(log'[h]) : FALSE
    BY <1>0, <1>1, LogRests
  <1>11. MemoryOK' /\ GroupsOK' /\ SentOK' /\ TreesOK' /\ EpochsGrow /\ Dropped /\ TreesExported'
    BY <1>0, <1>1, TypesRest
  <1>12. StateOK'
    BY <1>0, <1>1 DEF TypeOK, StateOK
  <1>13. TypeOK'
    BY <1>9, <1>10, <1>11, <1>12 DEF TypeOK
  <1>14. OwnInv'
    BY <1>0, <1>1, <1>11, OwnSame
  <1>15. PlacesInv'
    <2>1. StagedNextAt(e)'
      BY <1>1, <1>4, <1>5, <1>6, <1>8 DEF StagedNextAt, c
    <2>2. BuilderFitsAt(e)'
      BY <1>0, <1>1 DEF PlacesInv, BuilderFits, BuilderFitsAt
    <2> QED BY <1>0, <1>1, <1>8, <2>1, <2>2, PlacesMemory
  <1>16. ConsumedGrows
    BY <1>0, <1>1, <1>8, ConsumedRest
  <1>17. FollowInv'
    <2>1. OpensAll /\ HeadsSent'
      BY <1>0, <1>1, SameOpens, HeadsSame DEF FollowInv
    <2> QED BY <1>0, <1>1, <1>16, <2>1, FollowKept
  <1>18. WelcomeInv'
    <2>1. Consumed(e, g, i)'
      BY <1>6, <1>7, <1>8 DEF Consumed
    <2>2. packages' = [packages EXCEPT ![e] = @ \ {log[g][i].package}] /\ log[g][i].kind = "add"
      BY <1>1 DEF c
    <2> QED BY <1>0, <1>1, <1>4, <1>10, <1>16, <2>1, <2>2, WelcomeTaken
  <1>19. BindingInv'
    BY <1>0, <1>1, <1>10, <1>11, BindingRest
  <1> QED BY <1>13, <1>14, <1>15, <1>17, <1>18, <1>19 DEF Inv

(* A Welcome is refused after its material was deleted: it is lost. *)
LEMMA WelcomeRefused ==
    ASSUME Inv, NEW e \in Emulators, NEW g \in Groups, NEW valid, StageWelcome(e, g, valid),
           ~ Accepts(e, g, valid)
    PROVE  Inv'
  <1>i. PICK i : i = LastLeaf(g, Len(log[g]))
    OBVIOUS
  <1> DEFINE c == log[g][i]
  <1>0. TypeOK /\ OwnInv /\ PlacesInv /\ FollowInv /\ WelcomeInv /\ BindingInv
    BY DEF Inv
  <1>1. /\ i > 0 /\ c.kind = "add"
        /\ packages' = [packages EXCEPT ![e] = @ \ {c.package}]
        /\ lost' = [lost EXCEPT ![e] = @ \union {<<g, i>>}]
        /\ UNCHANGED <<emulation, epochs, trees, building, batch, staged, members, handled, log,
                       uploads, sent>>
    BY <1>i DEF StageWelcome, DeleteMaterial, Accepts
  <1>2. i \in 1..Len(log[g])
    <2>1. i = LastOf(log[g], Len(log[g])) /\ Len(log[g]) \in Nat
      BY <1>0, <1>i, LogTypes DEF LastLeaf, LastOf
    <2>2. i \in 0..Len(log[g])
      BY <2>1, LastOfProperties
    <2> QED BY <1>1, <2>1, <2>2
  <1>3. lost \in [Emulators -> SUBSET (Groups \X Nat)]
    BY <1>0 DEF TypeOK, MemoryOK
  <1>4. <<g, i>> \in Groups \X Nat
    BY <1>2
  <1> HIDE DEF c
  <1>5. /\ lost' \in [Emulators -> SUBSET (Groups \X Nat)]
        /\ <<g, i>> \in lost'[e] /\ \A f \in Emulators : lost[f] \subseteq lost'[f]
    BY <1>1, <1>3, <1>4
  <1>6. MemoryOK'
    BY <1>0, <1>1, <1>5 DEF TypeOK, MemoryOK
  <1>7. /\ LogsOK' /\ LogGrows
        /\ \A h \in Groups : \A j \in Len(log[h]) + 1..Len(log'[h]) : FALSE
    BY <1>0, <1>1, LogRests
  <1>8. /\ StagedOK' /\ GroupsOK' /\ SentOK' /\ TreesOK' /\ EpochsGrow /\ Dropped
        /\ TreesExported'
    BY <1>0, <1>1, TypesRest
  <1>9. StateOK'
    BY <1>0, <1>1 DEF TypeOK, StateOK
  <1>10. TypeOK'
    BY <1>6, <1>7, <1>8, <1>9 DEF TypeOK
  <1>11. OwnInv'
    BY <1>0, <1>1, <1>8, OwnSame
  <1>12. PlacesInv'
    <2>1. StagedNextAt(e)' /\ BuilderFitsAt(e)'
      BY <1>0, <1>1 DEF PlacesInv, StagedNext, StagedNextAt, BuilderFits, BuilderFitsAt
    <2> QED BY <1>0, <1>1, <2>1, PlacesMemory
  <1>13. ConsumedGrows
    BY <1>0, <1>1, <1>5, ConsumedRest
  <1>14. FollowInv'
    <2>1. OpensAll /\ HeadsSent'
      BY <1>0, <1>1, SameOpens, HeadsSame DEF FollowInv
    <2> QED BY <1>0, <1>1, <1>13, <2>1, FollowKept
  <1>15. WelcomeInv'
    <2>1. Consumed(e, g, i)'
      BY <1>5 DEF Consumed
    <2>2. packages' = [packages EXCEPT ![e] = @ \ {log[g][i].package}] /\ log[g][i].kind = "add"
      BY <1>1 DEF c
    <2> QED BY <1>0, <1>1, <1>2, <1>7, <1>13, <2>1, <2>2, WelcomeTaken
  <1>16. BindingInv'
    BY <1>0, <1>1, <1>7, <1>8, BindingRest
  <1> QED BY <1>10, <1>11, <1>12, <1>14, <1>15, <1>16 DEF Inv

(* A Welcome is staged, or refused when its material is gone. *)
LEMMA StageWelcomeStep ==
    ASSUME Inv, NEW e \in Emulators, NEW g \in Groups, NEW valid \in BOOLEAN,
           StageWelcome(e, g, valid)
    PROVE  Inv'
  <1>1. CASE Accepts(e, g, valid)
    BY <1>1, WelcomeAccepted
  <1>2. CASE ~ Accepts(e, g, valid)
    BY <1>2, WelcomeRefused
  <1> QED BY <1>1, <1>2

-----------------------------------------------------------------------------
(* Secrets of a sibling's leaf                                              *)

(* What load_vc_commit_material takes from the tree. *)
LEMMA MaterialMoves ==
    ASSUME TypeOK, NEW e \in Emulators, NEW g \in Groups, NEW i \in 1..Len(log[g]), NEW c, c = log[g][i],
           Installs(c), NEW type \in OperationTypes, CanLoadMaterial(e, c, type), Consume(e, c, type)
    PROVE  /\ c.info.epoch_id \in epochs[e] /\ c.info.epoch_id \in DOMAIN trees[e]
           /\ c.info.epoch_id \in EmulationEpochs
           /\ c.info.tbe.leaf \in Emulators /\ c.info.tbe.generation \in Nat
           /\ Moves(e, c.info.epoch_id, c.info.tbe.leaf, type, c.info.tbe.generation)
  <1>1. c \in Entries(g)
    BY LogTypes
  <1>2. \A n \in Generations : n \in Nat
    BY DEF Generations
  <1>3. /\ c.info.tbe.leaf \in Emulators /\ c.info.tbe.generation \in Nat
        /\ c.info.epoch_id \in EmulationEpochs
    BY <1>1, <1>2, EntryFields
  <1>4. c.info.epoch_id \in epochs[e] /\ c.info.epoch_id \in DOMAIN trees[e]
    BY DEF CanLoadMaterial, Loadable
  <1>5. Moves(e, c.info.epoch_id, c.info.tbe.leaf, type, c.info.tbe.generation)
    BY <1>3, <1>4, StoreDerived DEF Consume
  <1> QED BY <1>3, <1>4, <1>5

(* A sibling's commit is consumed with its secret. *)
LEMMA FollowCommit ==
    ASSUME TypeOK, FollowInv, UNCHANGED <<log, uploads, sent, handled>>, ConsumedGrows,
           NEW e \in Emulators, NEW g \in Groups, NEW j \in 1..Len(log[g]), IsLeaf(log[g][j]),
           NEW ep \in DOMAIN trees[e], NEW leaf \in Emulators, NEW n \in Nat,
           LeafCoordinates(log[g][j]) = Coordinates(ep, leaf, "leaf_node", n),
           Moves(e, ep, leaf, "leaf_node", n), Consumed(e, g, j)'
    PROVE  FollowInv'
  <1>1. "leaf_node" \in OperationTypes /\ "key_package" \in OperationTypes
    BY DEF OperationTypes
  <1>2. AllSent' /\ SecretsDiffer'
    BY SentSame DEF FollowInv
  <1>3. Coordinates(ep, leaf, "leaf_node", n) \in DOMAIN sent'
    BY DEF FollowInv, AllSent
  <1>4. HeadsSent'
    BY <1>1, <1>3, HeadsMove DEF FollowInv
  <1>5. OpensBut(e, ep, leaf, "leaf_node", n)
    BY <1>1, MovesOpens
  <1>6. CommitsOpen'
    BY <1>5, CommitsMove DEF FollowInv
  <1>7. \A f \in Emulators : \A x \in DOMAIN trees'[f] : \A l \in Emulators, k \in Nat :
             f # l /\ (x \in DOMAIN trees[f] => Open(trees[f][x], l, "key_package", k))
             => Open(trees'[f][x], l, "key_package", k)
    BY <1>1, <1>5, OtherTypeOpens
  <1>8. UploadsOpen'
    <2>1. Len(uploads') \in Nat /\ \A u \in Len(uploads) + 1..Len(uploads') : FALSE
      BY UploadTypes
    <2> QED BY <1>7, <2>1, UploadsKept DEF FollowInv
  <1> QED BY <1>2, <1>4, <1>6, <1>8 DEF FollowInv

(* The group a sibling created is joined with its secret. *)
LEMMA FollowCreation ==
    ASSUME TypeOK, FollowInv, UNCHANGED <<log, uploads, sent, handled>>, ConsumedGrows,
           NEW e \in Emulators, NEW g \in Groups, NEW j \in 1..Len(log[g]), log[g][j].kind = "create",
           NEW ep \in DOMAIN trees[e], NEW leaf \in Emulators, NEW n \in Nat,
           CreationCoordinates(log[g][j]) = Coordinates(ep, leaf, "key_package", n),
           Moves(e, ep, leaf, "key_package", n)
    PROVE  FollowInv'
  <1>1. "key_package" \in OperationTypes
    BY DEF OperationTypes
  <1>2. AllSent' /\ SecretsDiffer'
    BY SentSame DEF FollowInv
  <1>3. Coordinates(ep, leaf, "key_package", n) \in DOMAIN sent'
    BY DEF FollowInv, AllSent
  <1>4. HeadsSent'
    BY <1>1, <1>3, HeadsMove DEF FollowInv
  <1>5. OpensBut(e, ep, leaf, "key_package", n)
    BY <1>1, MovesOpens
  <1>6. CommitsOpen'
    BY <1>5, CommitsOther DEF FollowInv
  <1>7. \A u \in 1..Len(uploads) : UploadCoordinates(uploads[u]) # Coordinates(ep, leaf, "key_package", n)
    BY DEF FollowInv, SecretsDiffer
  <1>8. UploadsOpen'
    BY <1>5, <1>7, UploadsMove DEF FollowInv
  <1> QED BY <1>2, <1>4, <1>6, <1>8 DEF FollowInv

(* Another emulator's entry that is ahead of the group is not an own one. *)
LEMMA AheadNotOwn ==
    ASSUME TypeOK, PlacesInv, NEW e \in Emulators, NEW g \in Groups, NEW i \in 1..Len(log[g]),
           IsLeaf(log[g][i]), i > Seen(e, g), log[g][i] # members[e][g].pending
    PROVE  log[g][i].info.tbe.leaf # e
  <1> SUFFICES ASSUME log[g][i].info.tbe.leaf = e PROVE FALSE
    OBVIOUS
  <1>1. members[e][g].pending # None /\ i = members[e][g].pos + 1
    BY DEF PlacesInv, OwnBehind, OwnBehindAt
  <1>2. log[g][members[e][g].pos + 1] = members[e][g].pending
    BY <1>1 DEF PlacesInv, Positions, PositionAt
  <1> QED BY <1>1, <1>2

(* A sibling's commit is staged. *)
LEMMA ProcessSiblingStep ==
    ASSUME Inv, NEW e \in Emulators, NEW g \in Groups, ProcessSibling(e, g)
    PROVE  Inv'
  <1> DEFINE m == members[e][g]
  <1>0. TypeOK /\ OwnInv /\ PlacesInv /\ FollowInv /\ WelcomeInv /\ BindingInv
    BY DEF Inv
  <1>1. m.pos \in 1..(Len(log[g]) - 1) /\ m.pos \in Nat /\ Len(log[g]) \in Nat
    BY <1>0, GroupTypes, LogTypes DEF ProcessSibling, CanProcess
  <1>2. PICK j \in 1..Len(log[g]) : j = m.pos + 1
    BY <1>1
  <1>3. PICK c : c = log[g][j]
    OBVIOUS
  <1> DEFINE s == [kind |-> "commit", group |-> g, pos |-> j, ep |-> c.info.epoch_id,
                   key |-> RecreatedKey(c, g)]
  <1>4. c = NextEntry(e, g)
    BY <1>2, <1>3 DEF NextEntry
  <1>5. IsLeaf(c) /\ Installs(c) /\ c \in Entries(g)
    BY <1>0, <1>3, <1>4, LogTypes DEF ProcessSibling, IsSiblingCommit, IsLeaf, Installs
  <1>6. CanStage(c, g)
    BY <1>5, EntryFields
  <1>7. /\ staged[e] = None
        /\ building[e] # None => building[e].group # g
        /\ c # m.pending
        /\ TreeFree(e, c.info.epoch_id)
        /\ CanLoadMaterial(e, c, "leaf_node")
        /\ Consume(e, c, "leaf_node")
        /\ staged' = [staged EXCEPT ![e] = s]
        /\ UNCHANGED <<emulation, epochs, building, batch, members, packages, handled, log, uploads,
                       sent, lost>>
    BY <1>2, <1>4, <1>6 DEF ProcessSibling, CanProcess
  <1>8. "leaf_node" \in OperationTypes
    BY DEF OperationTypes
  <1> DEFINE ep == c.info.epoch_id
             leaf == c.info.tbe.leaf
             n == c.info.tbe.generation
  <1>9. /\ ep \in epochs[e] /\ ep \in DOMAIN trees[e] /\ ep \in EmulationEpochs
        /\ leaf \in Emulators /\ n \in Nat /\ Moves(e, ep, leaf, "leaf_node", n)
    BY <1>0, <1>3, <1>5, <1>7, <1>8, MaterialMoves
  <1>10. leaf # e
    <2>1. j > Seen(e, g)
      BY <1>1, <1>2 DEF Seen
    <2> QED BY <1>0, <1>3, <1>5, <1>7, <2>1, AheadNotOwn
  <1>11. IsStaged(s) /\ s.kind = "commit" /\ s.group = g /\ s.pos = j /\ s.ep = ep
    BY <1>9 DEF IsStaged, EmulationEpochs
  <1>12. s # None
    BY <1>11, NoneApart
  <1> HIDE DEF s, ep, leaf, n
  <1>13. staged'[e] = s /\ \A f \in Emulators : f # e => staged'[f] = staged[f]
    BY <1>0, <1>7 DEF TypeOK, StagedOK
  <1>14. StagedOK'
    <2>1. DOMAIN staged' = Emulators
      BY <1>0, <1>7 DEF TypeOK, StagedOK
    <2>2. \A f \in Emulators : staged'[f] = None \/ IsStaged(staged'[f])
      BY <1>0, <1>11, <1>13 DEF TypeOK, StagedOK
    <2> QED BY <2>1, <2>2 DEF StagedOK, IsStaged
  <1>15. /\ LogsOK' /\ LogGrows
         /\ \A h \in Groups : \A i \in Len(log[h]) + 1..Len(log'[h]) : FALSE
    BY <1>0, <1>7, LogRests
  <1>16. MemoryOK' /\ StateOK' /\ GroupsOK' /\ SentOK' /\ EpochsGrow /\ Dropped
    BY <1>0, <1>7, TypesRest
  <1>17. TypeOK'
    BY <1>9, <1>14, <1>15, <1>16 DEF TypeOK, Moves
  <1>18. OwnInv'
    BY <1>0, <1>7, <1>8, <1>9, <1>10, <1>16, OwnMoves DEF TreeFree, ep
  <1>19. PlacesInv'
    <2>1. StagedNextAt(e)'
      <3>1. staged'[e] = s /\ s.kind = "commit" /\ s.group = g /\ s.pos = j /\ s.ep = ep
        BY <1>11, <1>13
      <3>2. log' = log /\ members' = members /\ epochs' = epochs /\ building' = building
        BY <1>7
      <3>3. j \in 1..Len(log'[g]) /\ log'[g][j] = c
        BY <1>3, <3>2
      <3>4. members'[e][g].pos > 0 /\ j = members'[e][g].pos + 1
        BY <1>1, <1>2, <3>2
      <3>5. IsLeaf(c) /\ c.info.epoch_id = ep /\ ep \in epochs'[e]
        BY <1>5, <1>9, <3>2 DEF ep
      <3>6. building'[e] # None => building'[e].group # g
        BY <1>7, <3>2
      <3> QED BY <3>1, <3>3, <3>4, <3>5, <3>6 DEF StagedNextAt, IsLeaf
    <2>2. BuilderFitsAt(e)'
      BY <1>0, <1>7 DEF PlacesInv, BuilderFits, BuilderFitsAt
    <2> QED BY <1>0, <1>7, <1>13, <2>1, <2>2, PlacesMemory
  <1>20. ConsumedGrows
    BY <1>0, <1>7, <1>13, ConsumedRest
  <1>21. Consumed(e, g, j)'
    BY <1>11, <1>12, <1>13 DEF Consumed
  <1>22. FollowInv'
    <2>1. LeafCoordinates(log[g][j]) = Coordinates(ep, leaf, "leaf_node", n) /\ IsLeaf(log[g][j])
      BY <1>3, <1>5 DEF LeafCoordinates, ep, leaf, n
    <2> QED BY <1>0, <1>7, <1>9, <1>20, <1>21, <2>1, FollowCommit
  <1>23. WelcomeInv'
    BY <1>0, <1>7, <1>15, <1>16, <1>20, WelcomeRest
  <1>24. BindingInv'
    BY <1>0, <1>7, <1>15, <1>16, BindingRest
  <1> QED BY <1>17, <1>18, <1>19, <1>22, <1>23, <1>24 DEF Inv

(* A client joins at a sibling's entry, with the secret of that entry. *)
LEMMA InvJoined ==
    ASSUME Inv, UNCHANGED <<emulation, epochs, building, batch, staged, packages, handled, log, uploads,
                            sent, lost>>,
           NEW e \in Emulators, NEW g \in Groups, NEW i \in 1..Len(log[g]), NEW c, c = log[g][i],
           Newcomer(e, g, i), NEW type, c.kind # "add", Installs(c),
           IF IsLeaf(c) THEN type = "leaf_node" ELSE c.kind = "create" /\ type = "key_package",
           TreeFree(e, c.info.epoch_id), CanLoadMaterial(e, c, type), Consume(e, c, type),
           NEW key, Stores(e, g, Joined(i, c.info.epoch_id, key))
    PROVE  Inv'
  <1> DEFINE m == members[e][g]
             ep == c.info.epoch_id
             leaf == c.info.tbe.leaf
             n == c.info.tbe.generation
             r == Joined(i, c.info.epoch_id, key)
  <1>0. TypeOK /\ OwnInv /\ PlacesInv /\ FollowInv /\ WelcomeInv /\ BindingInv
    BY DEF Inv
  <1>1. /\ m.pos = 0 /\ staged[e] = None /\ i > m.since
        /\ building[e] # None => building[e].group # g
    BY DEF Newcomer
  <1>2. type \in OperationTypes
    BY DEF OperationTypes
  <1>3. /\ ep \in epochs[e] /\ ep \in DOMAIN trees[e] /\ ep \in EmulationEpochs
        /\ leaf \in Emulators /\ n \in Nat /\ Moves(e, ep, leaf, type, n)
    BY <1>0, <1>2, MaterialMoves
  <1>4. Len(log[g]) \in Nat /\ m.since \in Nat
    BY <1>0, LogTypes, GroupTypes
  <1>5. members'[e][g] = r /\ \A f \in Emulators, h \in Groups : f # e \/ h # g => members'[f][h] = members[f][h]
    BY <1>0, GroupStored
  <1>6. r.pos = i /\ r.since = i /\ r.pending = None
    BY JoinedFields
  <1>7. PositionAt(e, g)' /\ OwnBehindAt(e, g)'
    BY <1>0, <1>1, <1>5, <1>6, JoinedPlace
  <1>8. /\ LogsOK' /\ LogGrows
        /\ \A h \in Groups : \A j \in Len(log[h]) + 1..Len(log'[h]) : FALSE
    BY <1>0, LogRests
  <1>9. IsStoredGroup(members'[e][g]) /\ BoundAt(e, g)'
    <2>1. i \in Nat \ {0} /\ c = log'[g][i] /\ ep \in epochs'[e]
      BY <1>3, <1>4
    <2> QED BY <1>0, <1>3, <1>5, <1>8, <2>1, BoundJoined
  <1> HIDE DEF r
  <1>10. GroupsOK'
    BY <1>0, <1>5, <1>9, GroupStored DEF r
  <1>11. MemoryOK' /\ StateOK' /\ StagedOK' /\ SentOK' /\ EpochsGrow /\ Dropped
    BY <1>0, TypesRest
  <1>12. TypeOK'
    BY <1>3, <1>8, <1>10, <1>11 DEF TypeOK, Moves
  <1>13. Seen(e, g) = m.since /\ Seen(e, g)' = i
    BY <1>1, <1>4, <1>5, <1>6 DEF Seen
  <1>14. ConsumedGrows
    <2>1. ASSUME NEW f \in Emulators, NEW h \in Groups
          PROVE  Seen(f, h) <= Seen(f, h)' /\ Seen(f, h)' \in Nat
      <3>1. CASE f = e /\ h = g
        BY <1>1, <1>4, <1>13, <3>1
      <3>2. CASE f # e \/ h # g
        <4>1. Seen(f, h)' = Seen(f, h) /\ Seen(f, h) \in Nat
          BY <1>0, <1>5, <3>2, SeenSame
        <4> QED BY <4>1
      <3> QED BY <3>1, <3>2
    <2> QED BY <1>0, <2>1, ConsumedKept
  <1>15. Consumed(e, g, i)'
    <2>1. i <= Seen(e, g)'
      BY <1>4, <1>13
    <2> QED BY <2>1 DEF Consumed
  <1>16. PlacesInv'
    BY <1>0, <1>1, <1>5, <1>7, <1>8, <1>11, PlacesMember
  <1>17. leaf # e \/ type # "leaf_node"
    <2> SUFFICES ASSUME IsLeaf(c) PROVE leaf # e
      OBVIOUS
    <2>1. c # m.pending
      <3>1. m.pending = None
        BY <1>0, <1>1, <1>4 DEF PlacesInv, Positions, PositionAt
      <3>2. c.kind # None.kind
        BY DEF IsLeaf, None
      <3> QED BY <3>1, <3>2
    <2> QED BY <1>0, <1>1, <1>13, <2>1, AheadNotOwn
  <1>18. OwnInv'
    <2> HIDE DEF ep, leaf, n
    <2> QED BY <1>0, <1>2, <1>3, <1>11, <1>17, OwnMoves DEF TreeFree, ep
  <1>19. FollowInv'
    <2>1. CASE IsLeaf(c)
      <3>1. type = "leaf_node" /\ IsLeaf(log[g][i])
            /\ LeafCoordinates(log[g][i]) = Coordinates(ep, leaf, "leaf_node", n)
        BY <2>1 DEF LeafCoordinates
      <3> HIDE DEF ep, leaf, n
      <3> QED BY <1>0, <1>3, <1>14, <1>15, <3>1, FollowCommit
    <2>2. CASE ~ IsLeaf(c)
      <3>1. type = "key_package" /\ log[g][i].kind = "create"
            /\ CreationCoordinates(log[g][i]) = Coordinates(ep, leaf, "key_package", n)
        BY <2>2 DEF CreationCoordinates
      <3> HIDE DEF ep, leaf, n
      <3> QED BY <1>0, <1>3, <1>14, <3>1, FollowCreation
    <2> QED BY <2>1, <2>2
  <1>20. WelcomeInv'
    BY <1>0, <1>8, <1>11, <1>14, WelcomeRest
  <1>21. BindingInv'
    BY <1>0, <1>5, <1>8, <1>9, <1>11, BindingMember
  <1> QED BY <1>12, <1>16, <1>18, <1>19, <1>20, <1>21 DEF Inv

(* A client bootstraps from a sibling's external commit. *)
LEMMA JoinExternalStep ==
    ASSUME Inv, NEW e \in Emulators, NEW g \in Groups, NEW i \in DOMAIN log[g], JoinExternal(e, g, i)
    PROVE  Inv'
  <1>0. TypeOK
    BY DEF Inv
  <1>1. i \in 1..Len(log[g]) /\ log[g][i] \in Entries(g)
    BY <1>0, LogTypes
  <1>2. PICK c : c = log[g][i]
    OBVIOUS
  <1>3. c.kind = "external"
    BY <1>2 DEF JoinExternal
  <1>4. IsLeaf(c) /\ Installs(c) /\ c.kind # "add"
    BY <1>3 DEF IsLeaf, Installs
  <1>5. CanStage(c, g)
    BY <1>1, <1>2, <1>4, EntryFields
  <1>6. /\ Newcomer(e, g, i) /\ TreeFree(e, c.info.epoch_id)
        /\ CanLoadMaterial(e, c, "leaf_node") /\ Consume(e, c, "leaf_node")
        /\ Stores(e, g, Joined(i, c.info.epoch_id, RecreatedKey(c, g)))
        /\ UNCHANGED <<emulation, epochs, building, batch, staged, packages, handled, log, uploads,
                       sent, lost>>
    BY <1>2, <1>5 DEF JoinExternal, Stores
  <1> QED BY <1>1, <1>2, <1>4, <1>6, InvJoined

(* A client bootstraps from the group a sibling created. *)
LEMMA JoinAtCreationStep ==
    ASSUME Inv, NEW e \in Emulators, NEW g \in Groups, JoinAtCreation(e, g)
    PROVE  Inv'
  <1>0. TypeOK
    BY DEF Inv
  <1>1. 1 \in 1..Len(log[g])
    <2>1. log[g] \in Seq(Entries(g)) /\ log[g] # <<>>
      BY <1>0, LogTypes DEF JoinAtCreation
    <2>2. Len(log[g]) \in Nat /\ Len(log[g]) # 0
      BY <2>1, EmptySeq, LenProperties
    <2> QED BY <2>2
  <1>2. PICK c : c = log[g][1]
    OBVIOUS
  <1>3. c.kind = "create"
    BY <1>2 DEF JoinAtCreation
  <1>4. ~ IsLeaf(c) /\ Installs(c) /\ c.kind # "add"
    BY <1>3 DEF IsLeaf, Installs
  <1>5. /\ Newcomer(e, g, 1) /\ TreeFree(e, c.info.epoch_id)
        /\ CanLoadMaterial(e, c, "key_package") /\ Consume(e, c, "key_package")
        /\ Stores(e, g, Joined(1, c.info.epoch_id, c.key))
        /\ UNCHANGED <<emulation, epochs, building, batch, staged, packages, handled, log, uploads,
                       sent, lost>>
    BY <1>2 DEF JoinAtCreation, Stores
  <1> QED BY <1>1, <1>2, <1>3, <1>4, <1>5, InvJoined

-----------------------------------------------------------------------------
(* Commits and groups of an emulator                                        *)

(* An emulator puts an entry of its own into a log and stores the group. *)
LEMMA InvEntered ==
    ASSUME Inv, UNCHANGED <<emulation, epochs, packages, handled, uploads, staged, lost>>,
           TreesOK', MemoryOK', SentOK', OwnInv', OpensAll, HeadsSent', Dropped,
           NEW e \in Emulators, NEW g \in Groups, NEW c \in Entries(g), Appended(g, c),
           c.kind # "add", IsLeaf(c) => c.info.tbe.leaf = e,
           DOMAIN sent \subseteq DOMAIN sent',
           IsLeaf(c) => LeafCoordinates(c) \in DOMAIN sent' \ DOMAIN sent,
           c.kind = "create" => CreationCoordinates(c) \in DOMAIN sent' \ DOMAIN sent,
           \A f \in Emulators :
              IsLeaf(c) /\ c.info.tbe.leaf # f /\ c.info.epoch_id \in DOMAIN trees'[f]
              => Open(trees'[f][c.info.epoch_id], c.info.tbe.leaf, "leaf_node", c.info.tbe.generation),
           NEW r, Stores(e, g, r), IsStoredGroup(r),
           BoundAt(e, g)', PositionAt(e, g)', OwnBehindAt(e, g)',
           Seen(e, g) <= Seen(e, g)', Seen(e, g)' \in Nat,
           building'[e] = None, staged[e] # None => staged[e].group # g
    PROVE  Inv'
  <1>0. TypeOK /\ OwnInv /\ PlacesInv /\ FollowInv /\ WelcomeInv /\ BindingInv
    BY DEF Inv
  <1>1. /\ \A f \in Emulators, h \in Groups : f # e \/ h # g => members'[f][h] = members[f][h]
        /\ GroupsOK'
    BY <1>0, GroupStored
  <1>2. LogGrows
    BY <1>0, AppendedGrows
  <1>3. LogsOK'
    <2>1. \A h \in Groups : log'[h] \in Seq(Entries(h))
      BY <1>0 DEF Appended, TypeOK, LogsOK
    <2> QED BY <2>1, <1>0 DEF Appended, TypeOK, LogsOK
  <1>4. \A h \in Groups : \A i \in Len(log[h]) + 1..Len(log'[h]) : h = g /\ log'[h][i] = c
    BY <1>0, LogTypes DEF Appended
  <1>5. StateOK' /\ StagedOK' /\ EpochsGrow
    BY <1>0, TypesRest
  <1>6. TypeOK'
    BY <1>1, <1>3, <1>5 DEF TypeOK
  <1>7. ConsumedGrows
    <2>1. ASSUME NEW f \in Emulators, NEW h \in Groups
          PROVE  Seen(f, h) <= Seen(f, h)' /\ Seen(f, h)' \in Nat
      <3>1. CASE f = e /\ h = g
        BY <3>1
      <3>2. CASE f # e \/ h # g
        <4>1. Seen(f, h)' = Seen(f, h) /\ Seen(f, h) \in Nat
          BY <1>0, <1>1, <3>2, SeenSame
        <4> QED BY <4>1
      <3> QED BY <3>1, <3>2
    <2> QED BY <1>0, <2>1, ConsumedKept
  <1>8. PlacesInv'
    <2>1. \A f \in Emulators, h \in Groups : f # e \/ h # g =>
              \A i \in Len(log[h]) + 1..Len(log'[h]) :
                 ~ (IsLeaf(log'[h][i]) /\ log'[h][i].info.tbe.leaf = f)
      BY <1>4
    <2>2. \A f \in Emulators : staged'[f] \in {staged[f], None} /\ building'[f] \in {building[f], None}
      BY DEF Dropped
    <2> QED BY <1>0, <1>1, <1>2, <1>3, <1>5, <2>1, <2>2, PlacesMember
  <1>9. FollowInv'
    <2>1. \A f \in Emulators : handled[f] \subseteq handled'[f]
      OBVIOUS
    <2> QED BY <1>0, <1>3, <1>7, <2>1, FollowAppended
  <1>10. WelcomeInv'
    <2>1. \A h \in Groups : \A i \in Len(log[h]) + 1..Len(log'[h]) : log'[h][i].kind # "add"
      BY <1>4
    <2> QED BY <1>0, <1>2, <1>3, <1>5, <1>7, <2>1, WelcomeRest
  <1>11. BindingInv'
    BY <1>0, <1>1, <1>2, <1>5, BindingMember
  <1> QED BY <1>6, <1>8, <1>9, <1>10, <1>11 DEF Inv

(* The group that an emulator stores when it enters at the end of a log. *)
LEMMA EnteredPlace ==
    ASSUME TypeOK, LogsOK', PlacesInv, NEW e \in Emulators, NEW g \in Groups, NEW c, Appended(g, c),
           members[e][g].pos = 0,
           members'[e][g].pos = Len(log[g]) + 1, members'[e][g].since = Len(log[g]) + 1,
           members'[e][g].pending = None
    PROVE  /\ PositionAt(e, g)' /\ OwnBehindAt(e, g)'
           /\ Seen(e, g) <= Seen(e, g)' /\ Seen(e, g)' \in Nat
  <1>1. Len(log[g]) \in Nat /\ Len(log'[g]) = Len(log[g]) + 1
    BY LogTypes DEF Appended
  <1>2. Seen(e, g) \in Nat /\ Seen(e, g) <= Len(log[g])
    BY GroupTypes DEF PlacesInv, Positions, PositionAt
  <1>3. Seen(e, g)' = Len(log[g]) + 1
    BY <1>1 DEF Seen
  <1>4. PositionAt(e, g)'
    BY <1>1, <1>3 DEF PositionAt
  <1>5. OwnBehindAt(e, g)'
    <2>1. \A i \in 1..Len(log'[g]) : ~ (i > Seen(e, g)')
      BY <1>1, <1>3
    <2> QED BY <2>1 DEF OwnBehindAt
  <1> QED BY <1>1, <1>2, <1>3, <1>4, <1>5

(* What BuildCommit sends, under the secret that its builder owns. *)
LEMMA BuilderSends ==
    ASSUME TypeOK, OwnInv, NEW e \in Emulators, NEW b \in Builders, b = building[e],
           UNCHANGED <<emulation, epochs, trees, batch>>,
           building' = [building EXCEPT ![e] = None],
           NEW s, s = Coordinates(b.ep, e, "leaf_node", b.generation), Leaves(s)
    PROVE  /\ OwnInv' /\ SentOK' /\ Dropped /\ building'[e] = None
           /\ s \notin DOMAIN sent /\ DOMAIN sent' = DOMAIN sent \union {s}
           /\ b.ep \in epochs[e] /\ b.ep \in DOMAIN trees[e]
           /\ \A k \in Nat : Coordinates(b.ep, e, "leaf_node", k) \in DOMAIN sent => k < b.generation
  <1>1. b # None
    BY NoneApart
  <1>2. /\ b.ep \in epochs[e] /\ b.ep \in DOMAIN trees[e]
        /\ trees[e][b.ep][<<e, "leaf_node">>].next = b.generation + 1
        /\ s \in OperationCoordinates /\ s \notin DOMAIN sent
    BY <1>1, OwnTypes DEF OwnInv, BuilderOwns, BuilderOwnsAt, NextOf
  <1>3. b.generation \in Nat
    BY DEF Builders, Generations
  <1>4. s.ep = b.ep /\ s.leaf = e /\ s.type = "leaf_node" /\ s.generation = b.generation
    BY DEF Coordinates
  <1>5. building'[e] = None /\ \A f \in Emulators : f # e => building'[f] = building[f]
    BY DEF TypeOK, MemoryOK
  <1>6. Dropped /\ EpochsGrow
    BY <1>5 DEF Dropped, EpochsGrow
  <1>7. TreesOK' /\ TreesExported'
    BY TypesRest
  <1>8. TreesGrow
    BY TreeTypes DEF TreesGrow
  <1>9. SentBehind' /\ SentOK' /\ DOMAIN sent' = DOMAIN sent \union {s}
    <2>1. s.ep \in DOMAIN trees'[s.leaf] /\ s.generation < trees'[s.leaf][s.ep][<<s.leaf, s.type>>].next
      <3>1. s.ep \in DOMAIN trees'[e] /\ s.generation < trees'[e][s.ep][<<e, "leaf_node">>].next
        BY <1>2, <1>3, <1>4
      <3> QED BY <1>4, <3>1
    <2> QED BY <1>2, <1>7, <1>8, <2>1, SentMore DEF OwnInv
  <1>10. BuilderOwns'
    <2> SUFFICES ASSUME NEW f \in Emulators PROVE BuilderOwnsAt(f)'
      BY DEF BuilderOwns
    <2>1. building'[f] # None =>
             LET d == building[f] IN
             /\ trees'[f][d.ep][<<f, "leaf_node">>].next = trees[f][d.ep][<<f, "leaf_node">>].next
             /\ Coordinates(d.ep, f, "leaf_node", d.generation) \notin DOMAIN sent'
      <3> SUFFICES ASSUME building'[f] # None
                   PROVE  Coordinates(building[f].ep, f, "leaf_node", building[f].generation)
                            \notin DOMAIN sent'
        OBVIOUS
      <3>1. f # e /\ building[f] # None
        BY <1>5
      <3>2. Coordinates(building[f].ep, f, "leaf_node", building[f].generation) \notin DOMAIN sent
        BY <3>1, OwnTypes
      <3>3. Coordinates(building[f].ep, f, "leaf_node", building[f].generation).leaf = f
        BY DEF Coordinates
      <3> QED BY <1>4, <1>9, <3>1, <3>2, <3>3
    <2> QED BY <1>6, <1>8, <2>1, BuilderKept DEF OwnInv, BuilderOwns, Dropped
  <1>11. BatchOwns'
    <2> SUFFICES ASSUME NEW f \in Emulators PROVE BatchOwnsAt(f)'
      BY DEF BatchOwns
    <2> QED BY <1>6, <1>8, BatchKept DEF OwnInv, BatchOwns, Dropped
  <1>12. ASSUME NEW k \in Nat, Coordinates(b.ep, e, "leaf_node", k) \in DOMAIN sent
         PROVE  k < b.generation
    <2>1. k < b.generation + 1
      BY <1>2, <1>12, SentBelow
    <2>2. k # b.generation
      BY <1>2, <1>12
    <2> QED BY <1>3, <2>1, <2>2
  <1> QED BY <1>2, <1>5, <1>6, <1>7, <1>9, <1>10, <1>11, <1>12 DEF OwnInv

(* A commit is built and sent, and accepted or not. *)
LEMMA BuildCommitStep == ASSUME Inv, NEW e \in Emulators, BuildCommit(e) PROVE Inv'
  <1>0. TypeOK /\ OwnInv /\ PlacesInv /\ FollowInv /\ WelcomeInv /\ BindingInv
    BY DEF Inv
  <1>1. PICK b : b = building[e]
    OBVIOUS
  <1>2. PICK g : g = b.group
    OBVIOUS
  <1>3. PICK c : c = BuiltEntry(e, b)
    OBVIOUS
  <1>4. PICK s : s = Coordinates(b.ep, e, "leaf_node", b.generation)
    OBVIOUS
  <1>5. PICK at : at = IF b.kind = "commit" THEN members[e][g].pos ELSE b.at
    OBVIOUS
  <1>6. /\ b # None /\ building' = [building EXCEPT ![e] = None] /\ Leaves(s)
        /\ IF Len(log[g]) = at
           THEN /\ log' = [log EXCEPT ![g] = Append(@, c)]
                /\ members' = [members EXCEPT ![e][g] =
                                  IF b.kind = "commit" THEN [@ EXCEPT !.pending = c]
                                  ELSE Joined(at + 1, b.ep, c.key)]
           ELSE UNCHANGED <<log, members>>
        /\ UNCHANGED <<emulation, epochs, trees, batch, staged, packages, handled, uploads, lost>>
    BY <1>1, <1>2, <1>3, <1>4, <1>5 DEF BuildCommit, WithPending, Finalized
  <1>7. b \in Builders /\ g \in Groups
    <2>1. b \in Builders
      BY <1>0, <1>1, <1>6 DEF TypeOK, MemoryOK
    <2> QED BY <1>2, <2>1 DEF Builders
  <1>8. /\ OwnInv' /\ SentOK' /\ Dropped /\ building'[e] = None
        /\ s \notin DOMAIN sent /\ DOMAIN sent' = DOMAIN sent \union {s}
        /\ b.ep \in epochs[e] /\ b.ep \in DOMAIN trees[e]
        /\ \A k \in Nat : Coordinates(b.ep, e, "leaf_node", k) \in DOMAIN sent => k < b.generation
    BY <1>0, <1>1, <1>4, <1>6, <1>7, BuilderSends
  <1>9. StateOK' /\ StagedOK' /\ TreesOK' /\ EpochsGrow
    BY <1>0, <1>6, TypesRest
  <1>10. MemoryOK'
    BY <1>0, <1>6 DEF TypeOK, MemoryOK
  <1>11. /\ b.kind \in {"commit", "external"} /\ b.ep \in EmulationEpochs
         /\ b.generation \in Generations /\ b.generation \in Nat /\ b.resync \in BOOLEAN
    BY <1>7 DEF Builders, Generations
  <1>12. /\ c = LeafEntry(g, b.kind, b.ep, e, b.generation, b.kind = "external" /\ b.resync)
         /\ c.kind = b.kind /\ c.info.epoch_id = b.ep /\ c.info.tbe.leaf = e
         /\ c.info.tbe.generation = b.generation
    BY <1>2, <1>3 DEF BuiltEntry, LeafEntry, Entry, DerivationInfo, Tbe
  <1>13. c \in Entries(g)
    <2>1. PICK resync \in BOOLEAN : resync = (b.kind = "external" /\ b.resync)
      OBVIOUS
    <2>2. c = LeafEntry(g, b.kind, b.ep, e, b.generation, resync)
      BY <1>12, <2>1, Zenon
    <2>3. c \in LeafEntries(g)
      BY <1>11, <2>2 DEF LeafEntries
    <2> QED BY <2>3 DEF Entries
  <1>14. /\ IsLeaf(c) /\ Installs(c) /\ c.kind # "add" /\ c.kind # "create"
         /\ LeafCoordinates(c) = s
    BY <1>4, <1>11, <1>12 DEF IsLeaf, Installs, LeafCoordinates
  <1>15. c # None
    BY <1>11, <1>12 DEF None
  <1>16. CASE Len(log[g]) # at
    <2>1. UNCHANGED <<log, members>>
      BY <1>6, <1>16
    <2>2. ConsumedGrows
      BY <1>0, <1>6, <2>1, TypesRest
    <2>3. \A f \in Emulators : staged'[f] \in {staged[f], None} /\ building'[f] \in {building[f], None}
      BY <1>6, <1>8 DEF Dropped
    <2> QED BY <1>6, <1>8, <1>9, <1>10, <2>1, <2>2, <2>3, InvStill
  <1>17. CASE Len(log[g]) = at
    <2> DEFINE m == members[e][g]
               r == IF b.kind = "commit" THEN [m EXCEPT !.pending = c] ELSE Joined(at + 1, b.ep, c.key)
    <2>1. log' = [log EXCEPT ![g] = Append(@, c)] /\ Stores(e, g, r)
      BY <1>6, <1>17 DEF Stores
    <2>2. Appended(g, c)
      BY <1>0, <1>7, <1>13, <2>1, AppendLog
    <2>3. LogsOK' /\ LogGrows
      <3>1. \A h \in Groups : log'[h] \in Seq(Entries(h))
        BY <1>0, <1>7, <2>2 DEF Appended, TypeOK, LogsOK
      <3> QED BY <3>1, <1>0, <1>6, <1>7, <2>2, AppendedGrows DEF Appended, TypeOK, LogsOK
    <2>4. members'[e][g] = r
      BY <1>0, <1>7, <2>1, GroupStored
    <2>5. /\ Len(log[g]) \in Nat /\ at \in Nat /\ Len(log'[g]) = at + 1 /\ log'[g][at + 1] = c
      BY <1>0, <1>7, <1>17, <2>2, LogTypes DEF Appended
    <2>6. /\ IsStoredGroup(m) /\ m.pos \in Nat /\ m.since \in Nat
          /\ PositionAt(e, g) /\ OwnBehindAt(e, g) /\ BoundAt(e, g)
      BY <1>0, <1>7, GroupTypes DEF PlacesInv, Positions, OwnBehind, BindingInv
    <2>7. IF b.kind = "commit" THEN m.pos > 0 /\ m.pending = None ELSE m.pos = 0
      BY <1>0, <1>1, <1>2, <1>6 DEF PlacesInv, BuilderFits, BuilderFitsAt
    <2>8. staged[e] # None => staged[e].group # g
      BY <1>0, <1>1, <1>2, <1>6 DEF PlacesInv, StagedNext, StagedNextAt
    <2>9. OpensAll /\ HeadsSent'
      BY <1>0, <1>6, <1>8, SameOpens, HeadsSame DEF FollowInv
    <2>10. \A f \in Emulators :
              IsLeaf(c) /\ c.info.tbe.leaf # f /\ c.info.epoch_id \in DOMAIN trees'[f]
              => Open(trees'[f][c.info.epoch_id], c.info.tbe.leaf, "leaf_node", c.info.tbe.generation)
      <3> SUFFICES ASSUME NEW f \in Emulators, f # e, b.ep \in DOMAIN trees[f]
                   PROVE  Open(trees[f][b.ep], e, "leaf_node", b.generation)
        BY <1>6, <1>12
      <3>1. "leaf_node" \in OperationTypes
        BY DEF OperationTypes
      <3> QED BY <1>0, <1>8, <1>11, <3>1, AheadOpen DEF FollowInv
    <2>11. /\ IsStoredGroup(r) /\ BoundAt(e, g)' /\ PositionAt(e, g)' /\ OwnBehindAt(e, g)'
           /\ Seen(e, g) <= Seen(e, g)' /\ Seen(e, g)' \in Nat
      <3>1. CASE b.kind = "commit"
        <4>1. /\ r.pos = m.pos /\ r.since = m.since /\ r.bindings = m.bindings /\ r.pending = c
              /\ IsStoredGroup(r)
          BY <2>6, <3>1 DEF IsStoredGroup
        <4>2. m.pos = at /\ m.pos > 0
          BY <1>5, <2>7, <3>1
        <4>3. BoundAt(e, g)'
          BY <1>0, <1>7, <1>9, <2>3, <2>4, <2>6, <4>1, BoundKept
        <4>4. Seen(e, g) = at /\ Seen(e, g)' = at
          BY <2>4, <2>5, <4>1, <4>2 DEF Seen
        <4>5. PositionAt(e, g)'
          <5>1. /\ members'[e][g].pos = at /\ members'[e][g].since = m.since /\ at > 0
                /\ members'[e][g].pending = c /\ c.kind = "commit" /\ c.info.epoch_id \in epochs'[e]
            BY <1>6, <1>8, <1>12, <2>4, <3>1, <4>1, <4>2
          <5>2. m.since \in 1..at
            BY <2>6, <4>2 DEF PositionAt
          <5>3. Seen(e, g)' <= Len(log'[g]) /\ at \in 1..(Len(log'[g]) - 1) /\ at # 0
            BY <2>5, <4>2, <4>4
          <5> QED BY <2>5, <5>1, <5>2, <5>3 DEF PositionAt
        <4>6. OwnBehindAt(e, g)'
          <5>1. \A i \in 1..Len(log'[g]) : i > Seen(e, g)' => i = at + 1
            BY <2>5, <4>4
          <5>2. members'[e][g].pos = at /\ members'[e][g].pending = c
            BY <2>4, <4>1, <4>2
          <5> QED BY <1>15, <5>1, <5>2 DEF OwnBehindAt
        <4> QED BY <2>5, <4>1, <4>3, <4>4, <4>5, <4>6
      <3>2. CASE b.kind = "external"
        <4>1. r = Joined(at + 1, b.ep, c.key) /\ at + 1 \in Nat \ {0}
          BY <2>5, <3>2
        <4>2. members'[e][g].pos = at + 1 /\ members'[e][g].since = at + 1 /\ members'[e][g].pending = None
          <5>1. at + 1 \in Nat /\ members'[e][g] = Joined(at + 1, b.ep, c.key)
            BY <2>4, <4>1
          <5> QED BY <5>1, JoinedFields
        <4>3. IsStoredGroup(members'[e][g]) /\ BoundAt(e, g)'
          <5>1. c = log'[g][at + 1] /\ c.kind # "add" /\ b.ep = c.info.epoch_id /\ b.ep \in epochs'[e]
                /\ members'[e][g] = Joined(at + 1, b.ep, c.key)
            BY <1>6, <1>8, <1>12, <1>14, <2>4, <2>5, <4>1
          <5> QED BY <1>0, <1>7, <1>11, <1>14, <2>3, <4>1, <5>1, BoundJoined
        <4>4. /\ PositionAt(e, g)' /\ OwnBehindAt(e, g)'
              /\ Seen(e, g) <= Seen(e, g)' /\ Seen(e, g)' \in Nat
          <5>1. m.pos = 0
            BY <2>7, <3>2
          <5> QED BY <1>0, <1>7, <1>17, <2>2, <2>3, <4>2, <5>1, EnteredPlace
        <4> QED BY <2>4, <4>3, <4>4
      <3> QED BY <1>11, <3>1, <3>2
    <2>12. /\ DOMAIN sent \subseteq DOMAIN sent'
           /\ IsLeaf(c) => LeafCoordinates(c) \in DOMAIN sent' \ DOMAIN sent
      BY <1>8, <1>14
    <2> HIDE DEF r
    <2> QED BY <1>6, <1>7, <1>8, <1>9, <1>10, <1>12, <1>13, <1>14, <2>1, <2>2, <2>8, <2>9, <2>10,
               <2>11, <2>12, InvEntered
  <1> QED BY <1>16, <1>17

(* A group is created, or only its generation burned. *)
LEMMA CreateGroupStep ==
    ASSUME Inv, NEW e \in Emulators, NEW g \in Groups, NEW ep \in epochs[e], NEW done \in BOOLEAN,
           CreateGroup(e, g, ep, done)
    PROVE  Inv'
  <1>0. TypeOK /\ OwnInv /\ PlacesInv /\ FollowInv /\ WelcomeInv /\ BindingInv
    BY DEF Inv
  <1>1. PICK n : n = HeadGeneration(trees[e][ep], e, "key_package")
    OBVIOUS
  <1> DEFINE up == [ep |-> ep, leaf |-> e, generation |-> n]
             key == PackageKey(ep, e, n, 0)
             c == PackageEntry("create", up, 0, <<>>)
             s == Coordinates(ep, e, "key_package", n)
             r == Joined(1, ep, key)
  <1>2. /\ log[g] = <<>> /\ members[e][g].pos = 0 /\ building[e] = None /\ staged[e] = None
        /\ ep \in DOMAIN trees[e] /\ TreeFree(e, ep) /\ Allocate(e, ep, "key_package")
        /\ UNCHANGED <<emulation, epochs, packages, handled, uploads>>
    BY DEF CreateGroup, Loadable
  <1>3. "key_package" \in OperationTypes
    BY DEF OperationTypes
  <1>4. /\ n \in Generations /\ n \in Nat /\ n = trees[e][ep][<<e, "key_package">>].next
        /\ Moves(e, ep, e, "key_package", n) /\ ep \in EmulationEpochs
    BY <1>0, <1>1, <1>2, <1>3, Allocated
  <1>5. CASE ~ done
    <2>1. Forget(e) /\ UNCHANGED <<log, members, sent>>
      BY <1>5 DEF CreateGroup
    <2> QED BY <1>2, <1>4, <2>1, TornMove
  <1>6. CASE done
    <2>1. /\ log' = [log EXCEPT ![g] = <<c>>] /\ Stores(e, g, r) /\ Leaves(s)
          /\ UNCHANGED <<building, batch, staged, lost>>
      BY <1>1, <1>6 DEF CreateGroup, PackageEntry, Stores
    <2>2. /\ c.kind = "create" /\ c.info.epoch_id = ep /\ c.info.tbe.leaf = e
          /\ c.info.tbe.generation = n
      BY DEF PackageEntry, Entry, DerivationInfo, Tbe
    <2>3. c \in Entries(g)
      <3>1. up \in Uploads
        BY <1>4 DEF Uploads
      <3> QED BY <3>1 DEF Entries, Creations
    <2>4. CreationCoordinates(c) = s
      BY <2>2 DEF CreationCoordinates
    <2> HIDE DEF c, s, key
    <2>5. r.pos = 1 /\ r.since = 1 /\ r.pending = None
      BY DEF Joined
    <2>6. ~ IsLeaf(c) /\ Installs(c)
      BY <2>2 DEF IsLeaf, Installs
    <2>7. Len(log[g]) = 0 /\ Appended(g, c)
      <3>1. DOMAIN log = Groups
        BY <1>0 DEF TypeOK, LogsOK
      <3>2. log'[g] = <<c>> /\ DOMAIN log' = Groups /\ \A h \in Groups : h # g => log'[h] = log[h]
        BY <2>1, <3>1
      <3>3. <<c>> \in Seq(Entries(g)) /\ Len(<<c>>) = 1 /\ <<c>>[1] = c
        BY <2>3
      <3>4. Len(log[g]) = 0
        BY <1>2
      <3> QED BY <3>2, <3>3, <3>4 DEF Appended
    <2>8. LogsOK' /\ LogGrows
      <3>1. \A h \in Groups : log'[h] \in Seq(Entries(h))
        BY <1>0, <2>7 DEF Appended, TypeOK, LogsOK
      <3> QED BY <3>1, <1>0, <1>2, <2>7, AppendedGrows DEF Appended, TypeOK, LogsOK
    <2>9. Dropped /\ MemoryOK'
      BY <1>0, <2>1, TypesRest
    <2>10. /\ OwnInv' /\ SentOK' /\ s \notin DOMAIN sent
           /\ DOMAIN sent' = DOMAIN sent \union {s}
      BY <1>0, <1>2, <1>4, <2>1, <2>9, OwnSends DEF TreeFree, s
    <2>11. OpensAll /\ HeadsSent' /\ TreesOK'
      <3>1. OpensAll
        BY <1>0, <1>2, <1>3, <1>4, MovesOpens
      <3>2. HeadsSent'
        BY <1>0, <1>2, <1>3, <1>4, <2>10, HeadsMove DEF FollowInv
      <3> QED BY <1>4, <3>1, <3>2 DEF Moves
    <2>12. members'[e][g] = r
      BY <1>0, <2>1, GroupStored
    <2>13. IsStoredGroup(r) /\ BoundAt(e, g)'
      <3>1. c = log'[g][1] /\ c.kind # "add" /\ ep = c.info.epoch_id /\ ep \in epochs'[e]
        BY <1>2, <2>2, <2>7 DEF Appended
      <3>2. 1 \in Nat \ {0}
        OBVIOUS
      <3>3. IsStoredGroup(members'[e][g]) /\ BoundAt(e, g)'
        BY <1>0, <1>4, <2>6, <2>8, <2>12, <3>1, <3>2, BoundJoined
      <3> QED BY <2>12, <3>3
    <2> HIDE DEF r
    <2>14. /\ PositionAt(e, g)' /\ OwnBehindAt(e, g)'
           /\ Seen(e, g) <= Seen(e, g)' /\ Seen(e, g)' \in Nat
      <3>1. /\ members'[e][g].pos = Len(log[g]) + 1 /\ members'[e][g].since = Len(log[g]) + 1
            /\ members'[e][g].pending = None
        BY <2>5, <2>7, <2>12
      <3> QED BY <1>0, <1>2, <2>7, <2>8, <3>1, EnteredPlace
    <2>15. /\ DOMAIN sent \subseteq DOMAIN sent' /\ CreationCoordinates(c) \in DOMAIN sent' \ DOMAIN sent
           /\ building'[e] = None
      BY <1>2, <2>1, <2>4, <2>10
    <2> QED BY <1>2, <2>1, <2>2, <2>3, <2>6, <2>7, <2>9, <2>10, <2>11, <2>13, <2>14, <2>15, InvEntered
  <1> QED BY <1>5, <1>6

-----------------------------------------------------------------------------
(* The invariant                                                            *)

(* The first state. *)
LEMMA InvInit == ASSUME Init PROVE Inv
  <1>1. TypeOK
    <2>1. \A e \in Emulators : trees[e] = <<>> /\ DOMAIN trees[e] = {}
      BY DEF Init
    <2>2. TreesOK
      BY <2>1 DEF Init, TreesOK
    <2>3. StagedOK /\ StateOK /\ MemoryOK
      BY DEF Init, StagedOK, StateOK, MemoryOK, EmulationEpochs
    <2>4. GroupsOK
      <3>1. IsStoredGroup(NotMember)
        BY DEF IsStoredGroup, NotMember, Removed
      <3> QED BY <3>1 DEF Init, GroupsOK
    <2>5. LogsOK
      BY DEF Init, LogsOK
    <2>6. SentOK
      BY DEF Init, SentOK
    <2> QED BY <2>2, <2>3, <2>4, <2>5, <2>6 DEF TypeOK
  <1>2. /\ \A e \in Emulators : trees[e] = <<>> /\ DOMAIN trees[e] = {}
        /\ DOMAIN sent = {} /\ uploads = <<>> /\ Len(uploads) = 0
        /\ \A e \in Emulators : building[e] = None /\ batch[e] = None /\ staged[e] = None /\ handled[e] = {}
        /\ \A g \in Groups : log[g] = <<>> /\ Len(log[g]) = 0
    BY DEF Init
  <1>3. \A e \in Emulators, g \in Groups :
           LET m == members[e][g] IN m.pos = 0 /\ m.since = 0 /\ m.pending = None /\ m.bindings = <<>>
    BY DEF Init, NotMember, Removed
  <1>4. OwnInv
    BY <1>2 DEF OwnInv, TreesExported, SentBehind, BuilderOwns, BuilderOwnsAt, BatchOwns, BatchOwnsAt
  <1>5. PlacesInv
    <2>1. Positions
      BY <1>2, <1>3 DEF Positions, PositionAt, Seen
    <2>2. OwnBehind
      BY <1>2 DEF OwnBehind, OwnBehindAt
    <2> QED BY <1>2, <2>1, <2>2 DEF PlacesInv, StagedNext, StagedNextAt, BuilderFits, BuilderFitsAt
  <1>6. FollowInv
    <2>1. AllSent /\ SecretsDiffer
      BY <1>2 DEF AllSent, SecretsDiffer
    <2>2. HeadsSent /\ CommitsOpen /\ UploadsOpen
      BY <1>2 DEF HeadsSent, CommitsOpen, UploadsOpen
    <2> QED BY <2>1, <2>2 DEF FollowInv
  <1>7. WelcomeInv
    <2>1. AddsFromUploads /\ PackagesOnce
      BY <1>2 DEF AddsFromUploads, PackagesOnce
    <2>2. HandledStored /\ PackagesKept
      BY <1>2 DEF HandledStored, PackagesKept
    <2> QED BY <2>1, <2>2 DEF WelcomeInv
  <1>8. BindingInv
    <2> SUFFICES ASSUME NEW e \in Emulators, NEW g \in Groups PROVE BoundAt(e, g)
      BY DEF BindingInv
    <2>1. members[e][g].pos = 0 /\ members[e][g].bindings = <<>> /\ Len(members[e][g].bindings) = 0
      BY <1>3
    <2> QED BY <2>1 DEF BoundAt, OrderedAt, Spaced, InstalledAt, EpochsBoundAt
  <1> QED BY <1>1, <1>4, <1>5, <1>6, <1>7, <1>8 DEF Inv

(* A step changes nothing that the invariant is about. *)
LEMMA InvStutters == ASSUME Inv, UNCHANGED vars PROVE Inv'
  <1>1. UNCHANGED <<emulation, epochs, trees, building, batch, staged, members, packages,
                    handled, log, uploads, sent, lost>>
    BY DEF vars
  <1>2. TypeOK /\ OwnInv
    BY DEF Inv
  <1>3. StateOK' /\ MemoryOK' /\ StagedOK' /\ Dropped /\ EpochsGrow /\ TreesExported' /\ ConsumedGrows
    BY <1>1, <1>2, TypesRest
  <1>4. \A f \in Emulators : staged'[f] \in {staged[f], None}
    BY <1>1
  <1> QED BY <1>1, <1>3, <1>4, InvRest

(* Every action keeps the invariant. *)
LEMMA InvStep == ASSUME Inv, Next PROVE Inv'
  <1>1. ASSUME NEW e \in Emulators,
               \/ Crash(e) \/ NextEmulationEpoch(e) \/ Register(e)
               \/ \E k \in 1..3 : RegisterTorn(e, k)
               \/ BuildCommit(e) \/ DropCommit(e) \/ MergeStaged(e)
               \/ FinalizeBatch(e) \/ FinalizeTorn(e) \/ DropBatch(e)
        PROVE  Inv'
    BY <1>1, CrashStep, NextEmulationEpochStep, RegisterStep, BuildCommitStep, DropCommitStep,
       MergeStagedStep, FinalizeBatchStep, FinalizeTornStep, DropBatchStep
  <1>2. ASSUME NEW e \in Emulators,
               \/ \E ep \in epochs[e] : NewBatch(e, ep)
               \/ \E u \in DOMAIN uploads : ProcessUpload(e, u)
        PROVE  Inv'
    BY <1>2, NewBatchStep, ProcessUploadStep
  <1>3. ASSUME NEW e \in Emulators, NEW g \in Groups, NEW ep \in epochs[e],
               \/ \E kind \in {"commit", "external"} : VcEmulation(e, g, ep, kind)
               \/ \E done \in BOOLEAN : CreateGroup(e, g, ep, done)
        PROVE  Inv'
    <2>1. CASE \E kind \in {"commit", "external"} : VcEmulation(e, g, ep, kind)
      BY <2>1, VcEmulationStep
    <2>2. CASE \E done \in BOOLEAN : CreateGroup(e, g, ep, done)
      <3>1. PICK done \in BOOLEAN : CreateGroup(e, g, ep, done)
        BY <2>2
      <3> QED BY <3>1, CreateGroupStep
    <2> QED BY <1>3, <2>1, <2>2
  <1>4. ASSUME NEW e \in Emulators, NEW g \in Groups,
               \/ ProcessOwn(e, g) \/ ProcessOther(e, g) \/ ProcessRemoval(e, g)
               \/ ProcessSibling(e, g) \/ JoinAtCreation(e, g)
               \/ \E valid \in BOOLEAN : StageWelcome(e, g, valid)
               \/ \E i \in DOMAIN log[g] : JoinExternal(e, g, i)
        PROVE  Inv'
    BY <1>4, ProcessOwnStep, ProcessOtherStep, ProcessRemovalStep, ProcessSiblingStep,
       JoinAtCreationStep, StageWelcomeStep, JoinExternalStep
  <1>5. ASSUME NEW g \in Groups,
               \/ \E kind \in {"other", "remove"} : OtherCommits(g, kind)
               \/ \E u \in DOMAIN uploads, index \in 0..(BatchSize - 1) : OtherAdds(g, u, index)
        PROVE  Inv'
    BY <1>5, OtherCommitsStep, OtherAddsStep
  <1> QED BY <1>1, <1>2, <1>3, <1>4, <1>5 DEF Next

(* The invariant holds in every state of every behaviour. *)
LEMMA InvAlways == Spec => []Inv
  <1>1. Init => Inv
    BY InvInit
  <1>2. Inv /\ [Next /\ UNCHANGED plan]_vars => Inv'
    BY InvStep, InvStutters
  <1> QED BY <1>1, <1>2, PTL DEF Spec

-----------------------------------------------------------------------------
(* Theorems                                                                 *)

(* However often builders are dropped, commits rejected and clients crash   *)
(* between two writes, no two operations of the virtual client leave it     *)
(* under the same emulation epoch, leaf, type and generation                *)
(* (next_operation_secret and its callers).                                 *)
THEOREM SecretsUsedOnce == Spec => []OperationSecretsOnce
  <1>1. Inv => OperationSecretsOnce
    BY DEF Inv, OwnInv, SentBehind, OperationSecretsOnce
  <1> QED BY <1>1, InvAlways, PTL

(* A generation that is open and in the window can be derived. *)
LEMMA OpenDerives ==
    ASSUME TypeOK, NEW e \in Emulators, NEW ep \in DOMAIN trees[e], NEW leaf \in Emulators,
           NEW type \in OperationTypes, NEW n \in Generations,
           Open(trees[e][ep], leaf, type, n), InWindow(trees[e][ep], leaf, type, n)
    PROVE  CanDerive(trees[e][ep], leaf, type, n)
  <1> DEFINE r == trees[e][ep][<<leaf, type>>]
  <1>1. r.next \in Nat
    <2>1. <<leaf, type>> \in Cells
      BY DEF Cells
    <2> QED BY <2>1, TreeTypes
  <1>2. n \in Nat /\ n < MaxGeneration /\ MaxGeneration \in Nat /\ MaxForward \in Nat /\ Tolerance \in Nat
    BY Numbers DEF Generations
  <1>3. n < r.next => n \in r.retained \/ n < r.next - 1 - Tolerance
    BY DEF Open
  <1>4. n >= r.next - 1 - Tolerance /\ n <= r.next + MaxForward
    BY DEF InWindow
  <1> HIDE DEF r
  <1>5. IF n < r.next THEN n \in r.retained
        ELSE n < MaxGeneration /\ (r.next < MaxGeneration - MaxForward => n <= r.next + MaxForward)
    BY <1>1, <1>2, <1>3, <1>4
  <1> QED BY <1>5 DEF CanDerive, r

(* A sibling's next commit, and an upload that was not seen yet, can be     *)
(* taken as long as their generations are in the window, in whatever order  *)
(* the commits of several groups and the uploads arrive and whatever was    *)
(* burned (load_vc_commit_material, process_vc_key_package_upload).         *)
THEOREM SiblingsAlwaysFollow == Spec => []SiblingsFollow
  <1>1. ASSUME Inv PROVE SiblingsFollow
    <2>0. TypeOK /\ PlacesInv /\ FollowInv
      BY <1>1 DEF Inv
    <2>1. ASSUME NEW e \in Emulators, NEW g \in Groups, NEW c, c = NextEntry(e, g),
                 members[e][g].pos \in 1..(Len(log[g]) - 1),
                 IsSiblingCommit(c), c # members[e][g].pending,
                 Loadable(e, c.info.epoch_id),
                 <<g, members[e][g].pos + 1>> \notin lost[e], staged[e] = None,
                 InWindow(trees[e][c.info.epoch_id], c.info.tbe.leaf, "leaf_node", c.info.tbe.generation)
          PROVE  CanLoadMaterial(e, c, "leaf_node") /\ CanStage(c, g)
      <3>1. members[e][g].pos \in Nat /\ members[e][g].pos > 0 /\ Len(log[g]) \in Nat
        BY <2>0, <2>1, GroupTypes, LogTypes
      <3>2. PICK j \in 1..Len(log[g]) : j = members[e][g].pos + 1
        BY <2>1, <3>1
      <3>3. c = log[g][j] /\ c \in Entries(g)
        BY <2>0, <2>1, <3>2, LogTypes DEF NextEntry
      <3>4. IsLeaf(c) /\ Installs(c)
        BY <2>1 DEF IsSiblingCommit, IsLeaf, Installs
      <3>5. Seen(e, g) = members[e][g].pos
        BY <3>1 DEF Seen
      <3>6. ~ Consumed(e, g, j)
        BY <2>1, <3>1, <3>2, <3>5 DEF Consumed
      <3>7. c.info.tbe.leaf # e
        <4>1. j > Seen(e, g)
          BY <3>1, <3>2, <3>5
        <4> QED BY <2>0, <2>1, <3>3, <3>4, <4>1, AheadNotOwn
      <3>8. /\ c.info.tbe.leaf \in Emulators /\ c.info.tbe.generation \in Generations
            /\ c.info.key = <<EpochEncryptionKey(c.info.epoch_id), c.key>>
            /\ CanStage(c, g)
        BY <3>3, <3>4, EntryFields
      <3>9. c.info.epoch_id \in epochs[e] /\ c.info.epoch_id \in DOMAIN trees[e]
        BY <2>1 DEF Loadable
      <3>10. Open(trees[e][c.info.epoch_id], c.info.tbe.leaf, "leaf_node", c.info.tbe.generation)
        BY <2>0, <3>3, <3>4, <3>6, <3>7, <3>9 DEF FollowInv, CommitsOpen
      <3>11. "leaf_node" \in OperationTypes
        BY DEF OperationTypes
      <3>12. CanDerive(trees[e][c.info.epoch_id], c.info.tbe.leaf, "leaf_node", c.info.tbe.generation)
        BY <2>0, <2>1, <3>8, <3>9, <3>10, <3>11, OpenDerives
      <3> QED BY <2>1, <3>8, <3>9, <3>12 DEF CanLoadMaterial, Decrypts
    <2>2. ASSUME NEW e \in Emulators, NEW u \in DOMAIN uploads \ handled[e],
                 uploads[u].leaf # e, Loadable(e, uploads[u].ep),
                 InWindow(trees[e][uploads[u].ep], uploads[u].leaf, "key_package", uploads[u].generation)
          PROVE  CanDerive(trees[e][uploads[u].ep], uploads[u].leaf, "key_package", uploads[u].generation)
      <3>1. u \in 1..Len(uploads) /\ uploads[u].leaf \in Emulators /\ uploads[u].generation \in Generations
        BY <2>0, UploadTypes
      <3>2. uploads[u].ep \in DOMAIN trees[e]
        BY <2>2 DEF Loadable
      <3>3. Open(trees[e][uploads[u].ep], uploads[u].leaf, "key_package", uploads[u].generation)
        BY <2>0, <2>2, <3>1, <3>2 DEF FollowInv, UploadsOpen
      <3>4. "key_package" \in OperationTypes
        BY DEF OperationTypes
      <3> QED BY <2>0, <2>2, <3>1, <3>2, <3>3, <3>4, OpenDerives
    <2> QED BY <2>1, <2>2 DEF SiblingsFollow
  <1> QED BY <1>1, InvAlways, PTL

(* An emulator that built or processed the upload of a key package can open *)
(* the Welcome for it, whatever became of the other Welcomes of the upload, *)
(* unless this one was refused before, or a crash took it, after its        *)
(* material was deleted (vc_welcome_material).                              *)
THEOREM WelcomesAlwaysOpen == Spec => []WelcomesOpen
  <1>1. ASSUME Inv PROVE WelcomesOpen
    <2>0. TypeOK /\ PlacesInv /\ WelcomeInv
      BY <1>1 DEF Inv
    <2> SUFFICES ASSUME NEW e \in Emulators, NEW g \in Groups, NEW i, i = LastLeaf(g, Len(log[g])),
                        NEW c, c = log[g][i], NEW u, u = c.package[1],
                        i > 0, c.kind = "add", members[e][g].pos = 0, staged[e] = None,
                        uploads[u].leaf = e \/ u \in handled[e], <<g, i>> \notin lost[e]
                 PROVE  c.package \in packages[e] /\ (uploads[u].leaf # e => OwnLeafFound(e, c))
      BY DEF WelcomesOpen
    <2>1. Len(log[g]) \in Nat /\ members[e][g].since \in Nat
      BY <2>0, LogTypes, GroupTypes
    <2>2. /\ i \in 0..Len(log[g])
          /\ \A j \in 1..Len(log[g]) : Installs(log[g][j]) \/ log[g][j].kind = "remove" => j <= i
      <3>1. LastLeaf(g, Len(log[g])) = LastOf(log[g], Len(log[g]))
        BY DEF LastLeaf, LastOf
      <3> QED BY <2>1, <3>1, LastOfProperties
    <2>3. i \in 1..Len(log[g])
      BY <2>1, <2>2
    <2>4. /\ u \in 1..Len(uploads) /\ c.package = <<u, c.package[2]>>
          /\ c = PackageEntry("add", uploads[u], c.package[2], c.package)
          /\ c.package[2] \in 0..(BatchSize - 1)
      BY <2>0, <2>3 DEF WelcomeInv, AddsFromUploads
    <2>5. ~ Consumed(e, g, i)
      <3>1. Seen(e, g) = members[e][g].since
        BY DEF Seen
      <3>2. i > members[e][g].since
        <4>1. CASE members[e][g].since = 0
          BY <2>3, <4>1
        <4>2. CASE members[e][g].since # 0
          <5>1. /\ members[e][g].since \in 1..Len(log[g])
                /\ log[g][members[e][g].since].kind = "remove"
            <6>1. PositionAt(e, g)
              BY <2>0 DEF PlacesInv, Positions
            <6> QED BY <2>1, <3>1, <4>2, <6>1 DEF PositionAt
          <5>2. members[e][g].since <= i /\ members[e][g].since # i
            BY <2>2, <5>1
          <5> QED BY <2>1, <2>3, <5>2
        <4> QED BY <4>1, <4>2
      <3> QED BY <2>1, <2>3, <3>1, <3>2 DEF Consumed
    <2>6. c.package \in packages[e]
      <3>1. PICK index \in 0..(BatchSize - 1) : c.package = <<u, index>>
        BY <2>4
      <3>2. \/ <<u, index>> \in packages[e]
            \/ \E h \in Groups : \E j \in 1..Len(log[h]) :
                 log[h][j].kind = "add" /\ log[h][j].package = <<u, index>> /\ Consumed(e, h, j)
        <4>1. u \in 1..Len(uploads) /\ PackagesKept
          BY <2>0, <2>4 DEF WelcomeInv
        <4>2. \A x \in 1..Len(uploads), k \in 0..(BatchSize - 1) :
                 uploads[x].leaf = e \/ x \in handled[e] =>
                   \/ <<x, k>> \in packages[e]
                   \/ \E h \in Groups : \E j \in 1..Len(log[h]) :
                        log[h][j].kind = "add" /\ log[h][j].package = <<x, k>> /\ Consumed(e, h, j)
          BY <4>1 DEF PackagesKept
        <4>3. uploads[u].leaf = e \/ u \in handled[e]
          OBVIOUS
        <4> QED BY <4>1, <4>2, <4>3
      <3>3. ASSUME NEW h \in Groups, NEW j \in 1..Len(log[h]),
                   log[h][j].kind = "add", log[h][j].package = <<u, index>>
            PROVE  h = g /\ j = i
        <4>1. log[g][i].kind = "add" /\ log[h][j].package = log[g][i].package
          BY <3>1, <3>3
        <4> QED BY <2>0, <2>3, <3>3, <4>1 DEF WelcomeInv, PackagesOnce
      <3> QED BY <2>5, <3>1, <3>2, <3>3
    <2>7. ASSUME uploads[u].leaf # e PROVE OwnLeafFound(e, c)
      <3>1. uploads[u].ep \in epochs[e]
        BY <2>0, <2>7 DEF WelcomeInv, HandledStored
      <3>2. c.info.epoch_id = uploads[u].ep
        <4>1. PackageEntry("add", uploads[u], c.package[2], c.package).info.epoch_id = uploads[u].ep
          BY DEF PackageEntry, Entry, DerivationInfo
        <4> QED BY <2>4, <4>1
      <3>3. c.info.key = <<EpochEncryptionKey(c.info.epoch_id), c.key>>
        <4>1. c \in Entries(g) /\ Installs(c)
          BY <2>0, <2>3, LogTypes DEF Installs
        <4> QED BY <4>1, EntryFields
      <3>4. Decrypts(e, c)
        BY <3>1, <3>2, <3>3 DEF Decrypts
      <3>5. /\ c.key = PackageKey(uploads[u].ep, uploads[u].leaf, uploads[u].generation, c.package[2])
            /\ c.info.tbe = Tbe(uploads[u].leaf, uploads[u].generation, c.package[2], FALSE)
        <4> DEFINE x == PackageEntry("add", uploads[u], c.package[2], c.package)
        <4>1. /\ x.key = PackageKey(uploads[u].ep, uploads[u].leaf, uploads[u].generation, c.package[2])
              /\ x.info.tbe = Tbe(uploads[u].leaf, uploads[u].generation, c.package[2], FALSE)
          BY DEF PackageEntry, Entry, DerivationInfo
        <4>2. c = x
          BY <2>4
        <4> HIDE DEF x
        <4> QED BY <4>1, <4>2
      <3> QED BY <3>2, <3>4, <3>5 DEF OwnLeafFound
    <2> QED BY <2>6, <2>7
  <1> QED BY <1>1, InvAlways, PTL

(* The binding of a kept epoch is the emulation epoch of the leaf. *)
LEMMA KeptBound ==
    ASSUME Inv, NEW e \in Emulators, NEW g \in Groups, members[e][g].pos > 0,
           NEW n \in KeptEpochs(e, g), LeafEpoch(g, n) > 0
    PROVE  /\ BindingAt(members[e][g].bindings, n) = LeafEpoch(g, n)
           /\ LeafEpoch(g, n) \in epochs[e]
  <1> DEFINE m == members[e][g]
  <1>0. TypeOK /\ PlacesInv /\ BoundAt(e, g)
    BY DEF Inv, BindingInv
  <1>1. m.pos \in Nat /\ m.since \in Nat /\ m.bindings \in Seq(Bindings) /\ MaxPast \in Nat
    BY <1>0, GroupTypes, Numbers
  <1>2. n \in Kept(e, g)
    <2>1. \A a, b \in Int : Max({a, b}) \in {a, b} /\ a <= Max({a, b}) /\ b <= Max({a, b})
      <3> SUFFICES ASSUME NEW a \in Int, NEW b \in Int
                   PROVE  Max({a, b}) \in {a, b} /\ a <= Max({a, b}) /\ b <= Max({a, b})
        OBVIOUS
      <3>1. \E x \in {a, b} : \A y \in {a, b} : x >= y
        OBVIOUS
      <3> QED BY <3>1 DEF Max
    <2>2. PICK a \in Int : a = m.since
      BY <1>1
    <2>3. PICK b \in Int : b = m.pos - MaxPast
      BY <1>1
    <2>4. n \in Max({a, b})..m.pos
      BY <2>2, <2>3 DEF KeptEpochs
    <2>5. Max({a, b}) \in Int /\ a <= Max({a, b}) /\ b <= Max({a, b})
      BY <2>1
    <2>6. n \in Int /\ a <= n /\ b <= n /\ n <= m.pos
      BY <1>1, <2>4, <2>5
    <2>7. n \in m.since..m.pos /\ n >= m.pos - MaxPast
      BY <1>1, <2>2, <2>3, <2>6
    <2> QED BY <2>7 DEF Kept
  <1>3. PICK i \in 1..Len(m.bindings) : m.bindings[i] = [epoch |-> n, ep |-> LeafEpoch(g, n)]
    BY <1>0, <1>2 DEF BoundAt, EpochsBoundAt
  <1>4. m.bindings[i].epoch = n /\ m.bindings[i].ep = LeafEpoch(g, n)
    BY <1>3
  <1>5. Spaced(m.bindings) /\ m.bindings[i].ep \in epochs[e]
    BY <1>0 DEF BoundAt, OrderedAt
  <1>6. BindingAt(m.bindings, m.bindings[i].epoch) = m.bindings[i].ep
    BY <1>1, <1>5, BindingAtProperties
  <1> QED BY <1>4, <1>5, <1>6

(* In every epoch whose message secrets two emulators keep, both know the   *)
(* emulation epoch of the virtual client's leaf and have its state: the     *)
(* reuse guard names the sender, and generations that collide show as equal *)
(* generation ids (VcEmulationBindings, merge_staged_commit).               *)
THEOREM MessagesAlwaysAttributed == Spec => []MessagesAttributed
  <1>1. ASSUME Inv PROVE MessagesAttributed
    <2> SUFFICES ASSUME NEW e \in Emulators, NEW f \in Emulators, NEW g \in Groups,
                        members[e][g].pos > 0, members[f][g].pos > 0,
                        NEW n \in KeptEpochs(e, g), n \in KeptEpochs(f, g), LeafEpoch(g, n) > 0,
                        NEW own, own = BindingAt(members[e][g].bindings, n),
                        NEW sib, sib = BindingAt(members[f][g].bindings, n)
                 PROVE  /\ own \in epochs[e]
                        /\ EmulatorSender(sib, ReuseGuard(own, e)) = e
                        /\ GenerationId(own, g, n) = GenerationId(sib, g, n)
      BY DEF MessagesAttributed
    <2>1. own = LeafEpoch(g, n) /\ own \in epochs[e]
      BY <1>1, KeptBound
    <2>2. sib = LeafEpoch(g, n)
      BY <1>1, KeptBound
    <2>3. EmulatorSender(own, ReuseGuard(own, e)) = e
      BY DEF EmulatorSender, ReuseGuard, Term
    <2> QED BY <2>1, <2>2, <2>3
  <1> QED BY <1>1, InvAlways, PTL

=============================================================================
