------------------------- MODULE PersistenceProofs -------------------------
(***************************************************************************)
(* Proofs about Persistence, for any set of groups and any number of       *)
(* messages, key packages and crashes, under the discipline of the README  *)
(* of the repository: publish what a resolved save() covers, and do not    *)
(* call save() of the file adapter while another one runs.                 *)
(***************************************************************************)
EXTENDS Persistence, SequenceTheorems, TLAPS

Discipline == SaveFirst /\ Overlapping \subseteq {"indexeddb"}

SaveCall == [snapshot : Snapshot, step : {"called", "truncated"}]
-----------------------------------------------------------------------------
(* The inductive invariant.  All snapshots of a client form a chain:        *)
(* resolved ones, the entry of the adapter, the saves under way in the      *)
(* order of their calls, and the client in memory.                          *)

(* A process that is not running has no calls under way and nothing to      *)
(* publish; while open() awaits its first save nothing was ever stored.     *)
PhaseInv ==
    /\ phase \in {"closed", "broken"} => saves = <<>> /\ outbox = {}
    /\ phase = "creating" => resolved = {} /\ outbox = {} /\ Len(saves) <= 1
    /\ adapter = "file" => Len(saves) <= 1

(* The order of the saves is the order of what they contain. *)
SavesOrdered ==
    /\ \A i \in 1..Len(saves) : AtLeast(mem, saves[i].snapshot)
    /\ \A i, j \in 1..Len(saves) : i <= j => AtLeast(saves[j].snapshot, saves[i].snapshot)
    /\ \A i \in 1..Len(saves) : \A s \in resolved : AtLeast(saves[i].snapshot, s)

(* The entry of the adapter has whatever a resolved save() was given, and   *)
(* so has the client that is open.                                          *)
ResolvedKept ==
    /\ disk.is = "none" => resolved = {}
    /\ disk.is = "snapshot" => \A s \in resolved : AtLeast(disk.holds, s)
    /\ adapter = "indexeddb" => disk.is # "torn"
    /\ phase = "open" => \A s \in resolved : AtLeast(mem, s)
    /\ \A s, t \in resolved : s.identity = t.identity

(* a was made by a client of the identity of s, and s remembers it. *)
Bears(s, a) == a.by = s.identity /\ Covers(s, a)

(* The client remembers what it has returned; a resolved snapshot remembers *)
(* what may be, or was, published.                                          *)
Remembered ==
    /\ \A a \in outbox : Bears(mem, a)
    /\ \A a \in durable \cup published : \E s \in resolved : Bears(s, a)

(* Two messages of one group never share a generation, published or not yet. *)
GenerationsDiffer ==
    \A a, b \in outbox \cup published :
        (a.kind = "message" /\ b.kind = "message" /\ a.group = b.group /\ a.id = b.id) => a = b

(* A message belongs to a group, a key package to none. *)
Labelled == \A a \in outbox \cup published : a.kind = "message" => a.group \in Groups

PersistenceInv ==
    /\ TypeOK
    /\ PhaseInv
    /\ SavesOrdered
    /\ ResolvedKept
    /\ Remembered
    /\ GenerationsDiffer
    /\ Labelled
-----------------------------------------------------------------------------
(* AtLeast is a preorder, and what a snapshot remembers a later one does.   *)

(* A snapshot has all that it has. *)
LEMMA AtLeastRefl ==
    ASSUME NEW s \in Snapshot
    PROVE  AtLeast(s, s)
  BY PersistenceConstants DEF AtLeast, Snapshot, NoGroup

(* Nothing is lost over several snapshots when nothing is over each of them. *)
LEMMA AtLeastTrans ==
    ASSUME NEW s \in Snapshot, NEW t \in Snapshot, NEW u \in Snapshot,
           AtLeast(s, t), AtLeast(t, u)
    PROVE  AtLeast(s, u)
<1>1. \A g \in Groups : s.next[g] \in Nat /\ t.next[g] \in Nat /\ u.next[g] \in Nat
  BY PersistenceConstants DEF Snapshot, NoGroup
<1>2. \A g \in Groups : u.next[g] # NoGroup => s.next[g] # NoGroup /\ s.next[g] >= u.next[g]
  <2> SUFFICES ASSUME NEW g \in Groups, u.next[g] # NoGroup
               PROVE  s.next[g] # NoGroup /\ s.next[g] >= u.next[g]
    OBVIOUS
  <2>1. t.next[g] # NoGroup /\ t.next[g] >= u.next[g]
    BY DEF AtLeast
  <2>2. s.next[g] # NoGroup /\ s.next[g] >= t.next[g]
    BY <2>1 DEF AtLeast
  <2> QED
    BY <1>1, <2>1, <2>2
<1>3. u.listed \subseteq s.listed /\ s.identity = u.identity
  BY DEF AtLeast
<1>4. u.keys \subseteq s.keys \cup s.joined /\ u.joined \subseteq s.joined
  BY DEF AtLeast
<1> QED
  BY <1>2, <1>3, <1>4 DEF AtLeast

(* A message sent and a key package made are remembered by every later      *)
(* snapshot.                                                                *)
LEMMA BearsLater ==
    ASSUME NEW s \in Snapshot, NEW t \in Snapshot, AtLeast(t, s),
           NEW a \in Artifact, a.kind = "message" => a.group \in Groups, Bears(s, a)
    PROVE  Bears(t, a)
<1>1. CASE a.kind = "message"
  <2>1. a.id \in Nat /\ s.next[a.group] \in Nat /\ t.next[a.group] \in Nat
    BY <1>1, PersistenceConstants DEF Artifact, Snapshot, NoGroup
  <2>2. s.next[a.group] # NoGroup /\ a.id < s.next[a.group] /\ a.by = s.identity
    BY <1>1 DEF Bears, Covers
  <2>3. t.next[a.group] # NoGroup /\ t.next[a.group] >= s.next[a.group] /\ t.identity = s.identity
    BY <1>1, <2>2 DEF AtLeast
  <2> QED
    BY <1>1, <2>1, <2>2, <2>3 DEF Bears, Covers
<1>2. CASE a.kind # "message"
  BY <1>2 DEF Bears, Covers, AtLeast
<1> QED
  BY <1>1, <1>2

(* A fresh client is a snapshot. *)
LEMMA FreshSnapshot ==
    ASSUME NEW id \in Nat
    PROVE  Fresh(id) \in Snapshot
  BY PersistenceConstants DEF Fresh, Snapshot, NoGroup

(* The calls of save() under way carry snapshots. *)
LEMMA SavedSnapshots ==
    ASSUME TypeOK
    PROVE  /\ saves \in Seq(SaveCall) /\ Len(saves) \in Nat /\ DOMAIN saves = 1..Len(saves)
           /\ \A i \in 1..Len(saves) : saves[i] \in SaveCall /\ saves[i].snapshot \in Snapshot
<1>1. saves \in Seq(SaveCall)
  BY DEF TypeOK, SaveCall
<1>2. Len(saves) \in Nat /\ DOMAIN saves = 1..Len(saves)
  BY <1>1, LenProperties
<1>3. \A i \in 1..Len(saves) : saves[i] \in SaveCall
  BY <1>1, ElementOfSeq
<1> QED
  BY <1>1, <1>2, <1>3 DEF SaveCall
-----------------------------------------------------------------------------
(* Every step keeps the invariant.                                          *)

(* Nothing is stored, under way or published before the first open(). *)
LEMMA PersistenceInit == Init => PersistenceInv
<1> SUFFICES ASSUME Init PROVE PersistenceInv
  OBVIOUS
<1>1. Fresh(0) \in Snapshot
  BY FreshSnapshot
<1>2. TypeOK
  BY <1>1, EmptySeq DEF Init, TypeOK, NoSnapshot
<1>3. Len(saves) = 0
  BY EmptySeq DEF Init
<1> QED
  BY <1>2, <1>3 DEF Init, PersistenceInv, PhaseInv, SavesOrdered, ResolvedKept, Remembered,
     GenerationsDiffer, Labelled, NoSnapshot

(* A call of an open client that adds to what it has, and returns at most   *)
(* one artifact that it remembers from then on, with a generation of its    *)
(* own.                                                                     *)
LEMMA FacadeCall ==
    ASSUME PersistenceInv, phase = "open",
           mem' \in Snapshot, AtLeast(mem', mem), minted' \in Nat,
           UNCHANGED <<adapter, phase, disk, saves, durable, crashes, published, resolved>>,
           NEW made \in SUBSET Artifact, outbox' = outbox \cup made,
           \A a \in made :
               /\ Bears(mem', a)
               /\ a.kind = "message" => a.group \in Groups
               /\ \A b \in outbox \cup published \cup made :
                     (a.kind = "message" /\ b.kind = "message" /\ a.group = b.group /\ a.id = b.id)
                        => a = b
    PROVE  PersistenceInv'
<1> USE DEF PersistenceInv
<1>1. TypeOK'
  BY DEF TypeOK
<1>2. PhaseInv'
  BY DEF PhaseInv
<1>3. SavesOrdered'
  <2>1. \A i \in 1..Len(saves) : saves[i].snapshot \in Snapshot
    BY SavedSnapshots
  <2>2. \A i \in 1..Len(saves) : AtLeast(mem', saves[i].snapshot)
    BY <2>1, AtLeastTrans DEF SavesOrdered, TypeOK
  <2> QED
    BY <2>2 DEF SavesOrdered, AtLeast
<1>4. ResolvedKept'
  <2>1. \A s \in resolved : AtLeast(mem', s)
    BY AtLeastTrans DEF ResolvedKept, TypeOK
  <2> QED
    BY <2>1 DEF ResolvedKept, AtLeast
<1>5. Remembered'
  <2>1. \A a \in outbox : Bears(mem', a)
    BY BearsLater DEF Remembered, Labelled, TypeOK
  <2> QED
    BY <2>1 DEF Remembered, Bears, Covers
<1>6. GenerationsDiffer'
  BY DEF GenerationsDiffer
<1>7. Labelled'
  BY DEF Labelled
<1> QED
  BY <1>1, <1>2, <1>3, <1>4, <1>5, <1>6, <1>7

(* The same for a call that returns nothing to publish ... *)
LEMMA NothingReturned ==
    ASSUME PersistenceInv, phase = "open",
           mem' \in Snapshot, AtLeast(mem', mem),
           UNCHANGED <<adapter, phase, disk, saves, durable, crashes, published, resolved>>,
           UNCHANGED <<outbox, minted>>
    PROVE  PersistenceInv'
<1>1. outbox' = outbox \cup {} /\ {} \in SUBSET Artifact
  OBVIOUS
<1>2. minted' \in Nat
  BY DEF PersistenceInv, TypeOK
<1> QED
  BY <1>1, <1>2, FacadeCall

(* ... and for one that returns a message or a key package. *)
LEMMA OneReturned ==
    ASSUME PersistenceInv, phase = "open",
           mem' \in Snapshot, AtLeast(mem', mem), minted' \in Nat,
           UNCHANGED <<adapter, phase, disk, saves, durable, crashes, published, resolved>>,
           NEW a \in Artifact, outbox' = outbox \cup {a}, Bears(mem', a),
           a.kind = "message" => /\ a.group \in Groups
                                 /\ \A b \in outbox \cup published :
                                       b.kind = "message" => b.group # a.group \/ b.id # a.id
    PROVE  PersistenceInv'
<1>1. {a} \in SUBSET Artifact
  OBVIOUS
<1>2. \A x \in {a} :
          /\ Bears(mem', x)
          /\ x.kind = "message" => x.group \in Groups
          /\ \A b \in outbox \cup published \cup {a} :
                (x.kind = "message" /\ b.kind = "message" /\ x.group = b.group /\ x.id = b.id)
                   => x = b
  OBVIOUS
<1> QED
  BY <1>1, <1>2, FacadeCall

(* A client with one more group has at least what it had. *)
LEMMA GroupAdded ==
    ASSUME NEW s \in Snapshot, NEW t \in Snapshot, NEW g \in Groups, s.next[g] = NoGroup,
           t.identity = s.identity, t.next = [s.next EXCEPT ![g] = 0],
           s.listed \subseteq t.listed, s.keys \subseteq t.keys \cup t.joined,
           s.joined \subseteq t.joined
    PROVE  AtLeast(t, s)
<1>1. s.next \in [Groups -> 0..NoGroup] /\ NoGroup \in Nat
  BY PersistenceConstants DEF Snapshot, NoGroup
<1>2. \A h \in Groups : h # g => t.next[h] = s.next[h]
  BY <1>1
<1>3. \A h \in Groups : s.next[h] # NoGroup => t.next[h] # NoGroup /\ t.next[h] >= s.next[h]
  BY <1>1, <1>2
<1> QED
  BY <1>3 DEF AtLeast

(* createGroup() and joinGroup() add a group; keyPackage() adds its private *)
(* keys and joinGroup() replaces them by the join; send() moves the ratchet *)
(* of the group on.                                                         *)
LEMMA FacadeSteps ==
    ASSUME PersistenceInv, UNCHANGED adapter,
           \/ KeyPackage
           \/ \E g \in Groups : CreateGroup(g) \/ Send(g)
           \/ \E kp \in mem.keys, g \in Groups, withId \in BOOLEAN : JoinGroup(kp, g, withId)
    PROVE  PersistenceInv'
<1> USE DEF PersistenceInv
<1>0. /\ mem \in Snapshot /\ minted \in Nat /\ crashes \in Nat /\ outbox \cup published \subseteq Artifact
      /\ mem.identity \in Nat /\ mem.next \in [Groups -> 0..NoGroup] /\ mem.listed \in SUBSET Groups
      /\ mem.keys \in SUBSET Nat /\ mem.joined \in SUBSET Nat
      /\ MaxGenerations \in Nat /\ NoGroup = MaxGenerations + 1
  BY PersistenceConstants DEF TypeOK, Snapshot, NoGroup
<1>1. CASE KeyPackage
  <2> DEFINE kp == Made("keyPackage", NoGroup, minted + 1, mem)
  <2>1. phase = "open" /\ mem' = [mem EXCEPT !.keys = @ \cup {minted + 1}]
        /\ minted' = minted + 1 /\ outbox' = outbox \cup {kp}
    BY <1>1 DEF KeyPackage
  <2>2. mem' \in Snapshot /\ AtLeast(mem', mem)
    BY <1>0, <2>1 DEF Snapshot, AtLeast
  <2>3. kp \in Artifact /\ Bears(mem', kp) /\ kp.kind # "message"
    BY <1>0, <2>1 DEF Made, Artifact, Bears, Covers, Snapshot
  <2>4. UNCHANGED <<adapter, phase, disk, saves, durable, crashes, published, resolved>>
    BY <1>1 DEF KeyPackage
  <2>5. minted' \in Nat
    BY <1>0, <2>1
  <2> HIDE DEF kp
  <2> QED
    BY <2>1, <2>2, <2>3, <2>4, <2>5, OneReturned
<1>2. ASSUME NEW g \in Groups, CreateGroup(g) PROVE PersistenceInv'
  <2>1. phase = "open" /\ mem.next[g] = NoGroup
        /\ mem' = [mem EXCEPT !.next[g] = 0, !.listed = @ \cup {g}]
    BY <1>2 DEF CreateGroup
  <2>2. mem' \in Snapshot /\ AtLeast(mem', mem)
    <3>1. mem' = [identity |-> mem.identity, next |-> [mem.next EXCEPT ![g] = 0],
                  listed |-> mem.listed \cup {g}, keys |-> mem.keys, joined |-> mem.joined]
      BY <1>0, <2>1 DEF Snapshot
    <3>2. mem' \in Snapshot
      BY <1>0, <3>1 DEF Snapshot
    <3> QED
      BY <1>0, <2>1, <3>1, <3>2, GroupAdded
  <2>3. UNCHANGED <<adapter, phase, disk, saves, durable, crashes, published, resolved, outbox, minted>>
    BY <1>2 DEF CreateGroup
  <2>4. outbox' = outbox \cup {}
    BY <2>3
  <2> QED
    BY <1>0, <2>1, <2>2, <2>3, <2>4, NothingReturned
<1>3. ASSUME NEW g \in Groups, Send(g) PROVE PersistenceInv'
  <2> DEFINE m == Made("message", g, mem.next[g], mem)
  <2>1. phase = "open" /\ mem.next[g] < MaxGenerations
        /\ mem' = [mem EXCEPT !.next[g] = @ + 1] /\ outbox' = outbox \cup {m}
    BY <1>3 DEF Send
  <2>2. mem' \in Snapshot /\ AtLeast(mem', mem)
    BY <1>0, <2>1 DEF Snapshot, AtLeast
  <2>3. m \in Artifact /\ m.group = g /\ m.id = mem.next[g] /\ m.by = mem.identity
    BY <1>0, <2>1 DEF Made, Artifact
  <2>4. Bears(mem', m)
    BY <1>0, <2>1, <2>2 DEF Made, Bears, Covers, Snapshot
  <2>5. UNCHANGED <<adapter, phase, disk, saves, durable, crashes, published, resolved, minted>>
    BY <1>3 DEF Send
  <2>6. \A b \in outbox \cup published : Bears(mem, b)
    <3>1. \A b \in published : Bears(mem, b)
      BY <1>0, <2>1, BearsLater DEF Remembered, ResolvedKept, Labelled, TypeOK
    <3> QED
      BY <3>1 DEF Remembered
  <2>7. \A b \in outbox \cup published : b.kind = "message" => b.group # g \/ b.id # m.id
    <3> SUFFICES ASSUME NEW b \in outbox \cup published, b.kind = "message", b.group = g
                 PROVE  b.id # m.id
      OBVIOUS
    <3>1. b.id \in Nat /\ b.id < mem.next[g]
      BY <1>0, <2>6 DEF Bears, Covers, Artifact
    <3> QED
      BY <1>0, <2>3, <3>1
  <2> HIDE DEF m
  <2>8. minted' \in Nat
    BY <1>0, <2>5
  <2> QED
    BY <1>0, <2>1, <2>2, <2>3, <2>4, <2>5, <2>7, <2>8, OneReturned
<1>4. ASSUME NEW kp \in mem.keys, NEW g \in Groups, NEW withId \in BOOLEAN, JoinGroup(kp, g, withId)
      PROVE  PersistenceInv'
  <2>1. phase = "open" /\ mem.next[g] = NoGroup
        /\ mem' = [mem EXCEPT !.next[g] = 0, !.listed = IF withId THEN @ \cup {g} ELSE @,
                              !.keys = @ \ {kp}, !.joined = @ \cup {kp}]
    BY <1>4 DEF JoinGroup
  <2>2. mem' \in Snapshot /\ AtLeast(mem', mem)
    <3> DEFINE L == IF withId THEN mem.listed \cup {g} ELSE mem.listed
    <3>1. mem' = [identity |-> mem.identity, next |-> [mem.next EXCEPT ![g] = 0], listed |-> L,
                  keys |-> mem.keys \ {kp}, joined |-> mem.joined \cup {kp}]
      BY <1>0, <2>1 DEF Snapshot
    <3>2. L \in SUBSET Groups /\ mem.listed \subseteq L
      BY <1>0
    <3> HIDE DEF L
    <3>3. mem' \in Snapshot
      BY <1>0, <3>1, <3>2 DEF Snapshot
    <3> QED
      BY <1>0, <2>1, <3>1, <3>2, <3>3, GroupAdded
  <2>3. UNCHANGED <<adapter, phase, disk, saves, durable, crashes, published, resolved, outbox, minted>>
    BY <1>4 DEF JoinGroup
  <2>4. outbox' = outbox \cup {}
    BY <2>3
  <2> QED
    BY <1>0, <2>1, <2>2, <2>3, <2>4, NothingReturned
<1> QED
  BY <1>1, <1>2, <1>3, <1>4

(* open() with a fresh identity only happens while no save() has resolved;  *)
(* with an entry, the entry has all that resolved saves were given.         *)
LEMMA OpenSteps ==
    ASSUME PersistenceInv, UNCHANGED adapter, OpenFresh \/ OpenStored \/ OpenFails
    PROVE  PersistenceInv'
<1> USE DEF PersistenceInv
<1>0. saves = <<>> /\ outbox = {} /\ durable = {}
  BY DEF OpenFresh, OpenStored, OpenFails, PhaseInv, TypeOK
<1>1. CASE OpenFresh
  <2> DEFINE first == [snapshot |-> mem', step |-> "called"]
  <2>1. /\ resolved = {} /\ disk = NoSnapshot /\ disk.is = "none" /\ mem' = Fresh(minted + 1)
        /\ minted' = minted + 1 /\ phase' = "creating" /\ saves' = Append(saves, first)
        /\ UNCHANGED <<adapter, disk, outbox, durable, crashes, published, resolved>>
    BY <1>1 DEF OpenFresh, WriteSnapshot, ResolvedKept, NoSnapshot
  <2>2. mem' \in Snapshot
    BY <2>1, FreshSnapshot DEF TypeOK
  <2>3. first \in SaveCall
    BY <2>2 DEF SaveCall
  <2>4. saves' \in Seq(SaveCall) /\ Len(saves') = 1 /\ saves'[1].snapshot = mem'
    BY <1>0, <2>1, <2>3, EmptySeq, AppendProperties
  <2>5. AtLeast(mem', mem')
    BY <2>2, AtLeastRefl
  <2>6. TypeOK'
    BY <2>1, <2>2, <2>4 DEF TypeOK, SaveCall
  <2>7. SavesOrdered'
    <3>1. \A i \in 1..Len(saves') : AtLeast(mem', saves'[i].snapshot)
      BY <2>4, <2>5
    <3>2. \A i, j \in 1..Len(saves') : AtLeast(saves'[j].snapshot, saves'[i].snapshot)
      BY <2>4, <2>5
    <3>3. \A i \in 1..Len(saves') : \A s \in resolved' : AtLeast(saves'[i].snapshot, s)
      BY <2>1
    <3> QED
      BY <3>1, <3>2, <3>3, ZenonT(60) DEF SavesOrdered, AtLeast
  <2>8. PhaseInv' /\ ResolvedKept'
    BY <1>0, <2>1, <2>4 DEF PhaseInv, ResolvedKept
  <2>9. Remembered' /\ GenerationsDiffer' /\ Labelled'
    BY <1>0, <2>1 DEF Remembered, GenerationsDiffer, Labelled
  <2> QED
    BY <2>6, <2>7, <2>8, <2>9
<1>2. CASE OpenStored
  <2>1. /\ disk.is = "snapshot" /\ mem' = disk.holds /\ phase' = "open"
        /\ UNCHANGED <<adapter, disk, saves, outbox, durable, minted, crashes, published, resolved>>
    BY <1>2 DEF OpenStored, Readable
  <2>2. TypeOK'
    BY <2>1 DEF TypeOK
  <2>3. Len(saves) = 0
    BY <1>0, EmptySeq
  <2>4. PhaseInv' /\ SavesOrdered'
    BY <1>0, <2>1, <2>3 DEF PhaseInv, SavesOrdered
  <2>5. ResolvedKept'
    BY <2>1 DEF ResolvedKept, AtLeast
  <2>6. Remembered' /\ GenerationsDiffer' /\ Labelled'
    BY <1>0, <2>1 DEF Remembered, GenerationsDiffer, Labelled, Bears, Covers
  <2> QED
    BY <2>2, <2>4, <2>5, <2>6
<1>3. CASE OpenFails
  <2>1. /\ phase' = "broken"
        /\ UNCHANGED <<adapter, mem, disk, saves, outbox, durable, minted, crashes, published, resolved>>
    BY <1>3 DEF OpenFails
  <2>2. TypeOK' /\ PhaseInv'
    BY <1>0, <2>1 DEF TypeOK, PhaseInv
  <2>3. SavesOrdered' /\ ResolvedKept'
    BY <2>1 DEF SavesOrdered, ResolvedKept, AtLeast
  <2>4. Remembered' /\ GenerationsDiffer' /\ Labelled'
    BY <2>1 DEF Remembered, GenerationsDiffer, Labelled, Bears, Covers
  <2> QED
    BY <2>2, <2>3, <2>4
<1> QED
  BY <1>1, <1>2, <1>3

(* save() queues the newest snapshot behind the ones under way. *)
LEMMA SaveStep ==
    ASSUME PersistenceInv, UNCHANGED adapter, Discipline, Save
    PROVE  PersistenceInv'
<1> USE DEF PersistenceInv
<1> DEFINE last == [snapshot |-> mem, step |-> "called"]
<1>1. /\ phase = "open" /\ saves' = Append(saves, last)
      /\ UNCHANGED <<adapter, phase, mem, disk, outbox, durable, minted, crashes, published, resolved>>
  BY DEF Save, WriteSnapshot
<1>2. adapter = "file" => Len(saves) = 0
  BY EmptySeq DEF Save, Discipline
<1>3. /\ saves \in Seq(SaveCall) /\ Len(saves) \in Nat
      /\ \A i \in 1..Len(saves) : saves[i].snapshot \in Snapshot
  BY SavedSnapshots
<1>4. last \in SaveCall /\ mem \in Snapshot
  BY DEF TypeOK, SaveCall
<1>5. /\ saves' \in Seq(SaveCall) /\ Len(saves') = Len(saves) + 1
      /\ saves'[Len(saves) + 1].snapshot = mem
      /\ \A i \in 1..Len(saves) : saves'[i] = saves[i]
  BY <1>1, <1>3, <1>4, AppendProperties
<1>6. AtLeast(mem, mem)
  BY <1>4, AtLeastRefl
<1>7. TypeOK' /\ PhaseInv'
  BY <1>1, <1>2, <1>3, <1>5 DEF TypeOK, PhaseInv, SaveCall
<1>8. SavesOrdered'
  <2>1. \A i \in 1..Len(saves') : i \in 1..Len(saves) \/ i = Len(saves) + 1
    BY <1>3, <1>5
  <2>2. \A i \in 1..Len(saves') : AtLeast(mem, saves'[i].snapshot)
    BY <1>5, <1>6, <2>1 DEF SavesOrdered
  <2>3. \A i, j \in 1..Len(saves') : i <= j => AtLeast(saves'[j].snapshot, saves'[i].snapshot)
    <3> SUFFICES ASSUME NEW i \in 1..Len(saves'), NEW j \in 1..Len(saves'), i <= j
                 PROVE  AtLeast(saves'[j].snapshot, saves'[i].snapshot)
      OBVIOUS
    <3>1. CASE j = Len(saves) + 1
      BY <1>5, <2>2, <3>1
    <3>2. CASE j \in 1..Len(saves)
      <4>1. i \in 1..Len(saves)
        BY <1>3, <3>2
      <4> QED
        BY <1>5, <3>2, <4>1 DEF SavesOrdered
    <3> QED
      BY <2>1, <3>1, <3>2
  <2>4. \A i \in 1..Len(saves') : \A s \in resolved : AtLeast(saves'[i].snapshot, s)
    BY <1>1, <1>5, <2>1 DEF SavesOrdered, ResolvedKept
  <2> QED
    BY <1>1, <2>2, <2>3, <2>4, ZenonT(60) DEF SavesOrdered, AtLeast
<1>9. ResolvedKept' /\ Remembered' /\ GenerationsDiffer' /\ Labelled'
  BY <1>1 DEF ResolvedKept, Remembered, GenerationsDiffer, Labelled, Bears, Covers, AtLeast
<1> QED
  BY <1>7, <1>8, <1>9

(* The file adapter truncates: the entry is gone until the write, which     *)
(* only the file adapter's entry may be.                                    *)
LEMMA TruncateStep ==
    ASSUME PersistenceInv, UNCHANGED adapter, NEW k \in DOMAIN saves, FileTruncate(k)
    PROVE  PersistenceInv'
<1> USE DEF PersistenceInv
<1>1. /\ adapter = "file" /\ disk' = Torn /\ saves' = [saves EXCEPT ![k].step = "truncated"]
      /\ UNCHANGED <<adapter, phase, mem, outbox, durable, minted, crashes, published, resolved>>
  BY DEF FileTruncate
<1>2. /\ saves \in Seq(SaveCall) /\ Len(saves) \in Nat /\ DOMAIN saves = 1..Len(saves)
      /\ \A i \in 1..Len(saves) : saves[i] \in SaveCall /\ saves[i].snapshot \in Snapshot
  BY SavedSnapshots
<1>3. [saves[k] EXCEPT !.step = "truncated"] \in SaveCall
      /\ [saves[k] EXCEPT !.step = "truncated"].snapshot = saves[k].snapshot
  BY <1>2 DEF SaveCall
<1>4. saves' \in Seq(SaveCall) /\ Len(saves') = Len(saves)
      /\ \A i \in 1..Len(saves) : saves'[i].snapshot = saves[i].snapshot
  <2>1. saves' = [saves EXCEPT ![k] = [saves[k] EXCEPT !.step = "truncated"]]
    BY <1>1, <1>2
  <2> QED
    BY <1>2, <1>3, <2>1, ExceptSeq
<1>5. Torn \in [is : {"none", "torn", "snapshot"}, holds : Snapshot] /\ Torn.is = "torn"
  BY FreshSnapshot DEF Torn
<1>6. TypeOK'
  BY <1>1, <1>4, <1>5 DEF TypeOK, SaveCall
<1>7. saves # <<>>
  BY <1>2, EmptySeq
<1>8. PhaseInv'
  BY <1>1, <1>4, <1>7 DEF PhaseInv
<1>9. SavesOrdered'
  BY <1>1, <1>4 DEF SavesOrdered, AtLeast
<1>10. ResolvedKept'
  BY <1>1, <1>5 DEF ResolvedKept, AtLeast
<1>11. Remembered' /\ GenerationsDiffer' /\ Labelled'
  BY <1>1 DEF Remembered, GenerationsDiffer, Labelled, Bears, Covers
<1> QED
  BY <1>6, <1>8, <1>9, <1>10, <1>11

(* What remains of the calls when the first one has ended. *)
LEMMA DropFirst ==
    ASSUME TypeOK, saves # <<>>
    PROVE  /\ Drop(1) \in Seq(SaveCall)
           /\ Len(Drop(1)) = Len(saves) - 1
           /\ \A i \in 1..Len(Drop(1)) : Drop(1)[i] = saves[i + 1]
<1>1. saves \in Seq(SaveCall) /\ Len(saves) \in Nat
  BY SavedSnapshots
<1>2. SubSeq(saves, 1, 0) = <<>>
  BY SubSeqEmpty
<1>3. SubSeq(saves, 2, Len(saves)) = Tail(saves)
  BY <1>1, TailIsSubSeq
<1>4. Tail(saves) \in Seq(SaveCall) /\ Len(Tail(saves)) = Len(saves) - 1
      /\ \A i \in 1..Len(Tail(saves)) : Tail(saves)[i] = saves[i + 1]
  BY <1>1, HeadTailProperties
<1>5. Drop(1) = Tail(saves)
  <2>1. Drop(1) = SubSeq(saves, 1, 0) \o SubSeq(saves, 2, Len(saves))
    BY DEF Drop
  <2> QED
    BY <1>2, <1>3, <1>4, <2>1, ConcatEmptySeq
<1> QED
  BY <1>4, <1>5

(* A save resolves in the order of the calls: only then does the entry have *)
(* what every save that resolved before was given.                          *)
LEMMA WriteSteps ==
    ASSUME PersistenceInv, UNCHANGED adapter, NEW k \in DOMAIN saves, FileWrite(k) \/ IndexedDBPut(k)
    PROVE  PersistenceInv'
<1> USE DEF PersistenceInv
<1> DEFINE w == saves[k].snapshot
<1>1. /\ saves \in Seq(SaveCall) /\ Len(saves) \in Nat /\ DOMAIN saves = 1..Len(saves)
      /\ \A i \in 1..Len(saves) : saves[i] \in SaveCall /\ saves[i].snapshot \in Snapshot
  BY SavedSnapshots
<1>2. k = 1
  BY <1>1 DEF FileWrite, IndexedDBPut, PhaseInv
<1>3. /\ disk' = Stored(w) /\ saves' = Drop(1)
      /\ durable' = durable \cup {a \in outbox : Covers(w, a)}
      /\ resolved' = resolved \cup {w}
      /\ phase' = IF phase = "creating" THEN "open" ELSE phase
      /\ UNCHANGED <<adapter, mem, outbox, minted, crashes, published>>
  BY <1>2 DEF FileWrite, IndexedDBPut, Resolve
<1>4. /\ Drop(1) \in Seq(SaveCall) /\ Len(Drop(1)) = Len(saves) - 1
      /\ \A i \in 1..Len(Drop(1)) : i + 1 \in 1..Len(saves) /\ Drop(1)[i] = saves[i + 1]
  <2>1. saves # <<>>
    BY <1>1, EmptySeq
  <2>2. /\ Drop(1) \in Seq(SaveCall) /\ Len(Drop(1)) = Len(saves) - 1
        /\ \A i \in 1..Len(Drop(1)) : Drop(1)[i] = saves[i + 1]
    BY <2>1, DropFirst
  <2>3. \A i \in 1..(Len(saves) - 1) : i + 1 \in 1..Len(saves)
    BY <1>1
  <2> QED
    BY <2>2, <2>3
<1>5. w \in Snapshot /\ AtLeast(w, w) /\ AtLeast(mem, w) /\ \A s \in resolved : AtLeast(w, s)
  BY <1>1, <1>2, AtLeastRefl DEF SavesOrdered
<1>6. phase \in {"open", "creating"} /\ (phase = "creating" => resolved = {})
  <2>1. saves # <<>>
    BY <1>1, EmptySeq
  <2> QED
    BY <2>1 DEF PhaseInv, TypeOK
<1>7. phase' = "open"
  BY <1>3, <1>6
<1>8. disk'.is = "snapshot" /\ disk'.holds = w
  BY <1>3 DEF Stored
<1>9. TypeOK'
  BY <1>3, <1>4, <1>5, <1>7 DEF TypeOK, Stored, SaveCall
<1>10. PhaseInv'
  BY <1>1, <1>3, <1>4, <1>7 DEF PhaseInv
<1>11. SavesOrdered'
  <2>1. \A i \in 1..Len(saves') : i + 1 \in 1..Len(saves) /\ saves'[i] = saves[i + 1]
    BY <1>3, <1>4
  <2>2. Len(saves') \in Nat
    BY <1>1, <1>2, <1>3, <1>4
  <2>3. \A i \in 1..Len(saves') : AtLeast(mem, saves'[i].snapshot)
    BY <2>1 DEF SavesOrdered
  <2>4. \A i, j \in 1..Len(saves') : i <= j => AtLeast(saves'[j].snapshot, saves'[i].snapshot)
    BY <2>1, <2>2 DEF SavesOrdered
  <2>5. \A i \in 1..Len(saves') : AtLeast(saves'[i].snapshot, w)
    BY <1>2, <1>1, <2>1, <2>2 DEF SavesOrdered
  <2>6. \A i \in 1..Len(saves') : \A s \in resolved' : AtLeast(saves'[i].snapshot, s)
    BY <1>3, <2>1, <2>5 DEF SavesOrdered
  <2> QED
    BY <1>3, <2>3, <2>4, <2>6 DEF SavesOrdered, AtLeast
<1>12. ResolvedKept'
  <2>1. \A s \in resolved' : AtLeast(w, s)
    BY <1>3, <1>5
  <2>2. \A s \in resolved : AtLeast(mem, s)
    BY <1>6 DEF ResolvedKept
  <2>3. \A s \in resolved' : AtLeast(mem, s)
    BY <1>3, <1>5, <2>2
  <2>4. \A s, t \in resolved' : s.identity = t.identity
    BY <2>1 DEF AtLeast
  <2> HIDE DEF w
  <2> QED
    BY <1>3, <1>8, <2>1, <2>3, <2>4 DEF ResolvedKept, AtLeast
<1>13. Remembered'
  <2>1. \A a \in outbox : a.by = w.identity
    BY <1>5 DEF Remembered, Bears, AtLeast
  <2>2. \A a \in durable' : \E s \in resolved' : Bears(s, a)
    BY <1>3, <2>1 DEF Remembered, Bears
  <2>3. \A a \in published' : \E s \in resolved' : Bears(s, a)
    BY <1>3 DEF Remembered
  <2> QED
    BY <1>3, <2>2, <2>3 DEF Remembered, Bears, Covers
<1>14. GenerationsDiffer' /\ Labelled'
  BY <1>3 DEF GenerationsDiffer, Labelled
<1> QED
  BY <1>9, <1>10, <1>11, <1>12, <1>13, <1>14

(* A save that fails is gone from the calls under way, and nothing else; a  *)
(* client whose first save fails is not opened.                             *)
LEMMA FailStep ==
    ASSUME PersistenceInv, UNCHANGED adapter, NEW k \in DOMAIN saves, SaveFails(k)
    PROVE  PersistenceInv'
<1> USE DEF PersistenceInv
<1>1. /\ saves \in Seq(SaveCall) /\ Len(saves) \in Nat /\ DOMAIN saves = 1..Len(saves)
      /\ \A i \in 1..Len(saves) : saves[i] \in SaveCall /\ saves[i].snapshot \in Snapshot
  BY SavedSnapshots
<1>2. k = 1
  BY <1>1, PersistenceConstants DEF SaveFails, PhaseInv, TypeOK
<1>3. /\ saves' = Drop(1)
      /\ phase' = IF phase = "creating" THEN "closed" ELSE phase
      /\ mem' = IF phase = "creating" THEN Fresh(0) ELSE mem
      /\ UNCHANGED <<adapter, disk, outbox, durable, minted, crashes, published, resolved>>
  BY <1>2 DEF SaveFails
<1>4. saves # <<>>
  BY <1>1, EmptySeq
<1>5. /\ Drop(1) \in Seq(SaveCall) /\ Len(Drop(1)) = Len(saves) - 1
      /\ \A i \in 1..Len(Drop(1)) : i + 1 \in 1..Len(saves) /\ Drop(1)[i] = saves[i + 1]
  <2>1. /\ Drop(1) \in Seq(SaveCall) /\ Len(Drop(1)) = Len(saves) - 1
        /\ \A i \in 1..Len(Drop(1)) : Drop(1)[i] = saves[i + 1]
    BY <1>4, DropFirst
  <2>2. \A i \in 1..(Len(saves) - 1) : i + 1 \in 1..Len(saves)
    BY <1>1
  <2> QED
    BY <2>1, <2>2
<1>6. /\ phase = "creating" => resolved = {} /\ outbox = {} /\ Len(saves) = 1
      /\ phase \in {"open", "creating"}
  BY <1>1, <1>4 DEF PhaseInv, TypeOK
<1>7. mem' \in Snapshot
  BY <1>3, FreshSnapshot DEF TypeOK
<1>8. TypeOK'
  <2>1. phase' \in {"closed", "creating", "open", "broken"}
    BY <1>3 DEF TypeOK
  <2>2. saves' \in Seq([snapshot : Snapshot, step : {"called", "truncated"}])
    BY <1>3, <1>5 DEF SaveCall
  <2> QED
    BY <1>3, <1>7, <2>1, <2>2 DEF TypeOK
<1>9. Len(saves') \in Nat /\ Len(saves') = Len(saves) - 1 /\ saves' \in Seq(SaveCall)
  <2>1. Len(saves) - 1 \in Nat
    <3>1. 1 \in 1..Len(saves) /\ Len(saves) \in Nat
      BY <1>1, <1>2
    <3> QED
      BY <3>1
  <2> QED
    BY <1>3, <1>5, <2>1
<1>10. CASE phase = "creating"
  <2>2. Len(saves') = 0
    BY <1>6, <1>9, <1>10
  <2>3. saves' = <<>>
    BY <1>9, <2>2, EmptySeq
  <2>1. saves' = <<>> /\ phase' = "closed" /\ outbox' = {} /\ durable' = {} /\ resolved' = {}
    BY <1>3, <1>6, <1>10, <2>3 DEF TypeOK
  <2>4. PhaseInv' /\ SavesOrdered'
    BY <2>1, <2>2 DEF PhaseInv, SavesOrdered
  <2>5. ResolvedKept'
    BY <1>3, <2>1 DEF ResolvedKept
  <2>6. Remembered' /\ GenerationsDiffer' /\ Labelled'
    BY <1>3, <1>6, <1>10, <2>1 DEF Remembered, GenerationsDiffer, Labelled
  <2> QED
    BY <1>8, <2>4, <2>5, <2>6
<1>11. CASE phase = "open"
  <2>1. UNCHANGED <<phase, mem>>
    BY <1>3, <1>11
  <2>2. \A i \in 1..Len(saves') : i + 1 \in 1..Len(saves) /\ saves'[i] = saves[i + 1]
    BY <1>3, <1>5
  <2>3. PhaseInv'
    BY <1>1, <1>3, <1>9, <1>11, <2>1 DEF PhaseInv
  <2>4. SavesOrdered'
    <3>1. \A i \in 1..Len(saves') : AtLeast(mem, saves'[i].snapshot)
      BY <2>2 DEF SavesOrdered
    <3>2. \A i, j \in 1..Len(saves') : i <= j => AtLeast(saves'[j].snapshot, saves'[i].snapshot)
      BY <1>9, <2>2 DEF SavesOrdered
    <3>3. \A i \in 1..Len(saves') : \A s \in resolved : AtLeast(saves'[i].snapshot, s)
      BY <2>2 DEF SavesOrdered
    <3> QED
      BY <1>3, <2>1, <3>1, <3>2, <3>3 DEF SavesOrdered, AtLeast
  <2>5. ResolvedKept' /\ Remembered' /\ GenerationsDiffer' /\ Labelled'
    BY <1>3, <2>1 DEF ResolvedKept, Remembered, GenerationsDiffer, Labelled, Bears, Covers, AtLeast
  <2> QED
    BY <1>8, <2>3, <2>4, <2>5
<1> QED
  BY <1>6, <1>10, <1>11

(* The application publishes what a resolved snapshot remembers. *)
LEMMA PublishStep ==
    ASSUME PersistenceInv, UNCHANGED adapter, Discipline, NEW a \in outbox, Publish(a)
    PROVE  PersistenceInv'
<1> USE DEF PersistenceInv
<1>1. /\ a \in durable /\ published' = published \cup {a}
      /\ outbox' = outbox \ {a} /\ durable' = durable \ {a}
      /\ UNCHANGED <<adapter, phase, mem, disk, saves, minted, crashes, resolved>>
  BY DEF Publish, Discipline
<1>2. TypeOK'
  BY <1>1 DEF TypeOK
<1>3. PhaseInv' /\ SavesOrdered' /\ ResolvedKept'
  BY <1>1 DEF PhaseInv, SavesOrdered, ResolvedKept, AtLeast
<1>4. Remembered'
  BY <1>1 DEF Remembered, Bears, Covers
<1>5. GenerationsDiffer' /\ Labelled'
  BY <1>1 DEF GenerationsDiffer, Labelled
<1> QED
  BY <1>2, <1>3, <1>4, <1>5

(* A crash loses the client, the calls under way and what was not published. *)
LEMMA CrashStep ==
    ASSUME PersistenceInv, UNCHANGED adapter, Crash
    PROVE  PersistenceInv'
<1> USE DEF PersistenceInv
<1>1. /\ phase' = "closed" /\ mem' = Fresh(0) /\ crashes' = crashes + 1
      /\ saves' = <<>> /\ outbox' = {} /\ durable' = {}
      /\ UNCHANGED <<adapter, disk, minted, published, resolved>>
  BY DEF Crash
<1>2. mem' \in Snapshot
  BY <1>1, FreshSnapshot
<1>3. Len(saves') = 0 /\ saves' \in Seq(SaveCall)
  BY <1>1, EmptySeq
<1>4. TypeOK'
  BY <1>1, <1>2, <1>3 DEF TypeOK, SaveCall
<1>5. PhaseInv' /\ SavesOrdered' /\ ResolvedKept'
  BY <1>1, <1>3 DEF PhaseInv, SavesOrdered, ResolvedKept, AtLeast
<1>6. Remembered' /\ GenerationsDiffer' /\ Labelled'
  BY <1>1 DEF Remembered, GenerationsDiffer, Labelled, Bears, Covers
<1> QED
  BY <1>4, <1>5, <1>6

(* Under the discipline no step breaks the invariant. *)
LEMMA PersistenceNext ==
    ASSUME PersistenceInv, Discipline, [Next /\ UNCHANGED adapter]_vars
    PROVE  PersistenceInv'
<1>1. CASE Next /\ UNCHANGED adapter
  BY <1>1, OpenSteps, FacadeSteps, SaveStep, TruncateStep, WriteSteps, FailStep, PublishStep, CrashStep DEF Next
<1>2. CASE UNCHANGED vars
  BY <1>2 DEF vars, PersistenceInv, TypeOK, PhaseInv, SavesOrdered, ResolvedKept, Remembered,
     GenerationsDiffer, Labelled, Bears, Covers, AtLeast
<1> QED
  BY <1>1, <1>2

(* The invariant holds throughout. *)
THEOREM PersistenceInvAlways ==
    ASSUME Discipline
    PROVE  Spec => []PersistenceInv
<1>1. Discipline
  OBVIOUS
<1>2. PersistenceInv /\ [Next /\ UNCHANGED adapter]_vars => PersistenceInv'
  BY <1>1, PersistenceNext
<1> QED
  BY <1>2, PersistenceInit, PTL DEF Spec
-----------------------------------------------------------------------------
(* The properties.                                                          *)

(* Over any number of crashes no generation of a sender ratchet is used for *)
(* two published messages: a client opened from the entry of the adapter    *)
(* continues behind all that was published (src/client.ts open, save).      *)
THEOREM GenerationsNeverReused ==
    ASSUME Discipline
    PROVE  Spec => []NoGenerationReused
<1>1. PersistenceInv => NoGenerationReused
  BY DEF PersistenceInv, GenerationsDiffer, NoGenerationReused
<1> QED
  BY <1>1, PersistenceInvAlways, PTL

(* The private keys of every published key package are in the client that   *)
(* is opened later, or its join is, and all is signed with one key.         *)
THEOREM PublishedRemainsValid ==
    ASSUME Discipline
    PROVE  Spec => []PublishedStaysValid
<1>1. PersistenceInv => PublishedStaysValid
  <2> SUFFICES ASSUME PersistenceInv PROVE PublishedStaysValid
    OBVIOUS
  <2>1. \A a \in published : \E s \in resolved : Bears(s, a)
    BY DEF PersistenceInv, Remembered
  <2>2. ASSUME phase = "open", NEW a \in published, a.kind = "keyPackage"
        PROVE  a.id \in mem.keys \cup mem.joined
    <3>1. PICK s \in resolved : Bears(s, a)
      BY <2>1
    <3>2. AtLeast(mem, s)
      BY <2>2 DEF PersistenceInv, ResolvedKept
    <3> QED
      BY <2>2, <3>1, <3>2 DEF Bears, Covers, AtLeast
  <2>3. \A a, b \in published : a.by = b.by
    BY <2>1 DEF PersistenceInv, ResolvedKept, Bears
  <2> QED
    BY <2>2, <2>3 DEF PublishedStaysValid
<1> QED
  BY <1>1, PersistenceInvAlways, PTL

(* What a resolved save() was given is in the client and in every entry     *)
(* that opens, over saves that overlap or fail, and a crash at any moment   *)
(* leaves an entry that opens with the IndexedDB adapter (storage.ts save). *)
THEOREM ReopenedHasResolved ==
    ASSUME Discipline
    PROVE  Spec => []ReopenedIsCurrent
<1>1. PersistenceInv => ReopenedIsCurrent
  BY DEF PersistenceInv, TypeOK, ResolvedKept, ReopenedIsCurrent, SnapshotIsCurrent
<1> QED
  BY <1>1, PersistenceInvAlways, PTL
=============================================================================
