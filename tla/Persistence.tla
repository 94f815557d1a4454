---------------------------- MODULE Persistence ----------------------------
(***************************************************************************)
(* A persistent MlsClient (src/client.ts) and its StorageAdapter           *)
(* (src/storage.ts) over crashes.                                          *)
(*                                                                         *)
(* A facade call changes the provider in memory and returns bytes that the *)
(* application publishes.  save() takes the snapshot synchronously, when   *)
(* it is called; the write of the adapter goes on in the background.  The  *)
(* file adapter's write truncates the file before it writes, and writes    *)
(* that overlap end in any order.  An IndexedDB transaction is atomic, and *)
(* read-write transactions on one store run in the order of their creation.*)
(* A write may fail, and save() rejects.                                   *)
(*                                                                         *)
(* The state of the ratchet of a group is the generation of its next       *)
(* message.  A message is published once; its encryption key is determined *)
(* by group and generation.                                                *)
(***************************************************************************)
EXTENDS Naturals, Sequences, FiniteSets

CONSTANTS
    Groups,         \* group ids
    Adapters,       \* the storage adapters in question
    SaveFirst,      \* the application publishes what a resolved save() covers
    Overlapping,    \* the adapters on which save() is called while another one runs
    MaxGenerations, \* bound: messages per group
    MaxKeyPackages, \* bound: key packages and identities made
    MaxCrashes      \* bound: crashes

ASSUME PersistenceConstants ==
    /\ Adapters \subseteq {"file", "indexeddb"} /\ Overlapping \subseteq Adapters
    /\ SaveFirst \in BOOLEAN
    /\ MaxGenerations \in Nat /\ MaxKeyPackages \in Nat /\ MaxCrashes \in Nat

VARIABLES
    adapter,    \* the adapter of the client
    phase,      \* "closed", "creating" (open() awaits the first save), "open", "broken"
    mem,        \* the client in memory, see Snapshot
    disk,       \* the entry the adapter holds
    saves,      \* calls of save() under way, in the order they were made
    outbox,     \* what calls returned and the application has not published
    durable,    \* part of the outbox that a resolved save() covers
    minted,     \* number of key packages and identities made so far
    crashes,    \* number of crashes so far
    published,  \* history: what the application has published
    resolved    \* history: snapshots whose save() has resolved

vars == <<adapter, phase, mem, disk, saves, outbox, durable, minted, crashes, published, resolved>>

NoGroup == MaxGenerations + 1   \* the provider has no such group

(* identity: the signature key pair.  next: the groups in the provider's   *)
(* storage, with the generation of the next message.  listed: the keys of  *)
(* #groups.  keys: key packages whose private keys are in the provider.    *)
(* joined: key packages consumed by a join.                                *)
Snapshot == [identity : Nat, next : [Groups -> 0..NoGroup], listed : SUBSET Groups,
             keys : SUBSET Nat, joined : SUBSET Nat]

Fresh(id) == [identity |-> id, next |-> [g \in Groups |-> NoGroup], listed |-> {},
              keys |-> {}, joined |-> {}]

(* The adapter's entry for the client. *)
Stored(snapshot) == [is |-> "snapshot", holds |-> snapshot]
NoSnapshot == [is |-> "none", holds |-> Fresh(0)]
Torn == [is |-> "torn", holds |-> Fresh(0)]

(* What a call returns for others: a message (id: its generation) or a key *)
(* package.  `run` is the process that made it, `by` the identity.         *)
Artifact == [kind : {"message", "keyPackage"}, group : Groups \cup {NoGroup},
             id : Nat, run : Nat, by : Nat]

Made(kind, group, id, client) ==
    [kind |-> kind, group |-> group, id |-> id, run |-> crashes, by |-> client.identity]

TypeOK ==
    /\ adapter \in Adapters
    /\ phase \in {"closed", "creating", "open", "broken"}
    /\ mem \in Snapshot
    /\ disk \in [is : {"none", "torn", "snapshot"}, holds : Snapshot]
    /\ saves \in Seq([snapshot : Snapshot, step : {"called", "truncated"}])
    /\ outbox \subseteq Artifact /\ durable \subseteq outbox
    /\ minted \in Nat /\ crashes \in Nat
    /\ published \subseteq Artifact
    /\ resolved \subseteq Snapshot

Init ==
    /\ adapter \in Adapters
    /\ phase = "closed" /\ mem = Fresh(0) /\ disk = NoSnapshot
    /\ saves = <<>> /\ outbox = {} /\ durable = {} /\ minted = 0 /\ crashes = 0
    /\ published = {} /\ resolved = {}

(***************************************************************************)
(* MlsClient.open and MlsClient.#writeSnapshot                             *)
(***************************************************************************)
WriteSnapshot(client) == saves' = Append(saves, [snapshot |-> client, step |-> "called"])

(* Nothing is stored: a fresh identity, and open() awaits its first save. *)
OpenFresh ==
    /\ phase = "closed" /\ disk = NoSnapshot /\ minted < MaxKeyPackages
    /\ minted' = minted + 1
    /\ mem' = Fresh(minted + 1)
    /\ WriteSnapshot(mem')
    /\ phase' = "creating"
    /\ UNCHANGED <<disk, outbox, durable, crashes, published, resolved>>

(* decodeEnvelope succeeds, and so does Group.load for every listed group. *)
Readable(entry) ==
    /\ entry.is = "snapshot"
    /\ \A g \in entry.holds.listed : entry.holds.next[g] # NoGroup

(* Mutant: only the groups are restored, not the rest of the provider. *)
OpenForgetsKeys ==
    /\ phase = "closed" /\ Readable(disk)
    /\ mem' = [disk.holds EXCEPT !.keys = {}]
    /\ phase' = "open"
    /\ UNCHANGED <<disk, saves, outbox, durable, minted, crashes, published, resolved>>

(* Provider.from_bytes and Identity.from_bytes replace the fresh ones. *)
OpenStored ==
    /\ phase = "closed" /\ Readable(disk)
    /\ mem' = disk.holds
    /\ phase' = "open"
    /\ UNCHANGED <<disk, saves, outbox, durable, minted, crashes, published, resolved>>

(* The entry does not decode or a group does not load: open() throws, now  *)
(* and in every later session.                                             *)
OpenFails ==
    /\ phase = "closed" /\ disk.is # "none" /\ ~Readable(disk)
    /\ phase' = "broken"
    /\ UNCHANGED <<mem, disk, saves, outbox, durable, minted, crashes, published, resolved>>

(***************************************************************************)
(* Facade calls                                                            *)
(***************************************************************************)
CreateGroup(g) ==
    /\ phase = "open" /\ mem.next[g] = NoGroup
    /\ mem' = [mem EXCEPT !.next[g] = 0, !.listed = @ \cup {g}]
    /\ UNCHANGED <<phase, disk, saves, outbox, durable, minted, crashes, published, resolved>>

(* keyPackage() stores the private keys in the provider. *)
KeyPackage ==
    /\ phase = "open" /\ minted < MaxKeyPackages
    /\ minted' = minted + 1
    /\ mem' = [mem EXCEPT !.keys = @ \cup {minted + 1}]
    /\ outbox' = outbox \cup {Made("keyPackage", NoGroup, minted + 1, mem)}
    /\ UNCHANGED <<phase, disk, saves, durable, crashes, published, resolved>>

(* joinGroup with a welcome for a published key package: the join consumes *)
(* the private keys.  Without a group id the group is not listed.          *)
JoinGroup(kp, g, withId) ==
    /\ phase = "open" /\ kp \in mem.keys /\ mem.next[g] = NoGroup
    /\ \E a \in published : a.kind = "keyPackage" /\ a.id = kp
    /\ mem' = [mem EXCEPT !.next[g] = 0,
                          !.listed = IF withId THEN @ \cup {g} ELSE @,
                          !.keys = @ \ {kp}, !.joined = @ \cup {kp}]
    /\ UNCHANGED <<phase, disk, saves, outbox, durable, minted, crashes, published, resolved>>

(* send() encrypts with the next generation of the sender ratchet. *)
Send(g) ==
    /\ phase = "open" /\ mem.next[g] < MaxGenerations
    /\ mem' = [mem EXCEPT !.next[g] = @ + 1]
    /\ outbox' = outbox \cup {Made("message", g, mem.next[g], mem)}
    /\ UNCHANGED <<phase, disk, saves, durable, minted, crashes, published, resolved>>

(* Mutant: save() does not await the adapter. *)
SaveUnawaited ==
    /\ phase = "open" /\ (adapter \in Overlapping \/ saves = <<>>)
    /\ Len(saves) < 2
    /\ WriteSnapshot(mem)
    /\ durable' = outbox
    /\ resolved' = resolved \cup {mem}
    /\ UNCHANGED <<phase, mem, disk, outbox, minted, crashes, published>>

Save ==
    /\ phase = "open" /\ (adapter \in Overlapping \/ saves = <<>>)
    /\ Len(saves) < 2
    /\ WriteSnapshot(mem)
    /\ UNCHANGED <<phase, mem, disk, outbox, durable, minted, crashes, published, resolved>>

(***************************************************************************)
(* The adapter's write                                                     *)
(***************************************************************************)
Drop(i) == SubSeq(saves, 1, i - 1) \o SubSeq(saves, i + 1, Len(saves))

(* writeFile opens the file with flag "w" ... *)
FileTruncate(i) ==
    /\ adapter = "file" /\ saves[i].step = "called"
    /\ disk' = Torn
    /\ saves' = [saves EXCEPT ![i].step = "truncated"]
    /\ UNCHANGED <<phase, mem, outbox, durable, minted, crashes, published, resolved>>

Covers(snapshot, a) ==
    IF a.kind = "message"
    THEN snapshot.next[a.group] # NoGroup /\ a.id < snapshot.next[a.group]
    ELSE a.id \in snapshot.keys \cup snapshot.joined

(* The promise of save() resolves; open() returns when it awaited it. *)
Resolve(i) ==
    /\ saves' = Drop(i)
    /\ durable' = durable \cup {a \in outbox : Covers(saves[i].snapshot, a)}
    /\ resolved' = resolved \cup {saves[i].snapshot}
    /\ phase' = IF phase = "creating" THEN "open" ELSE phase

(* ... and writes from its start.  What a longer snapshot left behind the  *)
(* end is ignored by decodeEnvelope, which reads by length.                *)
FileWrite(i) ==
    /\ adapter = "file" /\ saves[i].step = "truncated"
    /\ disk' = Stored(saves[i].snapshot)
    /\ Resolve(i)
    /\ UNCHANGED <<mem, outbox, minted, crashes, published>>

(* Mutant: transactions complete in any order. *)
IndexedDBPutUnordered(i) ==
    /\ adapter = "indexeddb"
    /\ disk' = Stored(saves[i].snapshot)
    /\ Resolve(i)
    /\ UNCHANGED <<mem, outbox, minted, crashes, published>>

IndexedDBPut(i) ==
    /\ adapter = "indexeddb" /\ i = 1
    /\ disk' = Stored(saves[i].snapshot)
    /\ Resolve(i)
    /\ UNCHANGED <<mem, outbox, minted, crashes, published>>

(* Mutant: a write that fails is taken for one that ended. *)
SaveFailsSilently(i) ==
    /\ adapter = "indexeddb" => i = 1
    /\ Resolve(i)
    /\ UNCHANGED <<mem, disk, outbox, minted, crashes, published>>

(* writeFile throws, before or after it has truncated the file, or the     *)
(* transaction is aborted (tx.onerror): save() rejects, and so does open() *)
(* when it awaited its first save.                                         *)
SaveFails(i) ==
    /\ adapter = "indexeddb" => i = 1
    /\ saves' = Drop(i)
    /\ phase' = IF phase = "creating" THEN "closed" ELSE phase
    /\ mem' = IF phase = "creating" THEN Fresh(0) ELSE mem
    /\ UNCHANGED <<disk, outbox, durable, minted, crashes, published, resolved>>

(***************************************************************************)
(* The application and its crashes                                         *)
(***************************************************************************)
(* The application hands over what a call returned; with SaveFirst only    *)
(* after a save() that covers it has resolved.                             *)
Publish(a) ==
    /\ phase = "open" /\ a \in IF SaveFirst THEN durable ELSE outbox
    /\ published' = published \cup {a}
    /\ outbox' = outbox \ {a} /\ durable' = durable \ {a}
    /\ UNCHANGED <<phase, mem, disk, saves, minted, crashes, resolved>>

(* The process dies; what the adapter has written stays. *)
Crash ==
    /\ phase \in {"creating", "open"} /\ crashes < MaxCrashes
    /\ crashes' = crashes + 1
    /\ phase' = "closed" /\ mem' = Fresh(0)
    /\ saves' = <<>> /\ outbox' = {} /\ durable' = {}
    /\ UNCHANGED <<disk, minted, published, resolved>>

Next ==
    \/ OpenFresh \/ OpenStored \/ OpenFails
    \/ KeyPackage \/ Save \/ Crash
    \/ \E g \in Groups : CreateGroup(g) \/ Send(g)
    \/ \E kp \in mem.keys, g \in Groups, withId \in BOOLEAN : JoinGroup(kp, g, withId)
    \/ \E i \in DOMAIN saves :
         FileTruncate(i) \/ FileWrite(i) \/ IndexedDBPut(i) \/ SaveFails(i)
    \/ \E a \in outbox : Publish(a)

Spec == Init /\ [][Next /\ UNCHANGED adapter]_vars

(***************************************************************************)
(* Properties                                                              *)
(***************************************************************************)
(* No two messages of one group are encrypted with the same generation of  *)
(* the sender ratchet and both published: a restored client never goes     *)
(* back behind what others may have received (src/client.ts open, save).   *)
NoGenerationReused ==
    \A a, b \in published :
        (a.kind = "message" /\ b.kind = "message" /\ a.group = b.group /\ a.id = b.id) => a = b

(* What was published stays valid: after any number of restarts the        *)
(* private keys of a published key package are in the provider, or its     *)
(* join is (tests/persistence.test.ts, "a published key package still      *)
(* works after restart"), and everything published under an id is signed   *)
(* with one key, because open() stores a fresh identity before it returns. *)
PublishedStaysValid ==
    /\ phase = "open" =>
         \A a \in published : a.kind = "keyPackage" => a.id \in mem.keys \cup mem.joined
    /\ \A a, b \in published : a.by = b.by

(* s has every group, message, key package and listed id of t. *)
AtLeast(s, t) ==
    /\ s.identity = t.identity
    /\ t.listed \subseteq s.listed
    /\ \A g \in Groups : t.next[g] # NoGroup => s.next[g] # NoGroup /\ s.next[g] >= t.next[g]
    /\ t.keys \subseteq s.keys \cup s.joined
    /\ t.joined \subseteq s.joined

(* An entry that opens has everything that a save() that resolved was      *)
(* given (storage.ts: save persists, "overwriting any previous value").    *)
SnapshotIsCurrent ==
    disk.is = "snapshot" => \A s \in resolved : AtLeast(disk.holds, s)

(* What a save() that resolved was given is not lost, whatever saves fail  *)
(* before or after it: the state a session works with contains it, an      *)
(* entry that opens is never an older one, and a crash at any moment       *)
(* leaves the IndexedDB adapter with an entry that opens.  The saves may   *)
(* overlap where Overlapping says so.  Of the file adapter this holds only *)
(* if its saves do not overlap, and without the last conjunct: a crash or  *)
(* a failure during its write leaves an entry that does not open.          *)
ReopenedIsCurrent ==
    /\ phase = "open" => \A s \in resolved : AtLeast(mem, s)
    /\ SnapshotIsCurrent
    /\ adapter = "indexeddb" /\ resolved # {} => disk.is = "snapshot"
=============================================================================
