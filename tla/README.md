# Formal verification of mls-ts, its delivery service and its OpenMLS

TLA+ models of MLS4RN, with TLC configurations that check them on small
instances and TLAPS proofs of the results that matter most.  Paths are relative
to the repository root (`src/` is the TypeScript facade, `packages/server` the
delivery service, `packages/react-native` the React Native package, `openmls/` the
OpenMLS fork with its WebAssembly bindings and storage providers); `mls_group/`,
`public_group/`, `treesync/` and so on are under `openmls/openmls/src`.

## 1. Inventory of the system

An application holds an `MlsClient` and its `Group`s.  A group call is synchronous:
TypeScript calls the bindings, the bindings call OpenMLS, which changes the group
state and writes it to an in-memory storage provider.  The call returns bytes,
and the application carries them: proposals and commits through the group log of
the delivery service, welcomes through its inbox, key packages through its
directory.  On React Native the same facade runs in a hidden WebView, behind a bridge
of string messages.

| Component | State | Operations | Correct when |
| --- | --- | --- | --- |
| Key package directory, `packages/server/src/key-packages` | queue and last resort per user, in memory | publish, claim | a single-use package is handed out once, in order |
| Group log, `packages/server/src/groups` | append-only log per group, Socket.IO room | publish (and emit), since(cursor), subscribe | the order is never revised; polling and pushing together lose nothing |
| Welcome inbox, `packages/server/src/welcomes` | inbox per user, one counter | deposit, take (return and clear) | a welcome is handed out once, to its user |
| Facade `Group`, `src/client.ts` | a handle on the OpenMLS group | add, remove, update, leave, commit, propose*, send, receive | members in one epoch agree; only members read; no rollback |
| Facade `MlsClient`, `src/client.ts`, `src/storage.ts` | provider, identity, group map, snapshot | keyPackage, createGroup, joinGroup, open, save | what was published survives a restart |
| React Native bridge and host, `packages/react-native` | pending requests, handles, snapshot map | request, handleMessage, dispatch, snapshot, restore | each request is answered once, by its own result; a save keeps what it was given |
| Bindings, `openmls/openmls-wasm/src/lib.rs` | MlsGroup | one function per facade call | a failed call leaves a usable group |
| Group API and state machine, `mls_group/` | state, epoch, tree, secrets, proposal store, pending commit; the same in storage | propose, commit, process, stage, merge, join, external commit, load, delete | storage and memory agree; every member gets to the last epoch |
| Proposal validation, `public_group/validation.rs`, `treesync/node/leaf_node.rs`, `key_packages/` | leaf nodes, capabilities, context extensions, lifetimes | the checks of proposers, committers, receivers, joiners | they agree, and together keep what the group requires |
| Ratchet tree, `binary_tree/`, `treesync/` | the tree, private keys of one's part of it | add, blank, update, path encryption and decryption, parent hashes | everybody can follow; a node's key is known below it only |
| Key schedule and framing, `schedule/`, `framing/` | epoch secrets, PSKs, transcript hashes | derive, protect, unprotect | members with one context have one secret; what is accepted was sent |
| Message secrets, `tree/`, `mls_group/past_secrets.rs`, `schedule/pprf` | ratchets, windows, secret trees, past epochs | derive, delete, puncture, resize | right key, once; late messages within the window open |
| Storage providers, `memory_storage`, `sqlite_storage`, `sqlx_storage` | keyed values | the methods of `StorageProvider` | every getter returns what the trait says |
| Virtual clients, `components/vc_*.rs`, `key_packages/vc.rs` | emulation epochs, operation secret trees, bindings | register, allocate, commit, upload, join | no operation secret twice; siblings can follow |

What is hard in this system:

* **The committer is ahead.**  Every facade call that commits merges its commit
  before anybody has seen it (`src/client.ts` 213, 230, 241, 265).  Members that
  commit at the same time fork the group.
* **Messages arrive late, twice and out of order.**  Polling with a cursor and
  pushed events overlap; answers overtake each other; a joiner can act in an epoch
  before the members have processed the commit that starts it.
* **Calls fail halfway.**  `propose_and_commit_*` queues a proposal and may then
  refuse to commit; decryption consumes a key before the content is validated; a
  virtual client consumes a generation before its commit is staged.
* **Restarts.**  The server forgets its logs while the clients keep their cursors; a
  client goes back to its last snapshot while others have its later messages; the
  WebView starts empty and is restored.
* **Everybody validates for himself.**  Proposer, committer, receiver and joiner look
  at the same leaf at different times and against different views of the group.
* **Positions.**  A path secret is looked for by position in a tree with blanks,
  unmerged leaves and excluded newcomers; a late message by distance from a head.
* **Windows and capacities.**  Ratchet windows, forward limits, rings and deques.

`PROJECT.json` lists the hazards line by line, with the properties aimed at them.

## 2. Modules

| Module | Models | State and actions |
| --- | --- | --- |
| `DeliveryOps` | pure part of the server's services | `PublishTo`, `Since`, `AnswerCursor`, `TakeAll` |
| `DeliveryService` | the server with its readers | one action per HTTP handler and socket event (`PublishPackages`, `Claim`, `Publish`, `Fetch`, `Subscribe`, `Deposit`, `Take`), the reader's `UseAnswer`, the socket's `Disconnect`, and `Restart` |
| `MlsGroup` | proposals of one epoch, the kinds the bindings make | `FilterProposals`, `KeysAreUnique`, `CanCommit`, `ApplyProposals` |
| `GroupSession` | facade, bindings and OpenMLS group of several clients, the log between them | one action per facade call (`Add`, `Remove`, `Update`, `Commit`, `ProposeAdd`, `ProposeRemove`, `ProposeUpdate`, `Leave`, `Send`, `Join`), and `receive` by its outcomes (`ReceiveProposal`, `ReceiveApplication`, `ReceiveCommit`, `RefuseCommit`, `Skip`) |
| `Persistence` | `MlsClient` and the storage adapters over crashes | `OpenFresh`, `OpenStored`, `OpenFails`, `CreateGroup`, `KeyPackage`, `JoinGroup`, `Send`, `Save`, the steps of the two adapters, `SaveFails`, `Publish`, `Crash` |
| `Rpc`, `Bridge` | what the bridge promises; facade, bridge, WebView, host | `Mount`, `ScriptRuns`, `InitEnds`, calls of the app, `HostReceives`, `HandleMessage`, `Ready*`, `SetItem`, `Restart` |
| `GroupCommits`, `GroupApi` | `MlsGroup` and `PublicGroup` over a storage provider | one action per call: proposals, commits of all kinds, `MergePendingCommit`, `ClearPendingCommit`, `ProcessMessage`, `MergeStagedCommit`, joins, external commits, configuration, export, `Load`, `Crash`, and a `PublicGroup` that observes |
| `LeafNodes`, `GroupValidation` | leaf nodes, capabilities, key packages; every check of proposals, commits, trees and Welcomes | `ProposeAdd`, `ProposeUpdate`, `ProposeOther`, `ProposeGce`, `Build`, `ExternalCommit`, `Receive`, `Settle`, `Join`, `Tick` |
| `TreeMath`, `RatchetTree`, `TreeKEM` | index arithmetic; the vectors, diffs and operations of TreeSync; a group that works on its tree | `Commit`, `ExternalCommit` |
| `KeySchedule`, `Framing`, `SecureGroup` | symbolic secrets; what signatures, tags and AEAD layers cover; members over an unreliable network | `CreateMessage`, `Propose`, `Commit`, `MergePendingCommit`, `ClearPendingCommit`, `ProcessMessage`, joins, damage |
| `SenderRatchet`, `DualUseRatchet`, `SecretTree`, `Pprf`, `PastSecrets` | the message secrets of one group | `Encrypt`, `DecryptAhead`, `DecryptLate`; derivation and puncturing; `MergeCommit`, `Resize`, `DeleteBefore`, `DeleteUndated`, `DeleteAll` |
| `StorageKinds`, `StorageContract`, `MemoryStorage`, `SqliteStorage`, `SqlxStorage`, `StorageProviders` | the trait, its three providers, and all of them under one application | one action per method of the trait |
| `VirtualClients` | two emulators of one virtual client | registration, allocation, batches, commits, Welcomes, messages, `Crash` |
| `MC*` | constants, scenarios and symmetry for TLC; `MCMessageSecrets` runs the five modules of message secrets side by side | |
| `DeliveryServiceProofs`, `GroupSessionProofs`, `PersistenceProofs`, `MessageSecretsProofs`, `BridgeProofs`, `GroupApiProofs`, `GroupValidationProofs`, `VirtualClientsProofs` | theorems (section 4) | |

`GroupSession` composes `MlsGroup` (what OpenMLS computes) with `DeliveryOps` (what the
log does); `DeliveryService` wraps the same `DeliveryOps` in the full state of the
server.  `SecureGroup` composes `KeySchedule` and `Framing`, `TreeKEM` builds on
`RatchetTree` and `TreeMath`, `StorageProviders` instantiates the contract and the
providers, and `Bridge` instantiates `Rpc`, which it implements.

### How the state corresponds to the code

**DeliveryService.**  `queues`, `lastResort`, `log`, `inbox` and `counter` are the
fields of the three services; `room` is the Socket.IO room.  Handlers are
synchronous JavaScript, hence one action each.  `Fetch` only sends an answer;
`UseAnswer` is the client using it, in any order, so a late answer may turn the
cursor back.  `published`, `claims`, `deposited`, `taken`, `fetched`,
`subscribedAt` and `resumed` are history.  One group is followed: the group id only
selects a map entry.  The reader is the client the API is made for (ask with the
last cursor, use the cursor of the answer); the repository's own clients leave it to
the application.

**GroupSession.**  `state`, `epoch`, `members`, `store` and `used` are the parts of
an `MlsGroup`: group state, epoch, ratchet tree, ProposalStore, consumed ratchet
keys.  An epoch is an index into `epochs`, the tree of all commits ever made: two
clients share the secrets of an epoch iff they have the same index, while the epoch
number that messages carry is only the depth (`num`), as in the code, where a fork
gives several epochs one number.  Messages are private messages (the bindings use
the default PURE_CIPHERTEXT policy) and no past epochs are kept
(`max_past_epochs` 0).  A proposal is known by its reference.  With `Ordered`,
calls put their messages into an `outbox` that is published message by message, and
every client reads the log with a cursor; without it any log entry may be received
at any time and repeatedly, which covers every transport.  The model starts with a
group that is set up, with every choice of the founder that created it.
A failed `add`, `remove` or `update` is the second disjunct of `ProposeAndCommit`:
the proposal stays queued and its message is lost with the exception.  A call whose
guard fails changes nothing in the code and is not a step.  Reading an entry that
does not decrypt (own, wrong epoch, key consumed, inactive) is `Skip`.

**Persistence.**  `mem` is the provider and the group map, `disk` the adapter's entry.
`save` serializes synchronously and its write goes on in the background: the file
adapter truncates and then writes, an IndexedDB transaction is atomic and ordered.
`SaveFirst` is the documented discipline: what is published was saved before.
A save may fail at any step (`SaveFails`): its promise rejects, the file adapter may be
left with a truncated file, IndexedDB aborts.  `Overlapping` names the adapters whose saves
may overlap; with the file adapter overlapping saves can end in the older one, so
`MCPersistence.cfg` lets only those of IndexedDB overlap.

**Bridge.**  `pending` is `Bridge.#pending`, `toHost` and `toApp` the two string
channels, `clients` and `store` the host's maps, `disk` the app's storage.  The host
runs one request at a time.  `awaits` says whether the app waits for `ready()`; one that
does not may send up to `MaxEager` requests into a page that drops them, and its
`save()` may overtake the restore; `SavedChangesKept` is promised to apps that wait.  A
change of a client is the number of the call that made it; a call that throws in the host
is answered with the error, whether or not it had changed the client before.

**GroupApi.**  `mem[c]` is the `MlsGroup` in memory, `disk[c]` its storage entry by
entry; `Write(old, new, fields)` updates exactly the entries that a call writes.  A
call is written as a whole, since the application is asked to put it into a
transaction (`traits/src/storage.rs`); `Crash` falls between calls, for instance between
processing a message and merging it: what was read from a PrivateMessage is then lost, since
its key is gone.  `dropped` is history: the proposals a client dropped or lost.  `Scenarios` name the calls that the
applications of one behaviour make.

**GroupValidation.**  `group` is the group its members share, with the leaf of every
member; `commit` the commit under way with those that have followed and refused it.
`Entry` adds to a leaf the epoch it came with and whether anyone but its author has
checked it; both are history.  Proposals reach all members at once, one is stored
and one is in the commit builder; a client stands for its signature key and its leaf
index; newcomers read their Welcome before the next proposal or commit.  The clock
moves between any two steps.

**TreeKEM.**  Every client has its own `tree`, `own` leaf index and private `keys`;
`knows` is every private key it ever had.  A path secret is who made it, when and at
which position; it is also the key derived from it.  A commit is processed by
everybody before the next one.  The hash of a node stands for its key.

**SecureGroup.**  Secrets, tags and ciphertexts are the terms they were made by, so two
are equal iff they were derived alike.  `wire`, `welcomes` and `infos` are never
emptied: everything may be lost, repeated and reordered; a damaged copy has one part
changed.  How a path secret reaches the members is left to `TreeKEM`.

**Message secrets.**  Key material is the generation, node or prefix it is derived at.
`MaxGeneration` stands for `u32::MAX`.  The error path that ratchets halfway to
generation `u32::MAX` is not reachable with messages of a sender that runs this code.
In `PastSecrets` a tree is its epoch and its clock reading; every reading is possible at
every step because `SystemTime` is not monotonic.

**Storage.**  `values` is the byte map of the memory provider, with keys as the
sequence of what is concatenated (numbers by their digits); `db` and `sqlx` are the
tables.  `requeued` is history: the proposals that were queued while they were in the
queue, which the memory provider does not survive (section 5).

**VirtualClients.**  `trees` are the stored operation secret trees, `building`,
`batch` and `staged` what is only in memory, `members` the groups with their
bindings; `lost` is what a crash took between consuming a secret and using it, and the
Welcomes that were refused: `StageWelcome` deletes the key package and its material first
and checks the Welcome afterwards, as `creation.rs` 776 and 834-902 do.  `plan`
gives each behaviour the operations of each emulator.  Emulators keep to the documented
rule of one allocation cycle at a time (`TreeFree`), and a client that was removed from a
group bootstraps only from entries after its removal (`Newcomer`: the bootstrap calls are
"when this client is not yet a member"; `since` remembers the removal).

## 3. Runs

| Run | Checks | Bounds | Distinct states |
| --- | --- | --- | --- |
| `delivery` | polling and pushing leave no gap; packages in order, once; welcomes once; every message is fetched in the end | 1 reader, 3 messages, 2 answers under way; 2 users, 2 different packages each, 2 welcomes; 1 restart | 126 038 |
| `session_unordered` | one epoch, one membership; only members read; nothing is delivered twice | 2 founders and a joiner, 2 proposals, 3 epochs, 1 application message | 1 067 865 |
| `session_ordered` | bystanders agree whatever the committers do; one committer converges with everybody; commits are refused only for lost proposals | 2 founders and a joiner, 2 proposals, or 4 members of whom 2 only read, 1 proposal; 3 epochs | 375 158 |
| `persistence` | no generation is used twice; what was published stays valid; an opened client is the saved one | 1 group, both adapters, 2 generations, 3 key packages, 2 crashes | 482 241 |
| `bridge` | a save keeps the changes its caller knew of; every promise settles; `Bridge` implements `Rpc` | 1 client id, 5 calls, 3 of them early, 2 sessions | 360 052 |
| `group_api` | `load` restores what was in memory; key pairs follow the epoch; every member gets to the last epoch, unless the next commit is out of its reach in a named way | 2 founders, a joiner, an observer, 2 PSKs, 11 scenarios, 3 commits, 1 crash | 316 130 |
| `validation` | a refusal has a named cause; members keep what the group requires; credentials are understood | 3 clients, 4 leaf contents, 4 contexts, 2 epochs, 2 clock readings | 1 035 517 |
| `tree` | everybody follows every commit; a key is known below its node only; parent hashes are valid | trees that grow, shrink and regrow up to 5 leaves, room for 16 nodes | 7 039 |
| `protocol` | members of an epoch agree; what is accepted was sent; members can follow and invited can join | 3 clients, 8 scenarios, 1 past epoch, ring of 2, 2 queued proposals | 70 240 |
| `message_secrets` | right secret, once, none kept too long, none dropped too early | 8 generations, tolerance 3, forward distance 4, 8 leaves, 4 past epochs | 13 142 |
| `storage` | every getter answers as the trait says, up to three named exemptions | 2 of every kind, epochs 1 and 11, leaves 0 and 10, 4 calls | 78 563 |
| `virtual_clients` | no operation secret twice; siblings follow; messages are attributed; Welcomes open | 2 emulators, 2 groups, 6 plans, 2 emulation epochs | 357 462 |

Each property is stated in words in front of its definition; `PROJECT.json` names for
each a mutant, a plausible bug in the code it models, under which TLC finds it violated.
`TreeMathIsSound`, an assumption of `MCTreeKEM`, compares the index arithmetic with its
reference definition for every tree of up to `MaxTreeSize` leaves.

Why the bounds are enough:

* *delivery.*  Readers share only the log, and none writes it, so one is enough.
  Two answers under way let one overtake the other; three messages put the cursor strictly
  inside the log.  Two packages can be handed out in the wrong order, and two users share
  the counter of the welcomes.  The log shares no state with the directory and the inbox:
  a behaviour of `MCDelivery` serves either the readers or the users.
* *sessions.*  Two founders and an outsider are a committer, a concurrent committer or
  victim, and a joiner; two proposals give duplicates, and an Add and a Remove of
  one client, and a call that fails after it queued its proposal, so that commits are
  refused; three epochs are two commits, a fork or a chain.  With four members two commit
  concurrently while two only read, which is what `BystandersAgree` is about.  With two
  founders, two proposals and two commits come together only if one founder makes them,
  alone or with the joiner (`Bounded`); both causes of a refusal occur.
* *persistence, bridge.*  Two crashes are a crash after a recovery; five calls are
  `new`, two changes and two overlapping saves.
* *group_api, protocol, virtual_clients.*  A scenario lists the calls a behaviour may
  make, and TLC interleaves them; together the scenarios make every call, and every pair
  that touches the same state (a commit crossing a proposal, a crash between
  processing and merging, an external commit crossing a commit, a stored PSK proposal
  and one of the commit builder).
* *validation.*  Two of the leaf contents differ in exactly what one context requires; an
  add and a change of context fit into one commit and into two.
* *tree.*  Five leaves are the smallest tree in which a node below the root has
  unmerged leaves, a blank sibling and a filtered path.
* *message_secrets.*  The window and the forward limit are smaller than the number of
  generations; the last generations are those where the forward check is off.
* *storage.*  Epochs 1 and 11 with leaves 0 and 10 have a pair whose digits run into each
  other and two that do not; four calls are two writes, a deletion and a write again.

`CHECK_DEADLOCK FALSE` stands where the bounds on calls, epochs or generations end every
behaviour.  The symmetry sets contain only values that no property
and no initial state tells apart; none is used with a liveness property.

**Fairness.**  `delivery`: a reader that is running keeps asking (`WF` of `Fetch`) and
uses an answer that reaches it (`WF` of `UseAnswer`); the handler is one synchronous
function, so the server always answers.  `EveryMessageFetched` exempts a reader that
carries its cursor over a restart: the new log numbers from one again, below the
cursor.  `bridge`: the app mounts the view it has to mount, the WebView loads it,
evaluates its script and delivers messages, and storage promises settle; nothing is
assumed of the app's calls, its `setItem` or restarts.  `group_api`: a member that
can read or load does so, and so does the observer, which is what applications do in a
loop; nothing is assumed of proposals, commits and crashes.
`EventuallyCurrent` exempts a member whose next commit is out of its reach
(`LeftBehind`): it dropped a proposal of it, it lost it in a crash between reading a
PrivateMessage and merging, or the committer loaded the PSKs in another order.  Each of the
three is needed: without it TLC finds the property violated.

## 4. Proofs

All theorems are checked by TLAPS and hold for every value of the constants,
under the named assumptions of the modules (bounds are natural numbers, founders are
clients, the ratchet configuration fits its integers).  Where a theorem needs a
discipline of the application, it says so as an assumption on a constant, which is the
one the run of the property is made with.

| Proofs module | Theorems (property) | Assumed |
| --- | --- | --- |
| `DeliveryServiceProofs` | `TypeCorrect`, `LogIsAppendOnly`, `ClaimsInOrder` (`SingleUseInOrder`), `WelcomesOnce`, `PollingIsComplete`, `PushAndPollLeaveNoGap` (`NoGap`) | |
| `GroupSessionProofs` | `TypeCorrect`, `MembersAgree` (`EpochAgreement`), `MembersRead`, `StoresAreCurrent`, `NoSecondDelivery`, `NoRollback`, `OneCommitterSuffices` (`OneCommitterConverges`) | |
| | `RefusalsAreLosses` (`RefusedOnlyForLostProposals`), `ReadersAgree` (`BystandersAgree`) | `Ordered`: clients read the log in order |
| `PersistenceProofs` | `PersistenceInvAlways`, `GenerationsNeverReused`, `PublishedRemainsValid`, `ReopenedHasResolved` (`ReopenedIsCurrent`) | `Discipline`: publish what a resolved `save` covers, no overlapping saves of the file adapter |
| `MessageSecretsProofs` | `TypeCorrect`, `SecretsMatch` (`RightSecret`), `SecretsAreForgotten` (`ForwardSecrecy`), `WindowIsComplete` (`InRangeDecrypts`), `StoreKeepsTheLatest` (`KeepsTheLatest`), `DualUseKeepsOwn` (`OwnSecretsKept`) | |
| `BridgeProofs` | `BridgeImplementsRpc` (`ImplementsRpc`) | |
| | `SavedRemains` (`SavedChangesKept`) | `OpenOnce`: an id is opened once per session |
| `GroupApiProofs` | `StorageInvariant`, `LoadAlwaysRestores` (`LoadRestores`), `KeysAlwaysFollow` (`KeysFollowEpoch`) | `NothingReplaced`: joins do not ask for `replace_old_group` |
| `GroupValidationProofs` | `RefusalsAlwaysExplained`, `RequirementsAlwaysKept`, `CredentialsAlwaysUnderstood` | |
| `VirtualClientsProofs` | `SecretsUsedOnce` (`OperationSecretsOnce`), `SiblingsAlwaysFollow` (`SiblingsFollow`), `WelcomesAlwaysOpen` (`WelcomesOpen`), `MessagesAlwaysAttributed` (`MessagesAttributed`) | |

**DeliveryServiceProofs.**  Types need the
numbering of the log (entry i has number i): only then is the cursor of an answer a
position.  `WelcomeOnce` needs that every id handed out is at most the counter.
The reader's theorems rest on `ReaderInv`: an answer under way reaches back to what
its reader has used already (`AnswersReachBack`: the numbers up to its cursor are in
the answer or fetched), and the room misses nothing after the subscription
(`RoomMissesNothing`).  `CursorIsComplete` alone is not inductive, since it says nothing
of the answers that will become cursors.

**GroupSessionProofs.**  The first six theorems follow from one invariant `Inv`: every
message in a log or an outbox is genuine (it matches a proposal or an epoch that was
made, and its sender was a member), welcomes name an epoch that contains their
joiner, an epoch has the members that its proposals make of its parent's, parents precede their children, queued references are known, and what was
delivered was sent in an epoch no later than its recipient's, and in the same epoch
its key is consumed.  The last part is why a message is not delivered again although
consumed keys are forgotten at every epoch change: a client only moves to later
epochs.  There is one lemma per action; `CommitStep` carries own commits,
`ReceiveCommitStep` received ones, and `GrowthKeeps` says once that longer `epochs` and
`proposals` disturb nothing.

The other three relate a client to the part of the log it has read.

* `RefusalsAreLosses` rests on `ReadInv`: cursors are in the log, a sender knows what it
  sent, own proposals are queued, every commit was valid where it was made, and every
  proposal of its epoch that a client has read is queued, unless a commit of the epoch
  came after it.  A commit whose
  proposals all precede it then finds them, and passes the checks it passed at its author.
* `OneCommitterSuffices` adds `AuthorInv` and `LineInv`: with one author the epochs are
  one line, and its messages stand in the log and then the outbox in the order of the
  epochs.  While no committed proposal is lost (`NoLoss`), every reader is as far as the
  commits it has read (`Following`).
* `ReadersAgree` rests on `ViewInv`: there is a function from the prefixes of the log to
  views (epoch, members, store, consumed handshake keys) such that every founder that is
  no author has the view of the prefix it has read.  `NextView` computes what an entry makes
  of a view; the proof is that every outcome of `receive` does just that, and that later
  proposals and commits do not change it.  Concurrent commits of others fork the epochs, but not the readers.

**PersistenceProofs.**  All snapshots of a client form a chain: `AtLeast` ("holds all that
the other holds, with generations no lower") is a preorder, and disk, running saves in
their order, and memory grow along it (`SavesOrdered`); what a resolved save was given
(`ResolvedKept`), and what was published (`Remembered`), is at the bottom of the chain, so
that later saves and restarts keep it.  A crash between truncating and writing tears the
entry of the file adapter, and the client cannot be opened any more; an older save that ends
last would break the chain, hence `Discipline`.  A save that fails leaves the chain as it
was, or the file adapter with an entry that does not open (`FailStep`).

**MessageSecretsProofs.**  The sender ratchet has the invariant `WindowIndexed`: the window
has min(head, tolerance) entries, entry i belongs to generation head - i, and is empty
exactly if that secret was handed out.  `PastInv`: the store is at most the capacity in force and, until
a resize shrinks it, holds consecutive epochs up to the one before the current, with the
undated trees first.  `DualInv`: every secret handed out is of a generation that was
passed, and its entry, if it is still there, is `Consumed`; what is pruned are the oldest
of those kept for decryption (`PruneProperties`).

**BridgeProofs.**  `RpcInv` numbers the requests: one on its way has not been executed and is
there once (`OnTheWay`), an answer on its way is the outcome of a request that has not
settled, and is there once (`Answered`).  From it every step of `Bridge` is a step of `Rpc` or leaves its variables
alone, with one lemma per group of actions.  `SavedRemains` follows the state from the
host to the app's storage (`Pipeline`: the host covers the snapshots in its answers, they
the writes under way, and those the storage; `Promised`: each has the changes its caller
knew of), for which the host must have been restored before anything is saved.

**GroupApiProofs.**  `KeysInv`: storage is complete and equal to memory between two calls
(`LoadInv`); queued proposals and pending commits are recorded; what is staged is of the
current epoch; the key pairs are those of the epoch, or of epochs the member was removed
in.  `LoadRestores` alone is not inductive: that `MergePendingCommit` may leave most
entries alone needs that they are already in storage (lemma `Written`).  The hypothesis is needed:
`replace_old_group` writes over the group and leaves the old queue and the old
key pairs, so that `load` gives back more than was joined.

**GroupValidationProofs.**  `Inv` adds to the three properties the types, that the commit
under way passed its author's checks at some time against the group that its receivers
still have (`PassedThen`), and that whoever follows it has compared the leaf of its path
with the leaves of the group (`FollowedSaw`).  Contexts,
capabilities and lifetimes are arbitrary.

**VirtualClientsProofs.**  One invariant `Inv` for all four, with one lemma per action
(`InvStep`), for any number of emulators (the run has two), groups, emulation epochs and past
epochs, any tolerance, forward distance and ratchet length, and any plan.  None of the
properties is inductive as it stands:

* `OwnInv`: what left a client is behind the head of that client's own ratchet, the generation
  of a commit builder is the last one before the head and was not sent, and an open batch
  holds exactly what its tree would become.  Hence a burned generation is never sent and a
  sent one never allocated again.  A tree exists only for an epoch whose exporter was
  punctured, so that a registration never resets one.
* `PlacesInv` relates the stored groups, what is staged and what is being built to the logs:
  the only own commit ahead of a client is its pending one, and what is staged is the next
  entry, or an addition after the removal.
* `FollowInv`: everything in a log or an upload was sent, each under its own coordinates
  (`SecretsDiffer`); a sibling's ratchet is only moved to what the sibling sent
  (`HeadsSent`), so that a new entry is ahead of everybody's copy; and what a client has not
  consumed is `Open` there: not passed, retained, or given up by the tolerance.  That
  `Newest` keeps the right generations is `NewestKeeps`, about cardinalities.
* `WelcomeInv`: a key package is used by one addition, and its material is gone only if that
  addition was consumed, or refused after the deletion (`WelcomeRefused`).
* `BindingInv`: the bindings are in the order of their epochs, with the epochs at least as far apart as the
  positions, so that `MaxPast` + 1 of them reach back over all kept epochs, and every kept
  epoch is bound to the epoch of the leaf (`BoundMerged`: a commit without a leaf inherits it).

Only model-checked:

* liveness (`EveryMessageFetched`, `EveryPromiseSettles`, `EventuallyCurrent`), which is
  out of TLAPS's reach;
* what rests on recursive operators or on bitwise index arithmetic, for which TLAPS has no
  backend: the three properties of `TreeKEM`, and `DerivedOnce` of the secret trees;
* `ProvidersConform` and the four properties of `SecureGroup`, not proved yet.

## 5. What the models showed

The code was modelled as it is.  Where it does something else than its comments say, or
something its user should know, the model has that behaviour, and the properties of the
runs are stated so that they hold of it, with what they exempt named in the property.  TLC has a
counterexample to each of these without its exemption: `BystandersAgree` of all members,
`ReopenedIsCurrent` of overlapping or interrupted file writes, `ProvidersConform`,
`KeepsTheLatest`, `RequirementsKept`, `EventuallyCurrent`.

*Facade and server.*

* `groups.service.ts` 12-14 keeps one order "so epochs never fork".  The committer has
  merged before the log orders anything (`client.ts` 213), so two concurrent commits do
  fork the group.  What the order does give is `BystandersAgree` and
  `OneCommitterConverges`.
* After a refused `add`, the Add stays queued, and a later `remove` of that client
  commits both: the client is still in the group.
* A commit that overtakes its proposal is refused with its key consumed
  (`mls_group/mod.rs` says an error leaves the group unchanged): it can never be
  processed, and the client is stuck in its epoch.
* `proposal_store.rs` says the committer chooses one of several Adds of a client.  All are
  kept, and every commit of the epoch is refused.
* Proposals a client creates are queued at the client, contrary to `mls_group/mod.rs`;
  `leave` and a failed `remove` of oneself leave a member that can neither send nor
  commit until another commits; a client that was removed and added again cannot join
  (GroupAlreadyExists) and has lost its key package.
* The file adapter truncates before it writes: a crash in between loses the snapshot, and
  overlapping saves may end in the older one.  A message published before the save
  is forgotten by a crash, and its generation is used again (`SaveFirst`).
* `createGroup` with an existing id panics in the bindings; `joinGroup` with another group
  id than the Welcome's makes the next `open` throw; `process_message` panics on message
  types other than handshake and application.
* A request of an app that does not wait for `ready()` is dropped and its promise stays
  pending, and a `save()` that such an app makes before the restore replaces the storage by
  what little the host holds; a second `open` of one id makes two clients whose snapshots overwrite each
  other (`OpenOnce`); `btoa` refuses ids outside Latin-1.

*Group API and storage.*

* `MlsGroup::store` writes everything but the proposal queue and `own_leaf_nodes`;
  `replace_old_group` (`creation.rs` 1305) writes over the old group and leaves its
  proposal queue;
  `PublicGroup::delete` keeps the queue; `PublicGroup::from_external` does not persist
  the proposals it is given; `delete` after a self-removal deletes the key pairs of the
  new epoch only (`mls_group/mod.rs` 506).
* `process_message` persists the consumed key while the StagedCommit exists in memory
  only: a crash before the merge leaves a member that cannot follow (`LeftBehind`).
* `commit_builder.rs` never asks `is_operational` although `mls_group/mod.rs` 157-200
  describes the states that way; `finalize` of an external commit merges at once;
  `set_configuration` does not resize the message secrets.
* Memory provider: `clear_proposal_queue` (`lib.rs` 876) deletes proposals under a key
  without their label, so they stay; a reference that is queued twice and removed makes
  `queued_proposals` panic (420); `epoch_key_pairs_id` (1327) concatenates
  numbers without a separator.  Sqlx provider: `append_own_leaf_node` keeps
  the last one only.

*Tree, secrets, protocol.*

* Trimming a diff drops the blanks it holds beyond the new size
  (`binary_tree/array_representation/diff.rs` 158).  An external commit that removes the last
  leaf trims the tree and grows it again, and the old nodes are back until its path
  overwrites them; the comment at 371 expects blanks.
* `past_secrets.rs` keeps trees "in order of addition (latest at end)"; shrinking a store
  that is not full rotates by too much, and newer trees are then dropped first.
* A committer loads its own PSK proposals first, the receivers the stored ones: with
  both, the confirmation tags differ and nobody follows (`LeftBehind`).  A commit with a new signer and an Add signs the
  GroupInfo with the old one.  An application resumption PSK together with an Add makes a
  Welcome that is refused.
* A damaged PrivateMessage consumes its ratchet key in memory; joining deletes the key
  package before the Welcome is checked; an external committer keeps secrets derived from
  zeros as its past epoch; the resumption ring overwrites its second entry first.

*Validation.*

* Adds, Updates and a GroupContextExtensions of one commit are each checked against the
  old group.  A new member may lack what the same commit makes the group require, and two
  new members may not understand each other's credentials.  A new requirement of proposal or
  credential types is not checked against the members at all
  (`required_capabilities.rs` 16-23 promises it), after which nobody can join.
* A committer checks its own path leaf less than the receivers do: it may make a commit
  that everybody refuses; so may an external committer.  A key package may expire between
  commit and receipt.  The creator's leaf is never checked against the group's context; the
  check of required capabilities at `creation.rs` 235 never fires; the key
  package builder does not ensure that LastResort is among the capabilities.

*Virtual clients.*

* `load_vc_commit_material` persists the consumed generation before the commit is
  staged: after a crash the commit cannot be processed (`lost`).  A registration torn
  after its puncture can never be repeated.
* The material of a key package is deleted before the Welcome is checked: a Welcome that is
  refused takes it along, and a correct one for the same package cannot be opened any more.
* Joins by Welcome write no binding, contrary to the comments; the material of a
  last-resort package is deleted after its first Welcome; deletion of unreferenced
  emulation state ignores bindings; two open builders overwrite each other's tree, hence
  `TreeFree`.
* `vc_join_via_sibling_external_commit` takes any external commit of the group.  A client
  that was removed and bootstraps again from a commit older than its removal would meet
  commits whose secrets it has consumed already, its own or a sibling's, and be stuck there:
  without the last conjunct of `Newcomer` the run refutes `SiblingsFollow`.

## 6. Not modelled, and the plan

Byte encodings and TLS codecs, the envelope and base64 helpers, SQL migrations and
the server's wiring have no control of their own.  Hashes, AEADs, KEMs and signatures
are ideal.  Demos, examples and the side projects of the OpenMLS workspace
(`delivery-service`, `cli`, `interop_client`) are not part of the library.  Left out of
OpenMLS itself: AppData proposals and the virtual clients' leaf configuration in the
AppDataDictionary, external senders and proposals of new members, and fork resolution.  Calls
of a storage provider are one step: what a crash within a call leaves is up to the
application's transaction.  Lost HTTP answers of the directory and of the inbox are not
modelled: both hand out and forget.

Next are proofs for `SecureGroup` (`AcceptedWasSent` and `Agreement`, from an invariant that
ties every term on the wire to the epoch secrets it was made with) and for
`ProvidersConform`, one refinement per provider.
