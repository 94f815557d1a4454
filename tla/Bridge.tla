------------------------------- MODULE Bridge -------------------------------
(***************************************************************************)
(* The React Native package: the Mls facade and its Bridge                 *)
(* (packages/react-native/src), the hidden WebView with the host           *)
(* (packages/react-native/host), the string channels between them, and the *)
(* key-value store of the app.                                             *)
(*                                                                         *)
(* The host runs one request at a time: its methods are synchronous or     *)
(* await only the in-memory adapter, so the microtasks of one request end  *)
(* before the next message event.  Asynchronous are the channels, the load *)
(* of the page and its WebAssembly, and the app's storage.                 *)
(*                                                                         *)
(* The state of a client is the set of calls that have changed it.  Every  *)
(* facade call on a client or one of its groups is a "change".  Request    *)
(* ids go on counting over sessions; nothing of one session reaches the    *)
(* next except the app's storage.                                          *)
(***************************************************************************)
EXTENDS Naturals, Sequences, FiniteSets

CONSTANTS
    Ids,            \* ids of persistent clients
    OpenOnce,       \* the app opens every id once per session
    MaxCalls,       \* bound: requests over all sessions
    MaxEager,       \* bound: the same, of an app that does not await ready()
    MaxSessions     \* bound: starts of the app

ASSUME BridgeConstants ==
    /\ Ids # {} /\ OpenOnce \in BOOLEAN
    /\ MaxCalls \in Nat /\ MaxEager \in 0..MaxCalls /\ MaxSessions \in Nat

VARIABLES
    awaits,     \* the app awaits Mls.ready() before other calls
    page,       \* the WebView: "unmounted", "loading", "script", "ready", "failed"
    marked,     \* Bridge.#ready has resolved
    ready,      \* Mls.ready(): "idle", "waiting", "reading", "restoring", "done"
    pending,    \* Bridge.#pending: [id |-> request]
    toHost,     \* requests injected into the WebView
    toApp,      \* messages posted by the host
    clients,    \* host: handle -> client
    store,      \* host: the storage map
    opened,     \* ids the app has opened in this session
    handles,    \* handles the app has been given in this session
    disk,       \* the app's storage
    writes,     \* setItem calls under way
    session,    \* number of the session
    issued, outcome, settled,   \* history: requests, executed, and answered
    kept        \* history: changes of which a save() promised to keep them

hostVars == <<clients, store>>
appVars == <<marked, ready, pending, opened, handles>>
channels == <<toHost, toApp>>
history == <<issued, outcome, settled, kept>>
vars == <<awaits, page, appVars, channels, hostVars, disk, writes, session, history>>

Absent == {0}       \* no entry under an id; changes are numbered from 1
EmptyStore == [i \in Ids |-> Absent]
Stores == [Ids -> SUBSET (0..MaxCalls)]
Result(ok, handle, stored) == [ok |-> ok, handle |-> handle, stored |-> stored]
Error == Result(FALSE, 0, EmptyStore)
Done == Result(TRUE, 0, EmptyStore)
Results == [ok : BOOLEAN, handle : 0..MaxCalls, stored : Stores]

TypeOK ==
    /\ page \in {"unmounted", "loading", "script", "ready", "failed"}
    /\ marked \in BOOLEAN
    /\ ready \in {"idle", "waiting", "reading", "restoring", "done"}
    /\ \A c \in DOMAIN pending : pending[c].id = c
    /\ \A i \in DOMAIN toHost : toHost[i].id \in issued
    /\ \A i \in DOMAIN clients : clients[i].changes \subseteq issued
    /\ store \in Stores /\ disk \in Stores
    /\ opened \subseteq Ids /\ handles \subseteq DOMAIN clients
    /\ awaits \in BOOLEAN /\ session \in 1..MaxSessions
    /\ issued \subseteq 1..MaxCalls /\ kept \subseteq issued

Init ==
    /\ awaits \in BOOLEAN
    /\ page = "unmounted" /\ marked = FALSE /\ ready = "idle"
    /\ pending = <<>> /\ toHost = <<>> /\ toApp = <<>>
    /\ clients = <<>> /\ store = EmptyStore
    /\ opened = {} /\ handles = {}
    /\ disk = EmptyStore /\ writes = <<>> /\ session = 1
    /\ issued = {} /\ outcome = <<>> /\ settled = <<>> /\ kept = {}

Extend(f, c, v) == [x \in DOMAIN f \cup {c} |-> IF x = c THEN v ELSE f[x]]
Without(f, c) == [x \in DOMAIN f \ {c} |-> f[x]]

(***************************************************************************)
(* The page                                                                *)
(***************************************************************************)
(* Mutant: ready is posted before the page can receive. *)
MountPostsReady ==
    /\ page = "unmounted" /\ page' = "loading"
    /\ toApp' = Append(toApp, [id |-> 0, result |-> Done])
    /\ UNCHANGED <<appVars, toHost, hostVars, disk, writes, session, history>>

Mount ==
    /\ page = "unmounted" /\ page' = "loading"
    /\ UNCHANGED <<appVars, channels, hostVars, disk, writes, session, history>>

(* The script of the page defines __mls4rn_recv and calls init(). *)
ScriptRuns ==
    /\ page = "loading" /\ page' = "script"
    /\ UNCHANGED <<appVars, channels, hostVars, disk, writes, session, history>>

(* init() ends: the host posts {ready: true}, or an error with id -1. *)
InitEnds ==
    /\ page = "script"
    /\ \/ page' = "ready" /\ toApp' = Append(toApp, [id |-> 0, result |-> Done])
       \/ page' = "failed" /\ toApp' = Append(toApp, [id |-> 0, result |-> Error])
    /\ UNCHANGED <<appVars, toHost, hostVars, disk, writes, session, history>>

(***************************************************************************)
(* Bridge.request, and the calls of the app                                *)
(***************************************************************************)
NextCall == Cardinality(issued) + 1

(* Without a mounted WebView injectJavaScript is not even called.  `acked'  *)
(* are the changes the caller knew of when it called Mls.save().            *)
RequestSent(method, client, handle, stored, acked) ==
    LET req == [id |-> NextCall, method |-> method, client |-> client, handle |-> handle,
                stored |-> stored, acked |-> acked]
    IN  /\ NextCall <= IF awaits THEN MaxCalls ELSE MaxEager
        /\ issued' = issued \cup {req.id}
        /\ pending' = Extend(pending, req.id, req)
        /\ toHost' = IF page = "unmounted" THEN toHost ELSE Append(toHost, req)

AnyId == CHOOSE i \in Ids : TRUE
MayCall == awaits => ready = "done"

NewClient(i) ==
    /\ MayCall /\ RequestSent("new", i, 0, EmptyStore, {})
    /\ UNCHANGED <<page, marked, ready, opened, handles, toApp, hostVars, disk, writes, session,
                   outcome, settled, kept>>

OpenClient(i) ==
    /\ MayCall /\ (OpenOnce => i \notin opened)
    /\ RequestSent("open", i, 0, EmptyStore, {})
    /\ opened' = opened \cup {i}
    /\ UNCHANGED <<page, marked, ready, handles, toApp, hostVars, disk, writes, session,
                   outcome, settled, kept>>

(* A call on a client or a group, or MlsClient.save, by handle. *)
CallOn(h, method) ==
    /\ h \in handles
    /\ RequestSent(method, AnyId, h, EmptyStore, {})
    /\ UNCHANGED <<page, marked, ready, opened, handles, toApp, hostVars, disk, writes, session,
                   outcome, settled, kept>>

(* Changes of persistent clients whose promise has resolved. *)
Acknowledged == {c \in DOMAIN settled : settled[c].ok} \cap UNION {clients[h].changes :
                    h \in {x \in handles : clients[x].persistent}}

SaveAll ==
    /\ MayCall
    /\ RequestSent("snapshot", AnyId, 0, EmptyStore, Acknowledged)
    /\ UNCHANGED <<page, marked, ready, opened, handles, toApp, hostVars, disk, writes, session,
                   outcome, settled, kept>>

(* Mls.ready(): the first caller starts it, all share its promise. *)
Ready ==
    /\ ready = "idle" /\ ready' = "waiting"
    /\ UNCHANGED <<page, marked, pending, opened, handles, channels, hostVars, disk, writes,
                   session, history>>

ReadyReads ==
    /\ ready = "waiting" /\ marked /\ ready' = "reading"
    /\ UNCHANGED <<page, marked, pending, opened, handles, channels, hostVars, disk, writes,
                   session, history>>

ReadyRestores ==
    /\ ready = "reading"
    /\ \/ /\ disk = EmptyStore /\ ready' = "done"
          /\ UNCHANGED <<pending, toHost, issued>>
       \/ /\ disk # EmptyStore /\ ready' = "restoring"
          /\ RequestSent("restore", AnyId, 0, disk, {})
    /\ UNCHANGED <<page, marked, opened, handles, toApp, hostVars, disk, writes, session,
                   outcome, settled, kept>>

(***************************************************************************)
(* The host                                                                *)
(***************************************************************************)
Client(id, persistent, changes) == [id |-> id, persistent |-> persistent, changes |-> changes]

(* newClient and openClient: the constructor needs the WebAssembly.  Open  *)
(* loads the entry of the id, or stores that of a fresh client.            *)
Create(req, persistent) ==
    LET found == persistent /\ store[req.client] # Absent
    IN  IF page # "ready" THEN UNCHANGED hostVars /\ outcome' = Extend(outcome, req.id, Error)
        ELSE /\ clients' = Append(clients, Client(req.client, persistent,
                                                  IF found THEN store[req.client] ELSE {}))
             /\ store' = IF persistent /\ ~found THEN [store EXCEPT ![req.client] = {}] ELSE store
             /\ outcome' = Extend(outcome, req.id, Result(TRUE, Len(clients) + 1, EmptyStore))

(* A facade call on a handle.  An unknown handle throws, and so may a call  *)
(* on a known one, before or after it has changed the client: the host      *)
(* answers with the error.                                                  *)
Apply(req) ==
    \/ UNCHANGED hostVars /\ outcome' = Extend(outcome, req.id, Error)
    \/ /\ req.handle \in DOMAIN clients
       /\ clients' = [clients EXCEPT ![req.handle].changes = @ \cup {req.id}]
       /\ UNCHANGED store
       /\ \E r \in {Done, Error} : outcome' = Extend(outcome, req.id, r)

SaveClient(req) ==
    LET c == clients[req.handle]
    IN  IF req.handle \notin DOMAIN clients
        THEN UNCHANGED hostVars /\ outcome' = Extend(outcome, req.id, Error)
        ELSE /\ store' = IF c.persistent THEN [store EXCEPT ![c.id] = c.changes] ELSE store
             /\ UNCHANGED clients
             /\ outcome' = Extend(outcome, req.id, Done)

(* Every client is saved, in the order of creation: the last one of an id  *)
(* decides its entry.                                                      *)
Flushed ==
    LET of(i) == {h \in DOMAIN clients : clients[h].persistent /\ clients[h].id = i}
        last(i) == CHOOSE h \in of(i) : \A k \in of(i) : k <= h
    IN  [i \in Ids |-> IF of(i) = {} THEN store[i] ELSE clients[last(i)].changes]

TakeSnapshot(req) ==
    /\ store' = Flushed
    /\ outcome' = Extend(outcome, req.id, Result(TRUE, 0, Flushed))
    /\ UNCHANGED clients

(* Mutant: the restored entries are dropped. *)
RestoreIgnored(req) ==
    /\ outcome' = Extend(outcome, req.id, Done)
    /\ UNCHANGED hostVars

Restore(req) ==
    /\ store' = req.stored
    /\ outcome' = Extend(outcome, req.id, Done)
    /\ UNCHANGED clients

Dispatch(req) ==
    \/ req.method = "new" /\ Create(req, FALSE)
    \/ req.method = "open" /\ Create(req, TRUE)
    \/ req.method = "change" /\ Apply(req)
    \/ req.method = "save" /\ SaveClient(req)
    \/ req.method = "snapshot" /\ TakeSnapshot(req)
    \/ req.method = "restore" /\ Restore(req)

(* The injected script calls __mls4rn_recv, which does not exist before    *)
(* the page's own script has run: the request is lost.                     *)
HostReceives ==
    /\ toHost # <<>> /\ toHost' = Tail(toHost)
    /\ \/ /\ page = "loading" /\ UNCHANGED <<toApp, hostVars, outcome>>
       \/ /\ page # "loading" /\ Dispatch(Head(toHost))
          /\ toApp' = Append(toApp, [id |-> Head(toHost).id, result |-> outcome'[Head(toHost).id]])
    /\ UNCHANGED <<page, appVars, disk, writes, session, issued, settled, kept>>

(***************************************************************************)
(* Bridge.handleMessage, and what the facade does with a result            *)
(***************************************************************************)
(* Mutant: answers are taken to come in the order of the requests. *)
SettledFirst(m) == CHOOSE c \in DOMAIN pending : \A d \in DOMAIN pending : c <= d

SettledCall(m) == m.id

HandleReady(m) ==
    /\ m.id = 0
    /\ marked' = (marked \/ m.result.ok)
    /\ UNCHANGED <<ready, pending, handles, writes, settled>>

HandleAnswer(m) ==
    LET c == SettledCall(m)
        req == pending[c]
        ok == m.result.ok
    IN  /\ m.id # 0 /\ c \in DOMAIN pending
        /\ pending' = Without(pending, c)
        /\ settled' = Extend(settled, c, m.result)
        /\ handles' = IF ok /\ m.result.handle # 0 THEN handles \cup {m.result.handle} ELSE handles
        /\ ready' = IF req.method = "restore" THEN "done" ELSE ready
        /\ writes' = IF ok /\ req.method = "snapshot"
                     THEN Append(writes, [stored |-> m.result.stored, acked |-> req.acked])
                     ELSE writes
        /\ UNCHANGED marked

HandleMessage ==
    /\ toApp # <<>> /\ toApp' = Tail(toApp)
    /\ HandleReady(Head(toApp)) \/ HandleAnswer(Head(toApp))
    /\ UNCHANGED <<page, opened, toHost, hostVars, disk, session, issued, outcome, kept>>

(* setItem completes, in the order of the calls, and save() resolves. *)
SetItem ==
    /\ writes # <<>> /\ writes' = Tail(writes)
    /\ disk' = Head(writes).stored
    /\ kept' = kept \cup Head(writes).acked
    /\ UNCHANGED <<page, appVars, channels, hostVars, session, issued, outcome, settled>>

(* The app is killed and started again. *)
Restart ==
    /\ session < MaxSessions /\ session' = session + 1
    /\ page' = "unmounted" /\ marked' = FALSE /\ ready' = "idle"
    /\ pending' = <<>> /\ opened' = {} /\ handles' = {}
    /\ toHost' = <<>> /\ toApp' = <<>> /\ clients' = <<>> /\ store' = EmptyStore /\ writes' = <<>>
    /\ UNCHANGED <<disk, history>>

Next ==
    \/ Mount \/ ScriptRuns \/ InitEnds
    \/ Ready \/ ReadyReads \/ ReadyRestores
    \/ \E i \in Ids : NewClient(i) \/ OpenClient(i)
    \/ \E h \in handles, m \in {"change", "save"} : CallOn(h, m)
    \/ SaveAll \/ HostReceives \/ HandleMessage \/ SetItem \/ Restart

Step(A) == A /\ UNCHANGED awaits

Spec == Init /\ [][Step(Next)]_vars

(* The WebView loads its page, evaluates what is injected and delivers     *)
(* what is posted; the promises of the app's storage settle.               *)
FairSpec ==
    /\ Spec
    /\ WF_vars(Step(Mount)) /\ WF_vars(Step(ScriptRuns)) /\ WF_vars(Step(InitEnds))
    /\ WF_vars(Step(HostReceives)) /\ WF_vars(Step(HandleMessage))
    /\ WF_vars(Step(ReadyReads)) /\ WF_vars(Step(ReadyRestores))

(***************************************************************************)
(* Properties                                                              *)
(***************************************************************************)
R == INSTANCE Rpc WITH Calls <- 1..MaxCalls, Outcomes <- Results

(* The bridge implements remote calls: a request is executed at most once  *)
(* by the host, and its promise settles at most once, with the outcome of  *)
(* its own execution, also when other requests were lost (Bridge.request,  *)
(* handleMessage).                                                         *)
ImplementsRpc == R!RpcSpec

(* Whatever was changed, and acknowledged, before a Mls.save() that        *)
(* resolved is in the app's storage from then on, over restarts and later  *)
(* saves ("Persist the current state to the configured storage"), when the *)
(* app does as ready() says ("Await this before opening clients"): a save  *)
(* that overtakes the restore replaces the storage by what it finds.       *)
SavedChangesKept == awaits => \A c \in kept : \E i \in Ids : c \in disk[i]

(* Every promise of an app that waits for ready() settles, unless the app   *)
(* dies: a request gets its answer ("Send a request and resolve with the    *)
(* host's result"), and ready() resolves, restore included, unless the      *)
(* WebAssembly does not load.  (At the bound of the model no request is     *)
(* left for the restore.)  What an app sends before the page can receive it *)
(* is lost.                                                                 *)
EveryPromiseSettles ==
    /\ \A c \in 1..MaxCalls : (awaits /\ c \in DOMAIN pending) ~> c \notin DOMAIN pending
    /\ (awaits /\ ready = "waiting")
         ~> (ready \in {"done", "idle"} \/ page = "failed" \/ Cardinality(issued) = MaxCalls)
=============================================================================
