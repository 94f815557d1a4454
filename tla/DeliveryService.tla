-------------------------- MODULE DeliveryService --------------------------
(***************************************************************************)
(* The NestJS delivery service of packages/server: the key package         *)
(* directory, the message log of a group with its WebSocket room, and the  *)
(* welcome inbox.  Every HTTP handler is synchronous, hence one action.    *)
(* All state is in memory: Restart forgets it, while the readers keep the  *)
(* cursors they were given.                                                *)
(*                                                                         *)
(* A reader is a client application as the service's API assumes it: it    *)
(* asks for the messages after its cursor, takes the cursor of the answer  *)
(* it uses, and may subscribe to the group's room.  Answers travel, and a  *)
(* reader that times out asks again, so an older answer may be used after  *)
(* a newer one.                                                            *)
(***************************************************************************)
EXTENDS DeliveryOps, FiniteSets

CONSTANTS
    Users,          \* users with a key package queue and a welcome inbox
    Readers,        \* clients that read the group's log
    Packages,       \* serialized key packages
    Messages,       \* serialized group messages
    NoPackage,      \* no last-resort package registered
    MaxLog,         \* bound: messages published between two restarts
    MaxPublished,   \* bound: key packages published per user
    MaxWelcomes,    \* bound: welcomes deposited between two restarts
    MaxRestarts,    \* bound: restarts of the server
    MaxInFlight     \* bound: answers under way to one reader

ASSUME BoundsAreNat ==
    {MaxLog, MaxPublished, MaxWelcomes, MaxRestarts, MaxInFlight} \subseteq Nat
ASSUME NoPackageIsNone == NoPackage \notin Packages

VARIABLES
    queues,       \* KeyPackagesService.queues
    lastResort,   \* KeyPackagesService.lastResort
    log,          \* GroupsService.logs, of one group
    room,         \* Socket.IO room of the group: the subscribed readers
    inbox,        \* WelcomesService.inbox: ids of the stored welcomes
    counter,      \* WelcomesService.counter
    incarnation,  \* how often the server restarted
    cursor,       \* reader: cursor of the answer it used last
    answers,      \* reader: answers under way to it
    events        \* reader: `message` events of its subscription, in order

(* History: what the server accepted and handed out since it started, and  *)
(* what the readers saw of it.  The program keeps none of this.            *)
VARIABLES
    published,    \* key packages published, per user, in order
    claims,       \* single-use key packages handed out, per user, in order
    deposited,    \* welcomes deposited, per user, in order
    taken,        \* welcomes handed out, per user, in order
    fetched,      \* sequence numbers of this incarnation a reader has used
    subscribedAt, \* length of the log when the reader entered the room
    resumed       \* reader used a cursor of an earlier incarnation

directory == <<queues, lastResort, published, claims>>
groupLog  == <<log, room, cursor, answers, events, fetched, subscribedAt, resumed>>
welcomes  == <<inbox, counter, deposited, taken>>
vars      == <<directory, groupLog, welcomes, incarnation>>

TypeOK ==
    /\ queues     \in [Users -> Seq(Packages)]
    /\ lastResort \in [Users -> Packages \cup {NoPackage}]
    /\ log   \in Seq([seq : Nat, message : Messages])
    /\ room  \in SUBSET Readers
    /\ inbox \in [Users -> Seq(Nat)]
    /\ counter     \in Nat
    /\ incarnation \in Nat
    /\ cursor  \in [Readers -> Nat]
    /\ answers \in [Readers -> SUBSET [seqs : SUBSET Nat, cursor : Nat, of : Nat]]
    /\ events  \in [Readers -> Seq(Nat)]
    /\ published \in [Users -> Seq(Packages)]
    /\ claims    \in [Users -> Seq(Packages)]
    /\ deposited \in [Users -> Seq(Nat)]
    /\ taken     \in [Users -> Seq(Nat)]
    /\ fetched   \in [Readers -> SUBSET Nat]
    /\ subscribedAt \in [Readers -> Nat]
    /\ resumed   \in [Readers -> BOOLEAN]

Init ==
    /\ queues = [u \in Users |-> <<>>]
    /\ lastResort = [u \in Users |-> NoPackage]
    /\ log = <<>>
    /\ room = {}
    /\ inbox = [u \in Users |-> <<>>]
    /\ counter = 0
    /\ incarnation = 0
    /\ cursor  = [r \in Readers |-> 0]
    /\ answers = [r \in Readers |-> {}]
    /\ events  = [r \in Readers |-> <<>>]
    /\ published = [u \in Users |-> <<>>]
    /\ claims    = [u \in Users |-> <<>>]
    /\ deposited = [u \in Users |-> <<>>]
    /\ taken     = [u \in Users |-> <<>>]
    /\ fetched   = [r \in Readers |-> {}]
    /\ subscribedAt = [r \in Readers |-> 0]
    /\ resumed   = [r \in Readers |-> FALSE]
-----------------------------------------------------------------------------
(* Key package directory (key-packages.service.ts). *)

(* POST /key-packages: append, and register the last resort if one is given. *)
PublishPackages(u, packages, resort) ==
    /\ Len(published[u]) + Len(packages) <= MaxPublished
    /\ queues' = [queues EXCEPT ![u] = @ \o packages]
    /\ published' = [published EXCEPT ![u] = @ \o packages]
    /\ lastResort' = [lastResort EXCEPT ![u] = IF resort = NoPackage THEN @ ELSE resort]
    /\ UNCHANGED <<claims, groupLog, welcomes, incarnation>>

(* What POST /key-packages/:userId/claim hands out: the oldest single-use   *)
(* package, else the last resort, else (NoPackage) a 404.                   *)
ClaimAnswer(u) ==
    IF queues[u] # <<>> THEN Head(queues[u]) ELSE lastResort[u]

(* Mutant of Claim: the package that is handed out stays in the queue. *)
ClaimKeeps(u) ==
    /\ queues[u] # <<>>
    /\ claims' = [claims EXCEPT ![u] = Append(@, ClaimAnswer(u))]
    /\ UNCHANGED <<queues, lastResort, published, groupLog, welcomes, incarnation>>

(* Mutant of Claim: the newest package is handed out. *)
ClaimNewest(u) ==
    /\ queues[u] # <<>>
    /\ queues' = [queues EXCEPT ![u] = SubSeq(@, 1, Len(@) - 1)]
    /\ claims' = [claims EXCEPT ![u] = Append(@, queues[u][Len(queues[u])])]
    /\ UNCHANGED <<lastResort, published, groupLog, welcomes, incarnation>>

(* The claim of a queued package; the other two answers change nothing. *)
Claim(u) ==
    /\ queues[u] # <<>>
    /\ queues' = [queues EXCEPT ![u] = Tail(@)]
    /\ claims' = [claims EXCEPT ![u] = Append(@, ClaimAnswer(u))]
    /\ UNCHANGED <<lastResort, published, groupLog, welcomes, incarnation>>
-----------------------------------------------------------------------------
(* Group log (groups.service.ts, groups.controller.ts, groups.gateway.ts). *)

(* Mutant of Publish: nothing is emitted to the room. *)
PublishSilently(message) ==
    /\ Len(log) < MaxLog
    /\ log' = PublishTo(log, message)
    /\ UNCHANGED <<events, room, cursor, answers, fetched, subscribedAt, resumed,
                   directory, welcomes, incarnation>>

(* POST /groups/:groupId/messages: append, then emit to the room. *)
Publish(message) ==
    /\ Len(log) < MaxLog
    /\ log' = PublishTo(log, message)
    /\ events' = [r \in Readers |->
                     IF r \in room THEN Append(events[r], Len(log) + 1) ELSE events[r]]
    /\ UNCHANGED <<room, cursor, answers, fetched, subscribedAt, resumed,
                   directory, welcomes, incarnation>>

(* GET /groups/:groupId/messages?since=cursor: the handler's whole effect is *)
(* the answer it sends.                                                      *)
Fetch(r) ==
    /\ Cardinality(answers[r]) < MaxInFlight
    /\ LET found == Since(log, cursor[r]) IN
         answers' = [answers EXCEPT ![r] = @ \cup
            {[seqs |-> {log[i].seq : i \in found},
              cursor |-> AnswerCursor(log, found, cursor[r]), of |-> incarnation]}]
    /\ UNCHANGED <<log, room, cursor, events, fetched, subscribedAt, resumed,
                   directory, welcomes, incarnation>>

(* The reader uses an answer; one of an earlier incarnation, or one asked for *)
(* with such a cursor, leaves it with a cursor the log does not know.         *)
UseAnswer(r, a) ==
    /\ a \in answers[r]
    /\ answers' = [answers EXCEPT ![r] = @ \ {a}]
    /\ cursor'  = [cursor EXCEPT ![r] = a.cursor]
    /\ fetched' = [fetched EXCEPT ![r] = IF a.of = incarnation THEN @ \cup a.seqs ELSE @]
    /\ resumed' = [resumed EXCEPT ![r] = @ \/ (a.of # incarnation /\ a.cursor > 0)]
    /\ UNCHANGED <<log, room, events, subscribedAt, directory, welcomes, incarnation>>

(* The `subscribe` event: the socket joins the room, without any replay. *)
Subscribe(r) ==
    /\ r \notin room
    /\ room' = room \cup {r}
    /\ subscribedAt' = [subscribedAt EXCEPT ![r] = Len(log)]
    /\ events' = [events EXCEPT ![r] = <<>>]
    /\ UNCHANGED <<log, cursor, answers, fetched, resumed, directory, welcomes, incarnation>>

(* The socket closes, and Socket.IO removes it from its rooms. *)
Disconnect(r) ==
    /\ r \in room
    /\ room' = room \ {r}
    /\ UNCHANGED <<log, cursor, answers, events, fetched, subscribedAt, resumed,
                   directory, welcomes, incarnation>>
-----------------------------------------------------------------------------
(* Welcome inbox (welcomes.service.ts). *)

(* POST /welcomes: the counter is one for all users. *)
Deposit(u) ==
    /\ counter < MaxWelcomes
    /\ counter' = counter + 1
    /\ inbox' = [inbox EXCEPT ![u] = Append(@, counter + 1)]
    /\ deposited' = [deposited EXCEPT ![u] = Append(@, counter + 1)]
    /\ UNCHANGED <<taken, directory, groupLog, incarnation>>

(* GET /welcomes/:userId: return and clear. *)
Take(u) ==
    /\ inbox[u] # <<>>
    /\ inbox' = [inbox EXCEPT ![u] = TakeAll(@).left]
    /\ taken' = [taken EXCEPT ![u] = @ \o TakeAll(inbox[u]).taken]
    /\ UNCHANGED <<counter, deposited, directory, groupLog, incarnation>>
-----------------------------------------------------------------------------
(* The process restarts: every Map is empty again, every socket is closed. *)
Restart ==
    /\ incarnation < MaxRestarts
    /\ incarnation' = incarnation + 1
    /\ queues' = [u \in Users |-> <<>>]
    /\ lastResort' = [u \in Users |-> NoPackage]
    /\ log' = <<>>
    /\ room' = {}
    /\ inbox' = [u \in Users |-> <<>>]
    /\ counter' = 0
    /\ published' = [u \in Users |-> <<>>]
    /\ claims'    = [u \in Users |-> <<>>]
    /\ deposited' = [u \in Users |-> <<>>]
    /\ taken'     = [u \in Users |-> <<>>]
    /\ fetched'   = [r \in Readers |-> {}]
    /\ resumed'   = [r \in Readers |-> cursor[r] > 0]
    /\ UNCHANGED <<cursor, answers, events, subscribedAt>>

Next ==
    \/ \E u \in Users, resort \in Packages \cup {NoPackage} :
         \E n \in 0..2 : \E packages \in [1..n -> Packages] :
             PublishPackages(u, packages, resort)
    \/ \E u \in Users : Claim(u)
    \/ \E m \in Messages : Publish(m)
    \/ \E r \in Readers : Fetch(r)
    \/ \E r \in Readers : \E a \in answers[r] : UseAnswer(r, a)
    \/ \E r \in Readers : Subscribe(r)
    \/ \E r \in Readers : Disconnect(r)
    \/ \E u \in Users : Deposit(u)
    \/ \E u \in Users : Take(u)
    \/ Restart

Spec == Init /\ [][Next]_vars

(* A reader that is running keeps asking and uses an answer that reaches it. *)
Fairness ==
    \A r \in Readers :
        /\ WF_vars(Fetch(r))
        /\ WF_vars(\E a \in answers[r] : UseAnswer(r, a))

FairSpec == Spec /\ Fairness
-----------------------------------------------------------------------------
(* A reader that fetches after it subscribed has seen every message of the  *)
(* log, in an answer or as an event, however its requests, the publications *)
(* and late answers interleave: the room misses nothing from the moment of  *)
(* the subscription on, and the cursor never skips a number.  It is false   *)
(* of a reader that carries a cursor over a restart.                        *)
NoGap ==
    \A r \in Readers :
        r \in room /\ ~resumed[r] /\ cursor[r] >= subscribedAt[r] =>
            1..Len(log) \subseteq fetched[r] \cup {events[r][i] : i \in 1..Len(events[r])}

(* Until a restart, the cursor a reader holds bounds what it has used: every *)
(* number up to the cursor was in an answer it used, so polling alone loses  *)
(* nothing, even when a late answer turns the cursor back.                   *)
CursorIsComplete ==
    \A r \in Readers : ~resumed[r] => 1..cursor[r] \subseteq fetched[r]

(* Claims hand out the single-use packages of a user in the order they were *)
(* published, each as often as it was published: no package is handed out   *)
(* twice by the queue and none is skipped.                                  *)
SingleUseInOrder ==
    \A u \in Users : claims[u] \o queues[u] = published[u]

(* A welcome is handed out to the user it was deposited for, once, in order, *)
(* and no two welcomes the server holds or has handed out share an id.       *)
WelcomeOnce ==
    /\ \A u \in Users : taken[u] \o inbox[u] = deposited[u]
    /\ \A u, v \in Users : \A i \in 1..Len(deposited[u]), j \in 1..Len(deposited[v]) :
          deposited[u][i] = deposited[v][j] => u = v /\ i = j

(* The log of a running server only grows, and at its end: the order that   *)
(* the members of a group apply commits in is never revised.                *)
LogOnlyGrows ==
    [][incarnation' = incarnation =>
         /\ Len(log') >= Len(log)
         /\ \A i \in 1..Len(log) : log'[i] = log[i]
         /\ \A i \in 1..Len(log') : log'[i].seq = i]_vars

(* A reader that keeps polling gets every message of the log, unless the    *)
(* server restarts first or the reader's cursor is from before a restart.   *)
EveryMessageFetched ==
    \A r \in Readers, n \in 1..MaxLog, k \in 0..MaxRestarts :
        (Len(log) >= n /\ incarnation = k)
            ~> (n \in fetched[r] \/ incarnation # k \/ resumed[r])
=============================================================================
