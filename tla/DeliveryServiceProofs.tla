----------------------- MODULE DeliveryServiceProofs -----------------------
(***************************************************************************)
(* Proofs about the delivery service, for any number of users, readers,    *)
(* packages, messages, restarts and answers in flight.                     *)
(***************************************************************************)
EXTENDS DeliveryService, SequenceTheorems, TLAPS

Entry == [seq : Nat, message : Messages]

(* Appending to the log keeps it a sequence of entries: GroupsService.publish *)
(* stores a record with a number and the message.                            *)
LEMMA PublishToType ==
    ASSUME log \in Seq(Entry), NEW m \in Messages
    PROVE  /\ PublishTo(log, m) \in Seq(Entry)
           /\ Len(PublishTo(log, m)) = Len(log) + 1
           /\ PublishTo(log, m)[Len(log) + 1] = [seq |-> Len(log) + 1, message |-> m]
           /\ \A i \in 1..Len(log) : PublishTo(log, m)[i] = log[i]
<1>1. Len(log) \in Nat
  BY LenProperties
<1>2. StoredMessage(Len(log) + 1, m) \in Entry
  BY <1>1 DEF StoredMessage, Entry
<1> QED
  BY <1>1, <1>2, AppendProperties DEF PublishTo, StoredMessage

(* The list of packages in a POST /key-packages is a sequence. *)
LEMMA PackagesType ==
    ASSUME NEW n \in 0..2, NEW packages \in [1..n -> Packages]
    PROVE  packages \in Seq(Packages)
  BY IsASeq

(* The number of an entry is its position, as long as the log only grows at *)
(* its end.                                                                 *)
LogNumbered == \A i \in 1..Len(log) : log[i].seq = i

(* What GET /groups/:groupId/messages answers: the numbers above the cursor, *)
(* and the length of the log, or the old cursor if that is not below it.     *)
LEMMA AnswerIsTail ==
    ASSUME log \in Seq(Entry), LogNumbered, NEW from \in Nat
    PROVE  LET found == Since(log, from) IN
           /\ {log[i].seq : i \in found} = from+1..Len(log)
           /\ AnswerCursor(log, found, from) = IF from < Len(log) THEN Len(log) ELSE from
<1>1. Len(log) \in Nat
  BY LenProperties
<1>2. Since(log, from) = from+1..Len(log)
  BY <1>1 DEF Since, LogNumbered
<1>3. {log[i].seq : i \in Since(log, from)} = from+1..Len(log)
  BY <1>1, <1>2 DEF LogNumbered
<1>4. CASE from < Len(log)
  <2>1. \A i \in from+1..Len(log) : (\A j \in from+1..Len(log) : j <= i) => i = Len(log)
    BY <1>1, <1>4
  <2>2. Len(log) \in from+1..Len(log) /\ \A j \in from+1..Len(log) : j <= Len(log)
    BY <1>1, <1>4
  <2>3. Last(from+1..Len(log)) = Len(log)
    BY <2>1, <2>2 DEF Last
  <2>4. log[Len(log)].seq = Len(log)
    BY <1>1, <1>4 DEF LogNumbered
  <2> QED
    BY <1>2, <1>3, <1>4, <2>2, <2>3, <2>4 DEF AnswerCursor
<1>5. CASE ~(from < Len(log))
  <2>1. from+1..Len(log) = {}
    BY <1>1, <1>5
  <2> QED
    BY <1>2, <1>3, <1>5, <2>1 DEF AnswerCursor
<1> QED
  BY <1>4, <1>5

TypeInv == TypeOK /\ LogNumbered

(* The freshly started server has empty maps of the right types. *)
LEMMA TypeInit == Init => TypeInv
  BY EmptySeq DEF Init, TypeInv, TypeOK, LogNumbered

(* No HTTP handler, socket event, client step or restart spoils a type or *)
(* the numbering of the log.                                              *)
LEMMA TypeNext == TypeInv /\ [Next]_vars => TypeInv'
<1> SUFFICES ASSUME TypeInv, [Next]_vars
             PROVE  TypeInv'
  OBVIOUS
<1> USE DEF TypeInv
<1> USE DEF TypeOK
<1>1. ASSUME NEW u \in Users, NEW resort \in Packages \cup {NoPackage}, NEW n \in 0..2,
             NEW packages \in [1..n -> Packages], PublishPackages(u, packages, resort)
      PROVE  TypeInv'
  <2>1. packages \in Seq(Packages)
    BY PackagesType
  <2>2. queues' \in [Users -> Seq(Packages)] /\ published' \in [Users -> Seq(Packages)]
    BY <1>1, <2>1, ConcatProperties DEF PublishPackages
  <2>3. lastResort' \in [Users -> Packages \cup {NoPackage}]
    BY <1>1 DEF PublishPackages
  <2> QED
    BY <1>1, <2>2, <2>3 DEF PublishPackages, groupLog, welcomes, LogNumbered
<1>2. ASSUME NEW u \in Users, Claim(u)
      PROVE  TypeInv'
  <2>1. Head(queues[u]) \in Packages /\ Tail(queues[u]) \in Seq(Packages)
    BY <1>2, HeadTailProperties DEF Claim
  <2>2. queues' \in [Users -> Seq(Packages)] /\ claims' \in [Users -> Seq(Packages)]
    BY <1>2, <2>1, AppendProperties DEF Claim, ClaimAnswer
  <2> QED
    BY <1>2, <2>2 DEF Claim, groupLog, welcomes, LogNumbered
<1>3. ASSUME NEW m \in Messages, Publish(m)
      PROVE  TypeInv'
  <2>1. Len(log) \in Nat
    BY LenProperties
  <2>2. log' \in Seq(Entry) /\ LogNumbered'
    <3>1. log \in Seq(Entry)
      BY DEF Entry
    <3>2. log' = PublishTo(log, m) /\ LogNumbered
      BY <1>3 DEF Publish
    <3> HIDE DEF TypeInv, TypeOK
    <3>3. /\ log' \in Seq(Entry)
          /\ Len(log') = Len(log) + 1
          /\ log'[Len(log) + 1] = [seq |-> Len(log) + 1, message |-> m]
          /\ \A i \in 1..Len(log) : log'[i] = log[i]
      BY <3>1, <3>2, PublishToType
    <3> QED
      BY <2>1, <3>2, <3>3 DEF LogNumbered
  <2>3. events' \in [Readers -> Seq(Nat)]
    BY <1>3, <2>1, AppendProperties DEF Publish
  <2> QED
    BY <1>3, <2>2, <2>3 DEF Publish, directory, welcomes, Entry
<1>4. ASSUME NEW r \in Readers, Fetch(r)
      PROVE  TypeInv'
  <2>1. Len(log) \in Nat
    BY LenProperties
  <2> DEFINE found == Since(log, cursor[r])
             a == [seqs |-> {log[i].seq : i \in found},
                   cursor |-> AnswerCursor(log, found, cursor[r]), of |-> incarnation]
  <2>2. a \in [seqs : SUBSET Nat, cursor : Nat, of : Nat]
    <3>1. log \in Seq(Entry) /\ cursor[r] \in Nat
      BY DEF Entry
    <3>2. /\ {log[i].seq : i \in found} = cursor[r]+1..Len(log)
          /\ AnswerCursor(log, found, cursor[r])
               = IF cursor[r] < Len(log) THEN Len(log) ELSE cursor[r]
      BY <3>1, AnswerIsTail
    <3> HIDE DEF found
    <3>3. AnswerCursor(log, found, cursor[r]) \in Nat /\ incarnation \in Nat
      BY <2>1, <3>1, <3>2
    <3>4. cursor[r]+1..Len(log) \in SUBSET Nat
      BY <2>1, <3>1
    <3>5. {log[i].seq : i \in found} \in SUBSET Nat
      BY <3>2, <3>4, Zenon
    <3> QED
      BY <3>3, <3>5
  <2>3. answers' = [answers EXCEPT ![r] = @ \cup {a}]
    BY <1>4 DEF Fetch
  <2> HIDE DEF a
  <2>4. answers' \in [Readers -> SUBSET [seqs : SUBSET Nat, cursor : Nat, of : Nat]]
    BY <2>2, <2>3
  <2> QED
    BY <1>4, <2>4 DEF Fetch, directory, welcomes, LogNumbered
<1>5. ASSUME NEW r \in Readers, NEW a \in answers[r], UseAnswer(r, a)
      PROVE  TypeInv'
  BY <1>5 DEF UseAnswer, directory, welcomes, LogNumbered
<1>6. ASSUME NEW r \in Readers, Subscribe(r)
      PROVE  TypeInv'
  BY <1>6, EmptySeq, LenProperties DEF Subscribe, directory, welcomes, LogNumbered
<1>7. ASSUME NEW r \in Readers, Disconnect(r)
      PROVE  TypeInv'
  BY <1>7 DEF Disconnect, directory, welcomes, LogNumbered
<1>8. ASSUME NEW u \in Users, Deposit(u)
      PROVE  TypeInv'
  <2>1. /\ counter' \in Nat
        /\ inbox' \in [Users -> Seq(Nat)]
        /\ deposited' \in [Users -> Seq(Nat)]
    BY <1>8, AppendProperties DEF Deposit
  <2> QED
    BY <1>8, <2>1 DEF Deposit, directory, groupLog, LogNumbered
<1>9. ASSUME NEW u \in Users, Take(u)
      PROVE  TypeInv'
  <2>1. /\ inbox' \in [Users -> Seq(Nat)]
        /\ taken' \in [Users -> Seq(Nat)]
    BY <1>9, ConcatProperties, EmptySeq DEF Take, TakeAll
  <2> QED
    BY <1>9, <2>1 DEF Take, directory, groupLog, LogNumbered
<1>10. CASE Restart
  BY <1>10, EmptySeq DEF Restart, LogNumbered
<1>11. CASE UNCHANGED vars
  BY <1>11 DEF vars, directory, groupLog, welcomes, LogNumbered
<1> QED
  BY <1>1, <1>2, <1>3, <1>4, <1>5, <1>6, <1>7, <1>8, <1>9, <1>10, <1>11 DEF Next

(* The state of the server and of its readers always has its type, whatever *)
(* requests, late answers and restarts happen; in particular the cursor of  *)
(* an answer of GroupsController.since is a number for every log.           *)
THEOREM TypeCorrect == Spec => []TypeOK
<1>1. TypeInv => TypeOK
  BY DEF TypeInv
<1> QED
  BY TypeInit, TypeNext, <1>1, PTL DEF Spec
-----------------------------------------------------------------------------
(* Moving the head of a queue to the end of what was taken from it, and     *)
(* adding to the queue, change the whole as one expects.                    *)
LEMMA MoveHead ==
    ASSUME NEW S, NEW s \in Seq(S), NEW q \in Seq(S), q # <<>>
    PROVE  Append(s, Head(q)) \o Tail(q) = s \o q
<1>1. Head(q) \in S /\ Tail(q) \in Seq(S) /\ Len(Tail(q)) = Len(q) - 1
      /\ \A i \in 1..Len(Tail(q)) : Tail(q)[i] = q[i + 1]
  BY HeadTailProperties
<1>2. Append(s, Head(q)) \in Seq(S) /\ Len(Append(s, Head(q))) = Len(s) + 1
      /\ \A i \in 1..Len(s) : Append(s, Head(q))[i] = s[i]
      /\ Append(s, Head(q))[Len(s) + 1] = q[1]
  BY <1>1, AppendProperties, HeadTailProperties
<1>3. Len(s) \in Nat /\ Len(q) \in Nat \ {0}
  BY LenProperties, EmptySeq
<1>4. Append(s, Head(q)) \o Tail(q) \in Seq(S) /\ s \o q \in Seq(S)
      /\ Len(Append(s, Head(q)) \o Tail(q)) = Len(s) + Len(q)
      /\ Len(s \o q) = Len(s) + Len(q)
  BY <1>1, <1>2, <1>3, ConcatProperties
<1>5. ASSUME NEW i \in 1..Len(s) + Len(q)
      PROVE  (Append(s, Head(q)) \o Tail(q))[i] = (s \o q)[i]
  <2>1. CASE i \in 1..Len(s) + 1
    BY <1>1, <1>2, <1>3, <2>1, ConcatProperties
  <2>2. CASE i \in Len(s) + 2..Len(s) + Len(q)
    BY <1>1, <1>2, <1>3, <2>2, ConcatProperties
  <2> QED
    BY <1>3, <1>5, <2>1, <2>2
<1> QED
  BY <1>4, <1>5, SeqEqual

(* A welcome appended to the inbox appears at the end of the whole. *)
LEMMA AppendToQueue ==
    ASSUME NEW S, NEW s \in Seq(S), NEW q \in Seq(S), NEW x \in S
    PROVE  s \o Append(q, x) = Append(s \o q, x)
  BY AppendIsConcat, ConcatAssociative, ConcatProperties

(* Packages added to a queue appear at the end of the whole. *)
LEMMA AddToQueue ==
    ASSUME NEW S, NEW s \in Seq(S), NEW q \in Seq(S), NEW t \in Seq(S)
    PROVE  s \o (q \o t) = (s \o q) \o t
  BY ConcatAssociative, SMTT(30)

(* No single-use key package is handed out twice or skipped by the queue of *)
(* KeyPackagesService, and claims follow the order of publication: for any  *)
(* number of users, packages, publications, claims and restarts.            *)
THEOREM ClaimsInOrder == Spec => []SingleUseInOrder
<1>1. Init => SingleUseInOrder
  BY ConcatEmptySeq, EmptySeq DEF Init, SingleUseInOrder
<1>2. TypeOK /\ SingleUseInOrder /\ [Next]_vars => SingleUseInOrder'
  <2> SUFFICES ASSUME TypeOK, SingleUseInOrder, [Next]_vars
               PROVE  SingleUseInOrder'
    OBVIOUS
  <2>0. \A u \in Users : queues[u] \in Seq(Packages) /\ claims[u] \in Seq(Packages)
    BY DEF TypeOK
  <2>1. ASSUME NEW u \in Users, NEW resort \in Packages \cup {NoPackage}, NEW n \in 0..2,
               NEW packages \in [1..n -> Packages], PublishPackages(u, packages, resort)
        PROVE  SingleUseInOrder'
    <3>1. packages \in Seq(Packages)
      BY PackagesType
    <3>2. claims \in [Users -> Seq(Packages)] /\ queues \in [Users -> Seq(Packages)]
      BY DEF TypeOK
    <3>3. claims[u] \o (queues[u] \o packages) = (claims[u] \o queues[u]) \o packages
      BY <3>1, <3>2, AddToQueue, SMTT(30)
    <3> QED
      BY <2>1, <3>3 DEF PublishPackages, SingleUseInOrder, TypeOK
  <2>2. ASSUME NEW u \in Users, Claim(u)
        PROVE  SingleUseInOrder'
    <3>1. Append(claims[u], Head(queues[u])) \o Tail(queues[u]) = claims[u] \o queues[u]
      BY <2>0, <2>2, MoveHead DEF Claim
    <3> QED
      BY <2>2, <3>1 DEF Claim, ClaimAnswer, SingleUseInOrder, TypeOK
  <2>3. CASE Restart
    BY <2>3, ConcatEmptySeq, EmptySeq DEF Restart, SingleUseInOrder
  <2>4. CASE UNCHANGED directory
    BY <2>4 DEF directory, SingleUseInOrder
  <2> QED
    BY <2>1, <2>2, <2>3, <2>4 DEF Next, Publish, Fetch, UseAnswer, Subscribe,
       Disconnect, Deposit, Take, vars
<1> QED
  BY TypeCorrect, <1>1, <1>2, PTL DEF Spec

(* The ids a running server has given are not above its counter. *)
IdsBelowCounter ==
    \A u \in Users : \A i \in 1..Len(deposited[u]) : deposited[u][i] <= counter

(* WelcomesService hands out every welcome to its user, once and in order,   *)
(* under an id that no other welcome has: for any number of users, deposits, *)
(* takes and restarts.                                                       *)
THEOREM WelcomesOnce == Spec => []WelcomeOnce
<1> DEFINE Inv == IdsBelowCounter /\ WelcomeOnce
<1>1. Init => Inv
  BY ConcatEmptySeq, EmptySeq DEF Init, IdsBelowCounter, WelcomeOnce
<1>2. TypeOK /\ Inv /\ [Next]_vars => Inv'
  <2> SUFFICES ASSUME TypeOK, Inv, [Next]_vars
               PROVE  Inv'
    OBVIOUS
  <2>0. /\ counter \in Nat
        /\ \A u \in Users : /\ inbox[u] \in Seq(Nat) /\ taken[u] \in Seq(Nat)
                            /\ deposited[u] \in Seq(Nat) /\ Len(deposited[u]) \in Nat
    BY LenProperties DEF TypeOK
  <2>1. ASSUME NEW u \in Users, Deposit(u)
        PROVE  Inv'
    <3> DEFINE id == counter + 1
    <3>0. id \in Nat /\ taken \in [Users -> Seq(Nat)] /\ inbox \in [Users -> Seq(Nat)]
      BY <2>0 DEF TypeOK
    <3>1. taken[u] \o Append(inbox[u], id) = Append(taken[u] \o inbox[u], id)
      BY <3>0, AppendToQueue
    <3>2. \A v \in Users : (taken[v] \o inbox[v] = deposited[v])'
      BY <2>1, <3>1 DEF Deposit, WelcomeOnce, TypeOK
    <3>3. /\ counter' = id
          /\ deposited' = [deposited EXCEPT ![u] = Append(@, id)]
      BY <2>1 DEF Deposit
    <3>4. /\ Len(deposited'[u]) = Len(deposited[u]) + 1
          /\ deposited'[u][Len(deposited[u]) + 1] = id
          /\ \A i \in 1..Len(deposited[u]) : deposited'[u][i] = deposited[u][i]
      BY <2>0, <3>3, AppendProperties DEF TypeOK
    <3>5. \A v \in Users : v # u => deposited'[v] = deposited[v]
      BY <3>3 DEF TypeOK
    <3>6. IdsBelowCounter'
      <4>1. \A i \in 1..Len(deposited'[u]) : deposited'[u][i] <= counter'
        BY <2>0, <3>3, <3>4 DEF IdsBelowCounter
      <4>2. \A v \in Users : v # u =>
               \A i \in 1..Len(deposited'[v]) : deposited'[v][i] <= counter'
        <5> SUFFICES ASSUME NEW v \in Users, v # u, NEW i \in 1..Len(deposited[v])
                     PROVE  deposited[v][i] <= counter + 1
          BY <3>3, <3>5
        <5>1. deposited[v][i] \in Nat /\ deposited[v][i] <= counter
          BY <2>0, ElementOfSeq DEF IdsBelowCounter
        <5> QED
          BY <2>0, <5>1
      <4> QED
        BY <4>1, <4>2 DEF IdsBelowCounter
    <3>7. ASSUME NEW v \in Users, NEW w \in Users, NEW i \in 1..Len(deposited'[v]),
                 NEW j \in 1..Len(deposited'[w]), deposited'[v][i] = deposited'[w][j]
          PROVE  v = w /\ i = j
      <4>1. /\ i \in 1..Len(deposited[v]) => deposited'[v][i] = deposited[v][i]
            /\ i \notin 1..Len(deposited[v]) => v = u /\ i = Len(deposited[u]) + 1
        BY <2>0, <3>4, <3>5, SMTT(30)
      <4>2. /\ j \in 1..Len(deposited[w]) => deposited'[w][j] = deposited[w][j]
            /\ j \notin 1..Len(deposited[w]) => w = u /\ j = Len(deposited[u]) + 1
        BY <2>0, <3>4, <3>5
      <4>3. /\ i \in 1..Len(deposited[v]) => deposited[v][i] # id
            /\ j \in 1..Len(deposited[w]) => deposited[w][j] # id
        BY <2>0 DEF IdsBelowCounter
      <4> HIDE DEF id
      <4>4. CASE i \in 1..Len(deposited[v]) /\ j \in 1..Len(deposited[w])
        BY <3>7, <4>1, <4>2, <4>4 DEF WelcomeOnce
      <4> QED
        BY <3>4, <3>7, <4>1, <4>2, <4>3, <4>4
    <3> QED
      BY <3>2, <3>6, <3>7 DEF WelcomeOnce
  <2>2. ASSUME NEW u \in Users, Take(u)
        PROVE  Inv'
    <3>1. taken[u] \o inbox[u] \in Seq(Nat)
      BY <2>0, ConcatProperties
    <3>2. (taken[u] \o inbox[u]) \o <<>> = taken[u] \o inbox[u]
      BY <3>1, ConcatEmptySeq
    <3>3. \A v \in Users : (taken[v] \o inbox[v] = deposited[v])'
      BY <2>2, <3>2 DEF Take, TakeAll, WelcomeOnce, TypeOK
    <3>4. UNCHANGED <<counter, deposited>>
      BY <2>2 DEF Take
    <3>5. IdsBelowCounter'
      BY <3>4 DEF IdsBelowCounter
    <3>6. (\A x, y \in Users : \A i \in 1..Len(deposited[x]), j \in 1..Len(deposited[y]) :
             deposited[x][i] = deposited[y][j] => x = y /\ i = j)'
      BY <3>4 DEF WelcomeOnce
    <3> QED
      BY <3>3, <3>5, <3>6 DEF WelcomeOnce
  <2>3. CASE Restart
    BY <2>3, ConcatEmptySeq, EmptySeq DEF Restart, IdsBelowCounter, WelcomeOnce
  <2>4. CASE UNCHANGED welcomes
    BY <2>4, ZenonT(60) DEF welcomes, IdsBelowCounter, WelcomeOnce
  <2> QED
    BY <2>1, <2>2, <2>3, <2>4 DEF Next, Publish, Fetch, UseAnswer, Subscribe,
       Disconnect, PublishPackages, Claim, vars
<1> QED
  BY TypeCorrect, <1>1, <1>2, PTL DEF Spec
-----------------------------------------------------------------------------
(* An answer under way was given by this incarnation or an earlier one.  If *)
(* it is of this one, then together with what its reader has used already   *)
(* it reaches from the first message to the cursor it carries.              *)
AnswersReachBack ==
    \A r \in Readers : \A a \in answers[r] :
        /\ a.of <= incarnation
        /\ a.of = incarnation /\ ~resumed[r] => 1..a.cursor \subseteq fetched[r] \cup a.seqs

(* The room has passed on every message since the subscription. *)
RoomMissesNothing ==
    \A r \in room : \A n \in subscribedAt[r]+1..Len(log) :
        \E i \in 1..Len(events[r]) : events[r][i] = n

ReaderInv == AnswersReachBack /\ RoomMissesNothing /\ CursorIsComplete

(* A reader starts with cursor zero, no answers under way and no room. *)
LEMMA ReaderInit == Init => ReaderInv
  BY DEF Init, ReaderInv, AnswersReachBack, RoomMissesNothing, CursorIsComplete

(* Publications, requests, late answers, subscriptions and restarts keep *)
(* what ReaderInv says of a reader.                                      *)
LEMMA ReaderNext == TypeInv /\ ReaderInv /\ [Next]_vars => ReaderInv'
<1> SUFFICES ASSUME TypeInv, ReaderInv, [Next]_vars
             PROVE  ReaderInv'
  OBVIOUS
<1>0. /\ log \in Seq(Entry) /\ Len(log) \in Nat /\ incarnation \in Nat
      /\ room \subseteq Readers
      /\ cursor \in [Readers -> Nat] /\ subscribedAt \in [Readers -> Nat]
      /\ answers \in [Readers -> SUBSET [seqs : SUBSET Nat, cursor : Nat, of : Nat]]
      /\ fetched \in [Readers -> SUBSET Nat] /\ resumed \in [Readers -> BOOLEAN]
      /\ events \in [Readers -> Seq(Nat)]
  BY LenProperties DEF TypeInv, TypeOK, Entry
<1>1. ASSUME NEW m \in Messages, Publish(m)
      PROVE  ReaderInv'
  <2>1. /\ AnswersReachBack' /\ CursorIsComplete'
    BY <1>1 DEF Publish, ReaderInv, AnswersReachBack, CursorIsComplete
  <2>2. Len(log') = Len(log) + 1
    BY <1>0, <1>1, PublishToType DEF Publish
  <2>3. ASSUME NEW r \in room, NEW n \in subscribedAt[r]+1..Len(log) + 1
        PROVE  \E i \in 1..Len(events'[r]) : events'[r][i] = n
    <3>1. events'[r] = Append(events[r], Len(log) + 1)
      BY <1>0, <1>1 DEF Publish
    <3>2. /\ Len(events[r]) \in Nat /\ Len(events'[r]) = Len(events[r]) + 1
          /\ events'[r][Len(events[r]) + 1] = Len(log) + 1
          /\ \A i \in 1..Len(events[r]) : events'[r][i] = events[r][i]
      BY <1>0, <3>1, AppendProperties, LenProperties
    <3>3. CASE n = Len(log) + 1
      BY <3>2, <3>3
    <3>4. CASE n # Len(log) + 1
      <4>1. n \in subscribedAt[r]+1..Len(log)
        BY <1>0, <3>4
      <4>2. PICK i \in 1..Len(events[r]) : events[r][i] = n
        BY <4>1 DEF ReaderInv, RoomMissesNothing
      <4> QED
        BY <3>2, <4>2
    <3> QED
      BY <3>3, <3>4
  <2>4. room' = room /\ subscribedAt' = subscribedAt
    BY <1>1 DEF Publish
  <2> QED
    BY <2>1, <2>2, <2>3, <2>4 DEF ReaderInv, RoomMissesNothing
<1>2. ASSUME NEW r \in Readers, Fetch(r)
      PROVE  ReaderInv'
  <2> DEFINE found == Since(log, cursor[r])
             a == [seqs |-> {log[i].seq : i \in found},
                   cursor |-> AnswerCursor(log, found, cursor[r]), of |-> incarnation]
  <2>1. /\ a.seqs = cursor[r]+1..Len(log)
        /\ a.cursor = IF cursor[r] < Len(log) THEN Len(log) ELSE cursor[r]
        /\ a.of = incarnation
    BY <1>0, AnswerIsTail DEF TypeInv
  <2>2. answers' = [answers EXCEPT ![r] = @ \cup {a}]
    BY <1>2 DEF Fetch
  <2> HIDE DEF a
  <2>3. UNCHANGED <<log, room, cursor, events, fetched, subscribedAt, resumed, incarnation>>
    BY <1>2 DEF Fetch
  <2>4. a.of <= incarnation /\ (~resumed[r] => 1..a.cursor \subseteq fetched[r] \cup a.seqs)
    BY <1>0, <2>1 DEF ReaderInv, CursorIsComplete
  <2>5. AnswersReachBack'
    BY <1>0, <2>2, <2>3, <2>4 DEF ReaderInv, AnswersReachBack
  <2> QED
    BY <2>3, <2>5 DEF ReaderInv, RoomMissesNothing, CursorIsComplete
<1>3. ASSUME NEW r \in Readers, NEW a \in answers[r], UseAnswer(r, a)
      PROVE  ReaderInv'
  <2>1. /\ answers' = [answers EXCEPT ![r] = @ \ {a}]
        /\ cursor'  = [cursor EXCEPT ![r] = a.cursor]
        /\ fetched' = [fetched EXCEPT ![r] = IF a.of = incarnation THEN @ \cup a.seqs ELSE @]
        /\ resumed' = [resumed EXCEPT ![r] = @ \/ (a.of # incarnation /\ a.cursor > 0)]
        /\ UNCHANGED <<log, room, events, subscribedAt, incarnation>>
    BY <1>3 DEF UseAnswer
  <2>2. a.cursor \in Nat
    BY <1>0
  <2>3. \A q \in Readers : /\ answers'[q] \subseteq answers[q]
                           /\ fetched[q] \subseteq fetched'[q]
                           /\ ~resumed'[q] => ~resumed[q]
    BY <1>0, <2>1
  <2>4. AnswersReachBack'
    BY <2>1, <2>3 DEF ReaderInv, AnswersReachBack
  <2>5. ~resumed'[r] => 1..cursor'[r] \subseteq fetched'[r]
    <3>1. CASE a.of = incarnation
      BY <1>0, <2>1, <3>1 DEF ReaderInv, AnswersReachBack
    <3>2. CASE a.of # incarnation
      <4>1. resumed'[r] = (resumed[r] \/ (a.of # incarnation /\ a.cursor > 0))
        BY <1>0, <2>1, Zenon
      <4>2. ~resumed'[r] => ~(a.cursor > 0)
        BY <3>2, <4>1, Zenon
      <4>3. ~(a.cursor > 0) => 1..a.cursor = {}
        BY <2>2
      <4>4. cursor'[r] = a.cursor
        BY <1>0, <2>1
      <4> QED
        BY <4>2, <4>3, <4>4
    <3> QED
      BY <3>1, <3>2
  <2>6. \A q \in Readers : q # r => UNCHANGED <<cursor[q], fetched[q], resumed[q]>>
    BY <1>0, <2>1
  <2>7. CursorIsComplete'
    BY <2>5, <2>6 DEF ReaderInv, CursorIsComplete
  <2> QED
    BY <2>1, <2>4, <2>7 DEF ReaderInv, RoomMissesNothing
<1>4. ASSUME NEW r \in Readers, Subscribe(r)
      PROVE  ReaderInv'
  BY <1>0, <1>4 DEF Subscribe, ReaderInv, AnswersReachBack, RoomMissesNothing, CursorIsComplete
<1>5. ASSUME NEW r \in Readers, Disconnect(r)
      PROVE  ReaderInv'
  BY <1>5 DEF Disconnect, ReaderInv, AnswersReachBack, RoomMissesNothing, CursorIsComplete
<1>6. CASE Restart
  <2>1. /\ incarnation' = incarnation + 1 /\ room' = {}
        /\ resumed' = [r \in Readers |-> cursor[r] > 0]
        /\ UNCHANGED <<cursor, answers>>
    BY <1>6 DEF Restart
  <2>2. \A r \in Readers : \A a \in answers[r] : a.of <= incarnation'
                                            /\ a.of # incarnation'
    BY <1>0, <2>1 DEF ReaderInv, AnswersReachBack
  <2>3. ASSUME NEW r \in Readers, ~resumed'[r]
        PROVE  1..cursor[r] = {}
    <3>1. resumed'[r] = (cursor[r] > 0)
      BY <2>1, Zenon
    <3>2. ~(cursor[r] > 0)
      BY <2>3, <3>1, Zenon
    <3> QED
      BY <1>0, <3>2
  <2> QED
    BY <2>1, <2>2, <2>3 DEF ReaderInv, AnswersReachBack, RoomMissesNothing, CursorIsComplete
<1>7. CASE UNCHANGED <<groupLog, incarnation>>
  BY <1>7 DEF groupLog, ReaderInv, AnswersReachBack, RoomMissesNothing, CursorIsComplete
<1> QED
  BY <1>1, <1>2, <1>3, <1>4, <1>5, <1>6, <1>7 DEF Next, PublishPackages, Claim, Deposit,
     Take, vars

(* ReaderInv is an invariant of the delivery service and its readers. *)
LEMMA ReaderAlways == Spec => []ReaderInv
<1>1. Spec => []TypeInv
  BY TypeInit, TypeNext, PTL DEF Spec
<1> QED
  BY <1>1, ReaderInit, ReaderNext, PTL DEF Spec

(* Polling loses nothing: every number up to a reader's cursor was in an     *)
(* answer of GroupsController.since that it used, for any interleaving of    *)
(* publications, requests and late answers, until a restart of the server.   *)
THEOREM PollingIsComplete == Spec => []CursorIsComplete
<1>1. ReaderInv => CursorIsComplete
  BY DEF ReaderInv
<1> QED
  BY <1>1, ReaderAlways, PTL

(* Subscribing before fetching leaves no gap: the events of GroupsGateway    *)
(* and the answers of GroupsController.since together cover the log.         *)
THEOREM PushAndPollLeaveNoGap == Spec => []NoGap
<1>1. TypeOK /\ ReaderInv => NoGap
  <2> SUFFICES ASSUME TypeOK, ReaderInv, NEW r \in Readers, r \in room, ~resumed[r],
                      cursor[r] >= subscribedAt[r], NEW n \in 1..Len(log)
               PROVE  n \in fetched[r] \cup {events[r][i] : i \in 1..Len(events[r])}
    BY DEF NoGap
  <2>1. cursor[r] \in Nat /\ subscribedAt[r] \in Nat /\ Len(log) \in Nat
    BY LenProperties DEF TypeOK
  <2>2. CASE n <= cursor[r]
    BY <2>1, <2>2 DEF ReaderInv, CursorIsComplete
  <2>3. CASE ~(n <= cursor[r])
    <3>1. n \in subscribedAt[r]+1..Len(log)
      BY <2>1, <2>3
    <3> QED
      BY <3>1 DEF ReaderInv, RoomMissesNothing
  <2> QED
    BY <2>2, <2>3
<1> QED
  BY <1>1, TypeCorrect, ReaderAlways, PTL

(* GroupsService never revises the order it gave: between two restarts the  *)
(* log grows at its end only, and the number of an entry is its position.   *)
THEOREM LogIsAppendOnly == Spec => LogOnlyGrows
<1> DEFINE Grows == incarnation' = incarnation =>
                      /\ Len(log') >= Len(log)
                      /\ \A i \in 1..Len(log) : log'[i] = log[i]
                      /\ \A i \in 1..Len(log') : log'[i].seq = i
<1>1. Spec => []TypeInv
  BY TypeInit, TypeNext, PTL DEF Spec
<1>2. TypeInv /\ TypeInv' /\ [Next]_vars => [Grows]_vars
  <2> SUFFICES ASSUME TypeInv, TypeInv', [Next]_vars
               PROVE  [Grows]_vars
    OBVIOUS
  <2>0. log \in Seq(Entry) /\ Len(log) \in Nat /\ incarnation \in Nat
    BY LenProperties DEF TypeInv, TypeOK, Entry
  <2>1. ASSUME NEW m \in Messages, Publish(m)
        PROVE  Grows
    <3>1. log' = PublishTo(log, m)
      BY <2>1 DEF Publish
    <3>2. Len(log') = Len(log) + 1 /\ \A i \in 1..Len(log) : log'[i] = log[i]
      BY <2>0, <3>1, PublishToType
    <3> QED
      BY <2>0, <3>2 DEF TypeInv, LogNumbered
  <2>2. CASE Restart
    BY <2>0, <2>2 DEF Restart
  <2>3. CASE UNCHANGED log
    BY <2>0, <2>3 DEF TypeInv, LogNumbered
  <2>4. CASE UNCHANGED vars
    BY <2>4
  <2> HIDE DEF Grows
  <2> QED
    BY <2>1, <2>2, <2>3, <2>4 DEF Next, PublishPackages, Claim, Fetch, UseAnswer, Subscribe,
       Disconnect, Deposit, Take, groupLog
<1> QED
  BY <1>1, <1>2, PTL DEF Spec, LogOnlyGrows
=============================================================================
