---------------------------- MODULE BridgeProofs ----------------------------
(***************************************************************************)
(* Proofs about Bridge, for any set of ids and any number of requests and  *)
(* sessions: the bridge implements remote calls, whatever the app does and *)
(* whatever is lost, and saved changes are kept for an app that awaits     *)
(* ready() and opens every id once per session.                            *)
(***************************************************************************)
EXTENDS Bridge, SequenceTheorems, FiniteSetTheorems, TLAPS

Methods == {"new", "open", "change", "save", "snapshot", "restore"}
Calls == 1..MaxCalls
Request == [id : Calls, method : Methods, client : Ids, handle : Nat, stored : Stores,
            acked : SUBSET Calls]
Answer == [id : 0..MaxCalls, result : Results]
ClientSet == [id : Ids, persistent : BOOLEAN, changes : SUBSET (0..MaxCalls)]
Write == [stored : Stores, acked : SUBSET Calls]
-----------------------------------------------------------------------------
(* The inductive invariant of the refinement.                               *)

Types ==
    /\ toHost \in Seq(Request) /\ toApp \in Seq(Answer)
    /\ clients \in Seq(ClientSet) /\ store \in Stores
    /\ disk \in Stores /\ writes \in Seq(Write)
    /\ handles \subseteq Nat
    /\ \A c \in DOMAIN pending : pending[c] \in Request /\ pending[c].id = c

(* Requests are numbered from 1 without a gap. *)
Numbered ==
    /\ IsFiniteSet(issued) /\ Cardinality(issued) \in 0..MaxCalls
    /\ issued = 1..Cardinality(issued)
    /\ DOMAIN settled \subseteq DOMAIN outcome /\ DOMAIN outcome \subseteq issued

(* A request on its way has not been executed, and is there once. *)
OnTheWay ==
    /\ \A i \in 1..Len(toHost) : toHost[i].id \in issued \ DOMAIN outcome
    /\ \A i, j \in 1..Len(toHost) : toHost[i].id = toHost[j].id => i = j

(* An answer on its way is the outcome of its request, whose promise has    *)
(* not settled, and is there once.                                          *)
Answered ==
    /\ \A i \in 1..Len(toApp) : toApp[i].id # 0 =>
         /\ toApp[i].id \in DOMAIN outcome \ DOMAIN settled
         /\ toApp[i].result = outcome[toApp[i].id]
    /\ \A i, j \in 1..Len(toApp) : toApp[i].id # 0 /\ toApp[i].id = toApp[j].id => i = j

(* There are no more handles than requests. *)
HandlesBounded == Len(clients) + Len(toHost) <= Cardinality(issued)

RpcInv == Types /\ Numbered /\ OnTheWay /\ Answered /\ HandlesBounded
-----------------------------------------------------------------------------
(* Among finitely many handles there is a last one. *)
LEMMA Greatest ==
    ASSUME NEW S \in SUBSET Nat, IsFiniteSet(S), S # {}
    PROVE  \E i \in S : \A j \in S : j <= i
<1> DEFINE upTo(i) == {k \in S : k <= i}
           T == 1..Cardinality(S)
           f == [i \in S |-> Cardinality(upTo(i))]
<1>1. Cardinality(S) \in Nat /\ Cardinality(S) # 0
  BY FS_CardinalityType, FS_EmptySet
<1>2. ASSUME NEW i \in S
      PROVE  IsFiniteSet(upTo(i)) /\ Cardinality(upTo(i)) \in T
  <2>1. IsFiniteSet(upTo(i)) /\ Cardinality(upTo(i)) <= Cardinality(S)
    <3>1. upTo(i) \in SUBSET S
      OBVIOUS
    <3> QED
      BY <3>1, FS_Subset
  <2>2. i \in upTo(i)
    OBVIOUS
  <2>3. Cardinality(upTo(i)) \in Nat /\ Cardinality(upTo(i)) # 0
    BY <2>1, <2>2, FS_CardinalityType, FS_EmptySet
  <2> QED
    BY <1>1, <2>1, <2>3
<1>3. ASSUME NEW i \in S, NEW j \in S, i < j
      PROVE  Cardinality(upTo(i)) # Cardinality(upTo(j))
  <2>1. \A k \in S : k <= i => k <= j
    BY <1>3
  <2>2. upTo(i) \in SUBSET upTo(j)
    BY <2>1
  <2>3. j \in upTo(j) /\ j \notin upTo(i)
    BY <1>3
  <2>4. IsFiniteSet(upTo(j)) /\ upTo(i) # upTo(j)
    BY <1>2, <2>3
  <2> HIDE DEF upTo
  <2> QED
    BY <2>2, <2>4, FS_Subset
<1>4. \A i, j \in S : Cardinality(upTo(i)) = Cardinality(upTo(j)) => i = j
  <2> SUFFICES ASSUME NEW i \in S, NEW j \in S, i # j
               PROVE  Cardinality(upTo(i)) # Cardinality(upTo(j))
    OBVIOUS
  <2>1. i < j \/ j < i
    OBVIOUS
  <2> HIDE DEF upTo
  <2> QED
    BY <1>3, <2>1
<1>5. f \in Injection(S, T)
  BY <1>2, <1>4 DEF Injection, IsInjective
<1>6. IsFiniteSet(T) /\ Cardinality(T) = Cardinality(S) /\ Cardinality(S) \in T
  BY <1>1, FS_Interval
<1> HIDE DEF T
<1>7. f \in Surjection(S, T)
  BY <1>5, <1>6, FS_Injection
<1>8. PICK i \in S : f[i] = Cardinality(S)
  BY <1>6, <1>7 DEF Surjection
<1>9. upTo(i) \in SUBSET S /\ Cardinality(upTo(i)) = Cardinality(S)
  BY <1>8
<1>10. upTo(i) = S
  <2> HIDE DEF upTo
  <2> QED
    BY <1>9, FS_Subset
<1> QED
  BY <1>10

(* What Extend does to a function. *)
LEMMA ExtendProperties ==
    ASSUME NEW f, NEW c, NEW v
    PROVE  /\ DOMAIN Extend(f, c, v) = DOMAIN f \cup {c}
           /\ Extend(f, c, v)[c] = v
           /\ \A x \in DOMAIN f : x # c => Extend(f, c, v)[x] = f[x]
  BY DEF Extend

(* The stores and results that the model is about. *)
LEMMA StoreTypes ==
    /\ EmptyStore \in Stores
    /\ Error \in Results /\ Done \in Results
    /\ AnyId \in Ids
    /\ MaxCalls \in Nat
<1>1. MaxCalls \in Nat /\ Ids # {}
  BY BridgeConstants
<1>2. EmptyStore \in Stores
  BY <1>1 DEF EmptyStore, Stores, Absent
<1>3. AnyId \in Ids
  BY <1>1 DEF AnyId
<1> QED
  BY <1>1, <1>2, <1>3 DEF Error, Done, Result, Results

(* Taking the first of a sequence off. *)
LEMMA TailProperties ==
    ASSUME NEW S, NEW s \in Seq(S), s # <<>>
    PROVE  /\ Head(s) \in S /\ Head(s) = s[1] /\ 1 \in 1..Len(s) /\ Len(s) \in Nat
           /\ Tail(s) \in Seq(S) /\ Len(Tail(s)) = Len(s) - 1 /\ Len(Tail(s)) \in Nat
           /\ \A i \in 1..Len(Tail(s)) : i + 1 \in 1..Len(s) /\ Tail(s)[i] = s[i + 1]
<1>1. Len(s) \in Nat \ {0}
  BY EmptySeq
<1>2. /\ Head(s) \in S /\ Tail(s) \in Seq(S) /\ Len(Tail(s)) = Len(s) - 1
      /\ \A i \in 1..Len(Tail(s)) : Tail(s)[i] = s[i + 1]
  BY HeadTailProperties
<1>3. \A i \in 1..(Len(s) - 1) : i + 1 \in 1..Len(s)
  BY <1>1
<1>4. Len(Tail(s)) \in Nat
  BY <1>1, <1>2
<1>5. Head(s) = s[1] /\ 1 \in 1..Len(s)
  BY <1>1
<1> QED
  BY <1>1, <1>2, <1>3, <1>4, <1>5

(* Putting one behind a sequence. *)
LEMMA AppendLast ==
    ASSUME NEW S, NEW s \in Seq(S), NEW x \in S
    PROVE  /\ Append(s, x) \in Seq(S) /\ Len(s) \in Nat /\ Len(Append(s, x)) = Len(s) + 1
           /\ \A i \in 1..Len(s) : Append(s, x)[i] = s[i]
           /\ Append(s, x)[Len(s) + 1] = x
           /\ \A i \in 1..Len(Append(s, x)) : i \in 1..Len(s) \/ i = Len(s) + 1
<1>1. Len(s) \in Nat
  BY LenProperties
<1>2. /\ Append(s, x) \in Seq(S) /\ Len(Append(s, x)) = Len(s) + 1
      /\ \A i \in 1..Len(s) : Append(s, x)[i] = s[i]
      /\ Append(s, x)[Len(s) + 1] = x
  BY <1>1, AppendProperties
<1>3. \A i \in 1..(Len(s) + 1) : i \in 1..Len(s) \/ i = Len(s) + 1
  BY <1>1
<1> QED
  BY <1>1, <1>2, <1>3
-----------------------------------------------------------------------------
(* Bridge.request.                                                          *)

NewRequest(method, client, handle, stored, acked) ==
    [id |-> NextCall, method |-> method, client |-> client, handle |-> handle,
     stored |-> stored, acked |-> acked]

(* A request gets the next number and is put behind the ones on their way,  *)
(* or nowhere while there is no WebView.                                    *)
LEMMA RequestFacts ==
    ASSUME RpcInv, NEW method \in Methods, NEW client \in Ids, NEW handle \in Nat,
           NEW stored \in Stores, NEW acked \in SUBSET Calls,
           RequestSent(method, client, handle, stored, acked)
    PROVE  LET req == NewRequest(method, client, handle, stored, acked) IN
           /\ req \in Request /\ req.id = NextCall /\ NextCall \in Calls \ issued
           /\ issued' = issued \cup {NextCall}
           /\ pending' = Extend(pending, NextCall, req)
           /\ toHost' = IF page = "unmounted" THEN toHost ELSE Append(toHost, req)
           /\ Cardinality(issued') = Cardinality(issued) + 1
           /\ Cardinality(issued) \in Nat
           /\ IsFiniteSet(issued') /\ Cardinality(issued') \in 0..MaxCalls
           /\ issued' = 1..Cardinality(issued')
<1> DEFINE req == NewRequest(method, client, handle, stored, acked)
           n == Cardinality(issued)
<1>1. /\ NextCall <= IF awaits THEN MaxCalls ELSE MaxEager
      /\ issued' = issued \cup {NextCall}
      /\ pending' = Extend(pending, NextCall, req)
      /\ toHost' = IF page = "unmounted" THEN toHost ELSE Append(toHost, req)
  BY DEF RequestSent, NewRequest
<1>2. MaxCalls \in Nat /\ MaxEager \in Nat /\ MaxEager <= MaxCalls
  BY BridgeConstants
<1>3. IsFiniteSet(issued) /\ n \in Nat /\ issued = 1..n /\ NextCall = n + 1
  BY <1>2 DEF RpcInv, Numbered, NextCall
<1>4. NextCall <= MaxCalls
  <2>1. CASE awaits
    BY <1>1, <2>1
  <2>2. CASE ~awaits
    BY <1>1, <1>2, <1>3, <2>2
  <2> QED
    BY <2>1, <2>2
<1>5. NextCall \in Calls \ issued
  <2>1. NextCall \in Calls
    BY <1>2, <1>3, <1>4 DEF Calls
  <2>2. NextCall \notin 1..n
    BY <1>3
  <2> QED
    BY <1>3, <2>1, <2>2
<1>6. req \in Request /\ req.id = NextCall
  BY <1>5 DEF NewRequest, Request
<1>7. Cardinality(issued') = n + 1 /\ IsFiniteSet(issued')
  BY <1>1, <1>3, <1>5, FS_AddElement
<1>8. issued' = 1..(n + 1)
  <2>1. 1..(n + 1) = 1..n \cup {n + 1}
    BY <1>3
  <2> QED
    BY <1>1, <1>3, <2>1
<1>9. n + 1 \in 0..MaxCalls
  BY <1>2, <1>3, <1>4
<1> HIDE DEF req
<1> QED
  BY <1>1, <1>3, <1>5, <1>6, <1>7, <1>8, <1>9 DEF req

(* Issuing keeps the invariant and issues a call of the abstract one. *)
LEMMA RequestStep ==
    ASSUME RpcInv, NEW method \in Methods, NEW client \in Ids, NEW handle \in Nat,
           NEW stored \in Stores, NEW acked \in SUBSET Calls,
           RequestSent(method, client, handle, stored, acked),
           UNCHANGED <<toApp, hostVars, disk, writes, handles, outcome, settled>>
    PROVE  RpcInv' /\ R!RpcNext
<1> DEFINE req == NewRequest(method, client, handle, stored, acked)
           n == Cardinality(issued)
<1>1. /\ req \in Request /\ req.id = NextCall /\ NextCall \in Calls \ issued
      /\ issued' = issued \cup {NextCall}
      /\ pending' = Extend(pending, NextCall, req)
      /\ toHost' = IF page = "unmounted" THEN toHost ELSE Append(toHost, req)
      /\ Cardinality(issued') = n + 1 /\ n \in Nat
      /\ IsFiniteSet(issued') /\ Cardinality(issued') \in 0..MaxCalls
      /\ issued' = 1..Cardinality(issued')
  BY RequestFacts
<1> HIDE DEF req
<1>2. UNCHANGED <<toApp, clients, store, disk, writes, handles, outcome, settled>>
  BY DEF hostVars
<1>3. toHost \in Seq(Request) /\ Len(toHost) \in Nat /\ Len(clients) \in Nat
  BY LenProperties DEF RpcInv, Types
<1>4. Numbered'
  BY <1>1, <1>2 DEF RpcInv, Numbered
<1>5. NextCall \notin DOMAIN outcome
  BY <1>1 DEF RpcInv, Numbered
<1>6. \A c \in DOMAIN pending' : pending'[c] \in Request /\ pending'[c].id = c
  <2>1. /\ DOMAIN pending' = DOMAIN pending \cup {NextCall} /\ pending'[NextCall] = req
        /\ \A c \in DOMAIN pending : c # NextCall => pending'[c] = pending[c]
    BY <1>1 DEF Extend
  <2> QED
    BY <1>1, <2>1 DEF RpcInv, Types
<1>7. Answered'
  BY <1>2 DEF RpcInv, Answered
<1>8. toHost' \in Seq(Request) /\ OnTheWay' /\ HandlesBounded'
  <2>1. CASE page = "unmounted"
    <3>1. toHost' = toHost
      BY <1>1, <2>1
    <3> QED
      BY <1>1, <1>2, <1>3, <3>1 DEF RpcInv, Types, OnTheWay, HandlesBounded
  <2>2. CASE page # "unmounted"
    <3>1. toHost' = Append(toHost, req)
      BY <1>1, <2>2
    <3>2. /\ toHost' \in Seq(Request) /\ Len(toHost') = Len(toHost) + 1
          /\ \A i \in 1..Len(toHost) : toHost'[i] = toHost[i]
          /\ toHost'[Len(toHost) + 1] = req
          /\ \A i \in 1..Len(toHost') : i \in 1..Len(toHost) \/ i = Len(toHost) + 1
      BY <1>1, <1>3, <3>1, AppendLast
    <3>3. \A i \in 1..Len(toHost) : toHost'[i].id \in issued \ DOMAIN outcome /\ toHost'[i].id # NextCall
      BY <1>1, <3>2 DEF RpcInv, OnTheWay
    <3>4. \A i \in 1..Len(toHost') : toHost'[i].id \in issued' \ DOMAIN outcome'
      BY <1>1, <1>2, <1>5, <3>2, <3>3
    <3>5. \A i, j \in 1..Len(toHost') : toHost'[i].id = toHost'[j].id => i = j
      BY <1>1, <3>2, <3>3 DEF RpcInv, OnTheWay
    <3>6. HandlesBounded'
      BY <1>1, <1>2, <1>3, <3>2 DEF RpcInv, HandlesBounded
    <3> QED
      BY <3>2, <3>4, <3>5, <3>6 DEF OnTheWay
  <2> QED
    BY <2>1, <2>2
<1>9. Types'
  BY <1>2, <1>6, <1>8 DEF RpcInv, Types
<1>10. R!Issue(NextCall)
  BY <1>1, <1>2 DEF R!Issue
<1>11. R!RpcNext
  BY <1>1, <1>10 DEF R!RpcNext, Calls
<1> QED
  BY <1>4, <1>7, <1>8, <1>9, <1>11 DEF RpcInv
-----------------------------------------------------------------------------
(* The host.                                                                *)

(* What a snapshot holds is a store. *)
LEMMA FlushedType ==
    ASSUME clients \in Seq(ClientSet), store \in Stores
    PROVE  Flushed \in Stores
<1> DEFINE of(i) == {h \in DOMAIN clients : clients[h].persistent /\ clients[h].id = i}
           last(i) == CHOOSE h \in of(i) : \A k \in of(i) : k <= h
<1>1. Len(clients) \in Nat /\ DOMAIN clients = 1..Len(clients)
      /\ \A h \in 1..Len(clients) : clients[h] \in ClientSet
  BY LenProperties, ElementOfSeq
<1>2. ASSUME NEW i \in Ids, of(i) # {} PROVE clients[last(i)].changes \in SUBSET (0..MaxCalls)
  <2>1. of(i) \in SUBSET (1..Len(clients)) /\ of(i) \in SUBSET Nat
    BY <1>1
  <2>2. IsFiniteSet(of(i))
    <3>1. IsFiniteSet(1..Len(clients))
      BY <1>1, FS_Interval
    <3> HIDE DEF of
    <3> QED
      BY <2>1, <3>1, FS_Subset
  <2> HIDE DEF of
  <2>3. last(i) \in of(i)
    BY <1>2, <2>1, <2>2, Greatest
  <2> HIDE DEF last
  <2> QED
    BY <1>1, <2>1, <2>3 DEF ClientSet
<1>3. Flushed = [i \in Ids |-> IF of(i) = {} THEN store[i] ELSE clients[last(i)].changes]
  BY DEF Flushed
<1> HIDE DEF of, last
<1> QED
  BY <1>2, <1>3 DEF Stores

(* Executing a request records one outcome, makes at most one client, and   *)
(* keeps the types.                                                         *)
LEMMA DispatchFacts ==
    ASSUME clients \in Seq(ClientSet), store \in Stores, NEW req \in Request, Dispatch(req),
           Len(clients) + 1 <= MaxCalls
    PROVE  /\ clients' \in Seq(ClientSet) /\ store' \in Stores
           /\ Len(clients') \in Nat /\ Len(clients') <= Len(clients) + 1
           /\ \E r \in Results : outcome' = Extend(outcome, req.id, r)
<1>0. /\ req.client \in Ids /\ req.stored \in Stores /\ req.id \in Calls /\ MaxCalls \in Nat
      /\ Error \in Results /\ Done \in Results /\ EmptyStore \in Stores
  BY StoreTypes DEF Request
<1>1. /\ Len(clients) \in Nat /\ DOMAIN clients = 1..Len(clients)
      /\ \A h \in 1..Len(clients) : clients[h] \in ClientSet
  BY LenProperties, ElementOfSeq
<1>3. ASSUME NEW persistent \in BOOLEAN, Create(req, persistent)
      PROVE  /\ clients' \in Seq(ClientSet) /\ store' \in Stores
             /\ Len(clients') \in Nat /\ Len(clients') <= Len(clients) + 1
             /\ \E r \in Results : outcome' = Extend(outcome, req.id, r)
  <2>1. CASE page # "ready"
    <3>1. clients' = clients /\ store' = store /\ outcome' = Extend(outcome, req.id, Error)
      BY <1>3, <2>1 DEF Create, hostVars
    <3> QED
      BY <1>0, <1>1, <3>1
  <2>2. CASE page = "ready"
    <3> DEFINE found == persistent /\ store[req.client] # Absent
               new == Client(req.client, persistent, IF found THEN store[req.client] ELSE {})
               r == Result(TRUE, Len(clients) + 1, EmptyStore)
    <3>1. /\ clients' = Append(clients, new)
          /\ store' = IF persistent /\ ~found THEN [store EXCEPT ![req.client] = {}] ELSE store
          /\ outcome' = Extend(outcome, req.id, r)
      BY <1>3, <2>2 DEF Create
    <3>2. new \in ClientSet
      BY <1>0 DEF Client, ClientSet, Stores
    <3>3. store' \in Stores
      BY <1>0, <3>1 DEF Stores
    <3>4. r \in Results
      BY <1>0, <1>1 DEF Result, Results
    <3> HIDE DEF new, r
    <3>5. clients' \in Seq(ClientSet) /\ Len(clients') = Len(clients) + 1
      BY <3>1, <3>2, AppendLast
    <3> QED
      BY <1>1, <3>1, <3>3, <3>4, <3>5
  <2> QED
    BY <2>1, <2>2
<1>4. ASSUME Apply(req)
      PROVE  /\ clients' \in Seq(ClientSet) /\ store' \in Stores
             /\ Len(clients') \in Nat /\ Len(clients') <= Len(clients) + 1
             /\ \E r \in Results : outcome' = Extend(outcome, req.id, r)
  <2>1. CASE UNCHANGED hostVars /\ outcome' = Extend(outcome, req.id, Error)
    <3>1. clients' = clients /\ store' = store /\ outcome' = Extend(outcome, req.id, Error)
      BY <2>1 DEF hostVars
    <3> QED
      BY <1>0, <1>1, <3>1
  <2>2. CASE /\ req.handle \in DOMAIN clients
             /\ clients' = [clients EXCEPT ![req.handle].changes = @ \cup {req.id}]
             /\ UNCHANGED store
             /\ \E r \in {Done, Error} : outcome' = Extend(outcome, req.id, r)
    <3> DEFINE h == req.handle
               new == [clients[h] EXCEPT !.changes = @ \cup {req.id}]
    <3>1. /\ clients' = [clients EXCEPT ![h].changes = @ \cup {req.id}]
          /\ store' = store
          /\ \E r \in {Done, Error} : outcome' = Extend(outcome, req.id, r)
      BY <2>2
    <3>2. h \in 1..Len(clients) /\ clients[h] \in ClientSet
      BY <1>1, <2>2
    <3>3. new \in ClientSet
      BY <1>0, <3>2 DEF ClientSet, Calls
    <3>4. clients' = [clients EXCEPT ![h] = new]
      BY <3>1
    <3> HIDE DEF new
    <3>5. clients' \in Seq(ClientSet) /\ Len(clients') = Len(clients)
      BY <3>2, <3>3, <3>4, ExceptSeq
    <3> QED
      BY <1>0, <1>1, <3>1, <3>5
  <2> QED
    BY <1>4, <2>1, <2>2 DEF Apply
<1>5. ASSUME SaveClient(req)
      PROVE  /\ clients' \in Seq(ClientSet) /\ store' \in Stores
             /\ Len(clients') \in Nat /\ Len(clients') <= Len(clients) + 1
             /\ \E r \in Results : outcome' = Extend(outcome, req.id, r)
  <2>1. CASE req.handle \notin DOMAIN clients
    <3>1. clients' = clients /\ store' = store /\ outcome' = Extend(outcome, req.id, Error)
      BY <1>5, <2>1 DEF SaveClient, hostVars
    <3> QED
      BY <1>0, <1>1, <3>1
  <2>2. CASE req.handle \in DOMAIN clients
    <3> DEFINE c == clients[req.handle]
    <3>1. /\ store' = IF c.persistent THEN [store EXCEPT ![c.id] = c.changes] ELSE store
          /\ clients' = clients /\ outcome' = Extend(outcome, req.id, Done)
      BY <1>5, <2>2 DEF SaveClient
    <3>2. c \in ClientSet
      BY <1>1, <2>2
    <3> HIDE DEF c
    <3>3. store' \in Stores
      BY <3>1, <3>2 DEF Stores, ClientSet
    <3> QED
      BY <1>0, <1>1, <3>1, <3>3
  <2> QED
    BY <2>1, <2>2
<1>6. ASSUME TakeSnapshot(req)
      PROVE  /\ clients' \in Seq(ClientSet) /\ store' \in Stores
             /\ Len(clients') \in Nat /\ Len(clients') <= Len(clients) + 1
             /\ \E r \in Results : outcome' = Extend(outcome, req.id, r)
  <2>1. Flushed \in Stores
    BY FlushedType
  <2>2. Result(TRUE, 0, Flushed) \in Results
    BY <1>0, <2>1 DEF Result, Results
  <2>3. /\ clients' = clients /\ store' = Flushed
        /\ outcome' = Extend(outcome, req.id, Result(TRUE, 0, Flushed))
    BY <1>6 DEF TakeSnapshot
  <2>4. \E r \in Results : outcome' = Extend(outcome, req.id, r)
    BY <2>2, <2>3
  <2>5. Len(clients) <= Len(clients) + 1
    BY <1>1
  <2> QED
    BY <1>1, <2>1, <2>3, <2>4, <2>5
<1>7. ASSUME Restore(req)
      PROVE  /\ clients' \in Seq(ClientSet) /\ store' \in Stores
             /\ Len(clients') \in Nat /\ Len(clients') <= Len(clients) + 1
             /\ \E r \in Results : outcome' = Extend(outcome, req.id, r)
  BY <1>0, <1>1, <1>7 DEF Restore
<1> QED
  BY <1>3, <1>4, <1>5, <1>6, <1>7 DEF Dispatch

(* A request is lost, or it is executed for the first time. *)
LEMMA HostStep ==
    ASSUME RpcInv, HostReceives
    PROVE  RpcInv' /\ (R!RpcNext \/ UNCHANGED R!rpcVars)
<1> DEFINE req == Head(toHost)
           msg == [id |-> req.id, result |-> outcome'[req.id]]
<1>1. /\ toHost # <<>> /\ toHost' = Tail(toHost)
      /\ UNCHANGED <<disk, writes, handles, pending, issued, settled>>
      /\ \/ page = "loading" /\ UNCHANGED <<toApp, clients, store, outcome>>
         \/ page # "loading" /\ Dispatch(req) /\ toApp' = Append(toApp, msg)
  BY DEF HostReceives, hostVars, appVars
<1>2. /\ toHost \in Seq(Request) /\ toApp \in Seq(Answer) /\ clients \in Seq(ClientSet)
      /\ Len(toApp) \in Nat /\ Len(clients) \in Nat
  BY LenProperties DEF RpcInv, Types
<1>3. /\ req \in Request /\ req = toHost[1] /\ 1 \in 1..Len(toHost) /\ Len(toHost) \in Nat
      /\ toHost' \in Seq(Request) /\ Len(toHost') = Len(toHost) - 1 /\ Len(toHost') \in Nat
      /\ \A i \in 1..Len(toHost') : i + 1 \in 1..Len(toHost) /\ toHost'[i] = toHost[i + 1]
  BY <1>1, <1>2, TailProperties
<1> HIDE DEF req
<1>4. req.id \in issued \ DOMAIN outcome /\ req.id \in Calls
  BY <1>3 DEF RpcInv, OnTheWay, Request
<1>5. \A i, j \in 1..Len(toHost') : toHost'[i].id = toHost'[j].id => i = j
  <2> SUFFICES ASSUME NEW i \in 1..Len(toHost'), NEW j \in 1..Len(toHost'),
                      toHost'[i].id = toHost'[j].id
               PROVE  i = j
    OBVIOUS
  <2>1. toHost[i + 1].id = toHost[j + 1].id /\ i + 1 \in 1..Len(toHost) /\ j + 1 \in 1..Len(toHost)
    BY <1>3
  <2>2. i + 1 = j + 1
    BY <2>1 DEF RpcInv, OnTheWay
  <2> QED
    BY <1>3, <2>2
<1>6. \A i \in 1..Len(toHost') : toHost'[i].id \in issued \ DOMAIN outcome /\ toHost'[i].id # req.id
  <2> SUFFICES ASSUME NEW i \in 1..Len(toHost')
               PROVE  toHost'[i].id \in issued \ DOMAIN outcome /\ toHost'[i].id # req.id
    OBVIOUS
  <2>1. i + 1 # 1
    BY <1>3
  <2> QED
    BY <1>3, <2>1 DEF RpcInv, OnTheWay
<1>7. Cardinality(issued) \in Nat /\ Len(clients) + Len(toHost) <= Cardinality(issued)
      /\ Cardinality(issued) <= MaxCalls /\ MaxCalls \in Nat
  BY BridgeConstants DEF RpcInv, HandlesBounded, Numbered
<1>8. CASE page = "loading"
  <2>1. UNCHANGED <<toApp, clients, store, outcome>>
    BY <1>1, <1>8
  <2>2. Types' /\ Numbered' /\ Answered'
    BY <1>1, <1>3, <2>1 DEF RpcInv, Types, Numbered, Answered
  <2>3. OnTheWay'
    BY <1>1, <1>5, <1>6, <2>1 DEF OnTheWay
  <2>4. HandlesBounded'
    BY <1>1, <1>2, <1>3, <1>7, <2>1 DEF HandlesBounded
  <2> QED
    BY <1>1, <2>1, <2>2, <2>3, <2>4 DEF RpcInv, R!rpcVars
<1>9. CASE page # "loading"
  <2>1. Dispatch(req) /\ toApp' = Append(toApp, msg)
    BY <1>1, <1>9
  <2>2. Len(clients) + 1 <= MaxCalls
    BY <1>2, <1>3, <1>7
  <2>3. /\ clients' \in Seq(ClientSet) /\ store' \in Stores
        /\ Len(clients') \in Nat /\ Len(clients') <= Len(clients) + 1
        /\ \E r \in Results : outcome' = Extend(outcome, req.id, r)
    BY <1>2, <1>3, <2>1, <2>2, DispatchFacts DEF RpcInv, Types
  <2>4. PICK r \in Results : outcome' = Extend(outcome, req.id, r)
    BY <2>3
  <2>5. /\ DOMAIN outcome' = DOMAIN outcome \cup {req.id} /\ outcome'[req.id] = r
        /\ \A x \in DOMAIN outcome : outcome'[x] = outcome[x]
    BY <1>4, <2>4 DEF Extend
  <2>6. msg \in Answer /\ msg.id = req.id /\ msg.result = r
    BY <1>4, <2>5 DEF Answer, Calls
  <2> HIDE DEF msg
  <2>7. /\ toApp' \in Seq(Answer) /\ Len(toApp') = Len(toApp) + 1
        /\ \A i \in 1..Len(toApp) : toApp'[i] = toApp[i]
        /\ toApp'[Len(toApp) + 1] = msg
        /\ \A i \in 1..Len(toApp') : i \in 1..Len(toApp) \/ i = Len(toApp) + 1
    BY <1>2, <2>1, <2>6, AppendLast
  <2>8. Types'
    BY <1>1, <1>3, <2>3, <2>7 DEF RpcInv, Types
  <2>9. Numbered'
    BY <1>1, <1>4, <2>5 DEF RpcInv, Numbered
  <2>10. OnTheWay'
    BY <1>1, <1>5, <1>6, <2>5 DEF OnTheWay
  <2>11. \A i \in 1..Len(toApp) : toApp[i].id # 0 =>
           toApp[i].id \in DOMAIN outcome \ DOMAIN settled /\ toApp[i].id # req.id
           /\ toApp[i].result = outcome'[toApp[i].id]
    BY <1>4, <2>5 DEF RpcInv, Answered
  <2>12. req.id \notin DOMAIN settled
    BY <1>4 DEF RpcInv, Numbered
  <2>13. \A i \in 1..Len(toApp') : toApp'[i].id # 0 =>
           toApp'[i].id \in DOMAIN outcome' \ DOMAIN settled'
           /\ toApp'[i].result = outcome'[toApp'[i].id]
    BY <1>1, <2>5, <2>6, <2>7, <2>11, <2>12
  <2>14. \A i, j \in 1..Len(toApp') : toApp'[i].id # 0 /\ toApp'[i].id = toApp'[j].id => i = j
    BY <2>6, <2>7, <2>11 DEF RpcInv, Answered
  <2>15. HandlesBounded'
    BY <1>1, <1>2, <1>3, <1>7, <2>3 DEF HandlesBounded
  <2>16. R!Execute(req.id)
    BY <1>1, <1>4, <2>5 DEF R!Execute
  <2>17. R!RpcNext
    BY <1>4, <2>16 DEF R!RpcNext, Calls
  <2> QED
    BY <2>8, <2>9, <2>10, <2>13, <2>14, <2>15, <2>17 DEF RpcInv, Answered
<1> QED
  BY <1>8, <1>9
-----------------------------------------------------------------------------
(* Bridge.handleMessage.                                                    *)

(* A ready message settles nothing; an answer settles its own request, with *)
(* the outcome of its execution, for the first time.                        *)
LEMMA HandleStep ==
    ASSUME RpcInv, HandleMessage
    PROVE  RpcInv' /\ (R!RpcNext \/ UNCHANGED R!rpcVars)
<1> DEFINE m == Head(toApp)
<1>1. /\ toApp # <<>> /\ toApp' = Tail(toApp)
      /\ HandleReady(m) \/ HandleAnswer(m)
      /\ UNCHANGED <<toHost, clients, store, disk, issued, outcome>>
  BY DEF HandleMessage, hostVars
<1>2. /\ toHost \in Seq(Request) /\ toApp \in Seq(Answer) /\ clients \in Seq(ClientSet)
      /\ writes \in Seq(Write) /\ handles \subseteq Nat
  BY DEF RpcInv, Types
<1>3. /\ m \in Answer /\ m = toApp[1] /\ 1 \in 1..Len(toApp) /\ Len(toApp) \in Nat
      /\ toApp' \in Seq(Answer) /\ Len(toApp') \in Nat
      /\ \A i \in 1..Len(toApp') : i + 1 \in 1..Len(toApp) /\ toApp'[i] = toApp[i + 1]
  BY <1>1, <1>2, TailProperties
<1> HIDE DEF m
<1>4. OnTheWay' /\ HandlesBounded'
  BY <1>1 DEF RpcInv, OnTheWay, HandlesBounded
<1>5. \A i \in 1..Len(toApp') : toApp'[i].id # 0 =>
         /\ toApp'[i].id \in DOMAIN outcome \ DOMAIN settled /\ toApp'[i].id # m.id
         /\ toApp'[i].result = outcome[toApp'[i].id]
  <2> SUFFICES ASSUME NEW i \in 1..Len(toApp'), toApp'[i].id # 0
               PROVE  /\ toApp'[i].id \in DOMAIN outcome \ DOMAIN settled /\ toApp'[i].id # m.id
                      /\ toApp'[i].result = outcome[toApp'[i].id]
    OBVIOUS
  <2>1. i + 1 # 1
    BY <1>3
  <2> QED
    BY <1>3, <2>1 DEF RpcInv, Answered
<1>6. \A i, j \in 1..Len(toApp') : toApp'[i].id # 0 /\ toApp'[i].id = toApp'[j].id => i = j
  <2> SUFFICES ASSUME NEW i \in 1..Len(toApp'), NEW j \in 1..Len(toApp'),
                      toApp'[i].id # 0, toApp'[i].id = toApp'[j].id
               PROVE  i = j
    OBVIOUS
  <2>1. /\ toApp[i + 1].id # 0 /\ toApp[i + 1].id = toApp[j + 1].id
        /\ i + 1 \in 1..Len(toApp) /\ j + 1 \in 1..Len(toApp)
    BY <1>3
  <2>2. i + 1 = j + 1
    BY <2>1 DEF RpcInv, Answered
  <2> QED
    BY <1>3, <2>2
<1>7. CASE HandleReady(m)
  <2>1. UNCHANGED <<pending, handles, writes, settled>>
    BY <1>7 DEF HandleReady
  <2>2. Types' /\ Numbered'
    BY <1>1, <1>3, <2>1 DEF RpcInv, Types, Numbered
  <2>3. Answered'
    BY <1>1, <1>5, <1>6, <2>1 DEF Answered
  <2> QED
    BY <1>1, <1>4, <2>1, <2>2, <2>3 DEF RpcInv, R!rpcVars
<1>8. CASE HandleAnswer(m)
  <2> DEFINE c == m.id
             w == [stored |-> m.result.stored, acked |-> pending[c].acked]
  <2>1. /\ c # 0 /\ c \in DOMAIN pending
        /\ pending' = Without(pending, c) /\ settled' = Extend(settled, c, m.result)
        /\ handles' = (IF m.result.ok /\ m.result.handle # 0 THEN handles \cup {m.result.handle} ELSE handles)
        /\ writes' = IF m.result.ok /\ pending[c].method = "snapshot" THEN Append(writes, w) ELSE writes
    BY <1>8 DEF HandleAnswer, SettledCall
  <2>2. c \in DOMAIN outcome \ DOMAIN settled /\ m.result = outcome[c]
    BY <1>3, <2>1 DEF RpcInv, Answered
  <2>3. m.result \in Results /\ m.result.handle \in Nat /\ m.result.stored \in Stores
    BY <1>3, StoreTypes DEF Answer, Results
  <2>4. w \in Write
    BY <2>1, <2>3 DEF RpcInv, Types, Write, Request
  <2> HIDE DEF w
  <2>5. writes' \in Seq(Write)
    BY <1>2, <2>1, <2>4, AppendLast
  <2>6. \A x \in DOMAIN pending' : x \in DOMAIN pending /\ pending'[x] = pending[x]
    BY <2>1 DEF Without
  <2>7. handles' \subseteq Nat
    BY <1>2, <2>1, <2>3
  <2>8. Types'
    BY <1>1, <1>3, <2>5, <2>6, <2>7 DEF RpcInv, Types
  <2>9. DOMAIN settled' = DOMAIN settled \cup {c}
    BY <2>1, ExtendProperties, ZenonT(60)
  <2>10. Numbered'
    BY <1>1, <2>2, <2>9 DEF RpcInv, Numbered
  <2>11. Answered'
    BY <1>1, <1>5, <1>6, <2>9 DEF Answered
  <2>12. R!Settle(c)
    BY <1>1, <2>1, <2>2 DEF R!Settle, R!Extend, Extend
  <2>13. c \in 1..MaxCalls
    BY <1>3, <2>1, StoreTypes DEF Answer
  <2> QED
    BY <1>4, <2>8, <2>10, <2>11, <2>12, <2>13 DEF RpcInv, R!RpcNext
<1> QED
  BY <1>1, <1>7, <1>8
-----------------------------------------------------------------------------
(* The other steps.                                                         *)

(* The calls of the app, and the restore of ready(). *)
LEMMA CallSteps ==
    ASSUME RpcInv,
           \/ \E i \in Ids : NewClient(i) \/ OpenClient(i)
           \/ \E h \in handles, m \in {"change", "save"} : CallOn(h, m)
           \/ SaveAll \/ ReadyRestores
    PROVE  RpcInv' /\ (R!RpcNext \/ UNCHANGED R!rpcVars)
<1>0. EmptyStore \in Stores /\ AnyId \in Ids /\ {} \in SUBSET Calls /\ disk \in Stores /\ handles \subseteq Nat
  BY StoreTypes DEF RpcInv, Types
<1>1. ASSUME NEW i \in Ids, NewClient(i) PROVE RpcInv' /\ R!RpcNext
  <2>1. /\ RequestSent("new", i, 0, EmptyStore, {})
        /\ UNCHANGED <<toApp, hostVars, disk, writes, handles, outcome, settled>>
    BY <1>1 DEF NewClient
  <2> QED
    BY <1>0, <2>1, RequestStep DEF Methods
<1>2. ASSUME NEW i \in Ids, OpenClient(i) PROVE RpcInv' /\ R!RpcNext
  <2>1. /\ RequestSent("open", i, 0, EmptyStore, {})
        /\ UNCHANGED <<toApp, hostVars, disk, writes, handles, outcome, settled>>
    BY <1>2 DEF OpenClient
  <2> QED
    BY <1>0, <2>1, RequestStep DEF Methods
<1>3. ASSUME NEW h \in handles, NEW m \in {"change", "save"}, CallOn(h, m) PROVE RpcInv' /\ R!RpcNext
  <2>1. /\ RequestSent(m, AnyId, h, EmptyStore, {}) /\ m \in Methods
        /\ UNCHANGED <<toApp, hostVars, disk, writes, handles, outcome, settled>>
    BY <1>3 DEF CallOn, Methods
  <2> QED
    BY <1>0, <2>1, RequestStep
<1>4. ASSUME SaveAll PROVE RpcInv' /\ R!RpcNext
  <2>1. Acknowledged \in SUBSET Calls
    BY StoreTypes DEF Acknowledged, RpcInv, Numbered, Calls
  <2>2. /\ RequestSent("snapshot", AnyId, 0, EmptyStore, Acknowledged)
        /\ UNCHANGED <<toApp, hostVars, disk, writes, handles, outcome, settled>>
    BY <1>4 DEF SaveAll
  <2> QED
    BY <1>0, <2>1, <2>2, RequestStep DEF Methods
<1>5. ASSUME ReadyRestores PROVE RpcInv' /\ (R!RpcNext \/ UNCHANGED R!rpcVars)
  <2>1. UNCHANGED <<toApp, hostVars, disk, writes, handles, outcome, settled>>
    BY <1>5 DEF ReadyRestores
  <2>2. CASE UNCHANGED <<pending, toHost, issued>>
    BY <2>1, <2>2 DEF RpcInv, Types, Numbered, OnTheWay, Answered, HandlesBounded, hostVars, R!rpcVars
  <2>3. CASE RequestSent("restore", AnyId, 0, disk, {})
    BY <1>0, <2>1, <2>3, RequestStep DEF Methods
  <2> QED
    BY <1>5, <2>2, <2>3 DEF ReadyRestores
<1> QED
  BY <1>1, <1>2, <1>3, <1>4, <1>5

(* The page, ready() before the restore, and the app's storage. *)
LEMMA OtherSteps ==
    ASSUME RpcInv, Mount \/ ScriptRuns \/ InitEnds \/ Ready \/ ReadyReads \/ SetItem \/ Restart
    PROVE  RpcInv' /\ UNCHANGED R!rpcVars
<1>1. ASSUME Mount \/ ScriptRuns \/ Ready \/ ReadyReads PROVE RpcInv' /\ UNCHANGED R!rpcVars
  <2>1. UNCHANGED <<pending, handles, toHost, toApp, clients, store, disk, writes, issued, outcome, settled>>
    BY <1>1 DEF Mount, ScriptRuns, Ready, ReadyReads, appVars, channels, hostVars, history
  <2> QED
    BY <2>1 DEF RpcInv, Types, Numbered, OnTheWay, Answered, HandlesBounded, R!rpcVars
<1>2. ASSUME InitEnds PROVE RpcInv' /\ UNCHANGED R!rpcVars
  <2>1. /\ UNCHANGED <<pending, handles, toHost, clients, store, disk, writes, issued, outcome, settled>>
        /\ \E r \in {Done, Error} : toApp' = Append(toApp, [id |-> 0, result |-> r])
    BY <1>2 DEF InitEnds, appVars, hostVars, history
  <2>2. PICK r \in {Done, Error} : toApp' = Append(toApp, [id |-> 0, result |-> r])
    BY <2>1
  <2> DEFINE msg == [id |-> 0, result |-> r]
  <2>3. msg \in Answer /\ msg.id = 0
    BY StoreTypes DEF Answer
  <2>4. toApp' = Append(toApp, msg)
    BY <2>2
  <2> HIDE DEF msg
  <2>5. /\ toApp' \in Seq(Answer)
        /\ \A i \in 1..Len(toApp) : toApp'[i] = toApp[i]
        /\ toApp'[Len(toApp) + 1] = msg
        /\ \A i \in 1..Len(toApp') : i \in 1..Len(toApp) \/ i = Len(toApp) + 1
    BY <2>3, <2>4, AppendLast DEF RpcInv, Types
  <2>6. Answered'
    BY <2>1, <2>3, <2>5 DEF RpcInv, Answered
  <2>7. Types'
    BY <2>1, <2>5 DEF RpcInv, Types
  <2> QED
    BY <2>1, <2>6, <2>7 DEF RpcInv, Numbered, OnTheWay, HandlesBounded, R!rpcVars
<1>3. ASSUME SetItem PROVE RpcInv' /\ UNCHANGED R!rpcVars
  <2>1. /\ UNCHANGED <<pending, handles, toHost, toApp, clients, store, issued, outcome, settled>>
        /\ writes # <<>> /\ writes' = Tail(writes) /\ disk' = Head(writes).stored
    BY <1>3 DEF SetItem, appVars, channels, hostVars
  <2>2. writes' \in Seq(Write) /\ Head(writes) \in Write
    BY <2>1, TailProperties DEF RpcInv, Types
  <2>3. disk' \in Stores
    BY <2>1, <2>2 DEF Write
  <2> QED
    BY <2>1, <2>2, <2>3 DEF RpcInv, Types, Numbered, OnTheWay, Answered, HandlesBounded, R!rpcVars
<1>4. ASSUME Restart PROVE RpcInv' /\ UNCHANGED R!rpcVars
  <2>1. /\ pending' = <<>> /\ handles' = {} /\ toHost' = <<>> /\ toApp' = <<>> /\ clients' = <<>>
        /\ store' = EmptyStore /\ writes' = <<>>
        /\ UNCHANGED <<disk, issued, outcome, settled>>
    BY <1>4 DEF Restart, history
  <2>2. /\ <<>> \in Seq(Request) /\ <<>> \in Seq(Answer) /\ <<>> \in Seq(ClientSet)
        /\ <<>> \in Seq(Write) /\ Len(<<>>) = 0
    BY EmptySeq
  <2>3. DOMAIN pending' = {}
    BY <2>1
  <2>4. Types'
    BY <2>1, <2>2, <2>3, StoreTypes DEF RpcInv, Types
  <2>5. Numbered'
    BY <2>1 DEF RpcInv, Numbered
  <2>6. OnTheWay' /\ Answered'
    BY <2>1, <2>2 DEF OnTheWay, Answered
  <2>7. HandlesBounded'
    BY <2>1, <2>2, StoreTypes DEF RpcInv, Numbered, HandlesBounded
  <2> QED
    BY <2>1, <2>4, <2>5, <2>6, <2>7 DEF RpcInv, R!rpcVars
<1> QED
  BY <1>1, <1>2, <1>3, <1>4

(* At the first start of the app nothing is on its way. *)
LEMMA BridgeInit == Init => RpcInv /\ R!RpcInit
<1> SUFFICES ASSUME Init PROVE RpcInv /\ R!RpcInit
  OBVIOUS
<1>1. /\ <<>> \in Seq(Request) /\ <<>> \in Seq(Answer) /\ <<>> \in Seq(ClientSet)
      /\ <<>> \in Seq(Write) /\ Len(<<>>) = 0
  BY EmptySeq
<1>2. DOMAIN <<>> = {}
  OBVIOUS
<1>3. Types
  BY <1>1, <1>2, StoreTypes DEF Init, Types
<1>4. IsFiniteSet({}) /\ Cardinality({}) = 0
  BY FS_EmptySet
<1>5. Numbered
  BY <1>2, <1>4, StoreTypes DEF Init, Numbered
<1>6. OnTheWay /\ Answered /\ HandlesBounded
  BY <1>1, <1>4 DEF Init, OnTheWay, Answered, HandlesBounded
<1> QED
  BY <1>3, <1>5, <1>6 DEF Init, RpcInv, R!RpcInit

(* Every step of the bridge is a step of the remote calls or none. *)
LEMMA BridgeSimulates ==
    ASSUME RpcInv, [Step(Next)]_vars
    PROVE  RpcInv' /\ [R!RpcNext]_(R!rpcVars)
<1>1. CASE Next
  BY <1>1, CallSteps, OtherSteps, HostStep, HandleStep DEF Next
<1>2. CASE UNCHANGED vars
  <2>1. UNCHANGED <<pending, handles, toHost, toApp, clients, store, disk, writes, issued, outcome, settled>>
    BY <1>2 DEF vars, appVars, channels, hostVars, history
  <2> QED
    BY <2>1 DEF RpcInv, Types, Numbered, OnTheWay, Answered, HandlesBounded, R!rpcVars
<1> QED
  BY <1>1, <1>2 DEF Step

(* The bridge implements remote calls: the host executes a request at most  *)
(* once, and a promise settles at most once, with the outcome of its own    *)
(* request, over lost requests and restarts (Bridge.request, handleMessage).*)
THEOREM BridgeImplementsRpc == Spec => ImplementsRpc
<1>1. RpcInv /\ [Step(Next)]_vars => RpcInv' /\ [R!RpcNext]_(R!rpcVars)
  BY BridgeSimulates
<1> QED
  BY <1>1, BridgeInit, PTL DEF Spec, ImplementsRpc, R!RpcSpec
-----------------------------------------------------------------------------
(* Saved changes.  The states of the clients travel from the host to the    *)
(* app's storage: what is in `disk' is covered by every write under way,    *)
(* that by every snapshot on its way to the app, in their order, and those  *)
(* by what the host would save now.                                         *)

Has(s, c) == \E i \in Ids : c \in s[i]
Covers(s, t) == \A i \in Ids : t[i] \ {0} \subseteq s[i]

(* An answer on its way to a Mls.save(). *)
Snapshot(i) == toApp[i].id # 0 /\ pending[toApp[i].id].method = "snapshot"

(* Nothing but the restore is sent before ready() has resolved. *)
Quiet ==
    ready # "done" =>
      /\ writes = <<>> /\ clients = <<>> /\ handles = {} /\ opened = {}
      /\ Len(toHost) <= 1
      /\ \A i \in 1..Len(toHost) :
           /\ ready = "restoring" /\ toHost[i].method = "restore" /\ toHost[i].stored = disk
           /\ \A j \in 1..Len(toApp) : toApp[j].id = 0
      /\ \A j \in 1..Len(toApp) : toApp[j].id # 0 =>
           ready = "restoring" /\ store = disk /\ pending[toApp[j].id].method = "restore"

(* What is on its way belongs to a promise, and names clients there are. *)
Known ==
    /\ \A i \in 1..Len(toHost) :
         /\ toHost[i].id \in DOMAIN pending /\ pending[toHost[i].id] = toHost[i]
         /\ ready = "done" => toHost[i].method # "restore"
    /\ \A i \in 1..Len(toApp) : toApp[i].id # 0 =>
         toApp[i].id \in DOMAIN pending /\ toApp[i].result.handle \in 0..Len(clients)
    /\ handles \subseteq 1..Len(clients)

Persistent(h) == clients[h].persistent

(* There is one persistent client of an id at most, also when every open    *)
(* under way is executed.                                                   *)
OneClient ==
    /\ \A h, k \in 1..Len(clients) :
         Persistent(h) /\ Persistent(k) /\ clients[h].id = clients[k].id => h = k
    /\ \A h \in 1..Len(clients) : Persistent(h) => clients[h].id \in opened
    /\ \A i \in 1..Len(toHost) : toHost[i].method = "open" =>
         /\ toHost[i].client \in opened
         /\ \A h \in 1..Len(clients) : Persistent(h) => clients[h].id # toHost[i].client
         /\ \A j \in 1..Len(toHost) :
              toHost[j].method = "open" /\ toHost[j].client = toHost[i].client => i = j

(* What is later in the pipeline covers what is earlier. *)
Pipeline ==
    /\ ready = "done" => Covers(Flushed, disk)
    /\ \A i \in 1..Len(writes) :
         /\ Covers(writes[i].stored, disk) /\ Covers(Flushed, writes[i].stored)
         /\ \A j \in 1..Len(writes) : i < j => Covers(writes[j].stored, writes[i].stored)
    /\ \A i \in 1..Len(toApp) : Snapshot(i) =>
         /\ Covers(toApp[i].result.stored, disk) /\ Covers(Flushed, toApp[i].result.stored)
         /\ \A j \in 1..Len(writes) : Covers(toApp[i].result.stored, writes[j].stored)
         /\ \A j \in 1..Len(toApp) : i < j /\ Snapshot(j) =>
              Covers(toApp[j].result.stored, toApp[i].result.stored)

(* What the caller of a save() knew of is there, wherever the save is. *)
Promised ==
    /\ \A i \in 1..Len(toHost) : toHost[i].method = "snapshot" =>
         \A c \in toHost[i].acked : Has(Flushed, c)
    /\ \A i \in 1..Len(toApp) : Snapshot(i) =>
         \A c \in pending[toApp[i].id].acked : Has(toApp[i].result.stored, c)
    /\ \A i \in 1..Len(writes) : \A c \in writes[i].acked : Has(writes[i].stored, c)
    /\ \A c \in kept : c \in Calls /\ Has(disk, c)

Saving == Quiet /\ Known /\ OneClient /\ Pipeline /\ Promised
SaveInv == awaits => Saving
-----------------------------------------------------------------------------
(* Covering is a preorder, and keeps what is there. *)
LEMMA CoversFacts ==
    /\ \A s : Covers(s, s)
    /\ \A s, t, u : Covers(s, t) /\ Covers(t, u) => Covers(s, u)
    /\ \A s, t : \A c \in Calls : Covers(s, t) /\ Has(t, c) => Has(s, c)
    /\ \A s : Covers(s, EmptyStore)
<1>1. 0 \notin Calls
  BY StoreTypes DEF Calls
<1>2. \A s, t, u : Covers(s, t) /\ Covers(t, u) => Covers(s, u)
  BY DEF Covers
<1>3. \A s, t : \A c \in Calls : Covers(s, t) /\ Has(t, c) => Has(s, c)
  BY <1>1 DEF Covers, Has
<1> QED
  BY <1>2, <1>3 DEF Covers, EmptyStore, Absent

(* What the host would save, as a function of its clients and its store. *)
FlushedOf(cl, st) ==
    LET of(i) == {h \in DOMAIN cl : cl[h].persistent /\ cl[h].id = i}
        last(i) == CHOOSE h \in of(i) : \A k \in of(i) : k <= h
    IN  [i \in Ids |-> IF of(i) = {} THEN st[i] ELSE cl[last(i)].changes]

(* With one persistent client per id, that is the state of this client, or  *)
(* the entry of the store when there is none.                               *)
LEMMA FlushedValue ==
    ASSUME NEW cl \in Seq(ClientSet), NEW st,
           \A h, k \in 1..Len(cl) :
             cl[h].persistent /\ cl[k].persistent /\ cl[h].id = cl[k].id => h = k
    PROVE  /\ \A h \in 1..Len(cl) : cl[h].persistent =>
                cl[h].id \in Ids /\ FlushedOf(cl, st)[cl[h].id] = cl[h].changes
           /\ \A i \in Ids : (\A h \in 1..Len(cl) : cl[h].persistent => cl[h].id # i)
                => FlushedOf(cl, st)[i] = st[i]
<1> DEFINE of(i) == {h \in DOMAIN cl : cl[h].persistent /\ cl[h].id = i}
           last(i) == CHOOSE h \in of(i) : \A k \in of(i) : k <= h
<1>1. Len(cl) \in Nat /\ DOMAIN cl = 1..Len(cl) /\ \A h \in 1..Len(cl) : cl[h] \in ClientSet
  BY LenProperties, ElementOfSeq
<1>2. FlushedOf(cl, st) = [i \in Ids |-> IF of(i) = {} THEN st[i] ELSE cl[last(i)].changes]
  BY DEF FlushedOf
<1>3. ASSUME NEW h \in 1..Len(cl), cl[h].persistent
      PROVE  cl[h].id \in Ids /\ FlushedOf(cl, st)[cl[h].id] = cl[h].changes
  <2>1. cl[h].id \in Ids
    BY <1>1 DEF ClientSet
  <2>2. of(cl[h].id) = {h}
    BY <1>1, <1>3
  <2>3. h <= h
    BY <1>1
  <2> HIDE DEF of
  <2>4. last(cl[h].id) = h
    BY <2>2, <2>3
  <2> HIDE DEF last
  <2> QED
    BY <1>2, <2>1, <2>2, <2>4
<1>4. ASSUME NEW i \in Ids, \A h \in 1..Len(cl) : cl[h].persistent => cl[h].id # i
      PROVE  FlushedOf(cl, st)[i] = st[i]
  <2>1. of(i) = {}
    BY <1>1, <1>4
  <2> HIDE DEF of, last
  <2> QED
    BY <1>2, <2>1
<1> QED
  BY <1>3, <1>4

(* What a request does to the clients and to the entries without a client. *)
LEMMA DispatchShape ==
    ASSUME clients \in Seq(ClientSet), store \in Stores, NEW req \in Request, Dispatch(req),
           req.method # "restore", OneClient
    PROVE  /\ Len(clients) \in Nat /\ Len(clients') \in Nat /\ Len(clients) <= Len(clients')
           /\ \A h \in 1..Len(clients) :
                /\ h \in 1..Len(clients')
                /\ clients'[h].id = clients[h].id /\ clients'[h].persistent = clients[h].persistent
                /\ clients[h].changes \subseteq clients'[h].changes
           /\ \A h \in 1..Len(clients') : h \notin 1..Len(clients) =>
                /\ h = Len(clients) + 1
                /\ clients'[h].persistent =>
                     /\ req.method = "open" /\ clients'[h].id = req.client
                     /\ store[req.client] \ {0} \subseteq clients'[h].changes
           /\ \A i \in Ids : (\A h \in 1..Len(clients') : clients'[h].persistent => clients'[h].id # i)
                => store[i] \ {0} \subseteq store'[i]
           /\ outcome'[req.id].handle \in 0..Len(clients')
           /\ req.method = "snapshot" => outcome'[req.id] = Result(TRUE, 0, Flushed)
<1> DEFINE Goal ==
             /\ Len(clients) \in Nat /\ Len(clients') \in Nat /\ Len(clients) <= Len(clients')
             /\ \A h \in 1..Len(clients) :
                  /\ h \in 1..Len(clients')
                  /\ clients'[h].id = clients[h].id /\ clients'[h].persistent = clients[h].persistent
                  /\ clients[h].changes \subseteq clients'[h].changes
             /\ \A h \in 1..Len(clients') : h \notin 1..Len(clients) =>
                  /\ h = Len(clients) + 1
                  /\ clients'[h].persistent =>
                       /\ req.method = "open" /\ clients'[h].id = req.client
                       /\ store[req.client] \ {0} \subseteq clients'[h].changes
             /\ \A i \in Ids : (\A h \in 1..Len(clients') : clients'[h].persistent => clients'[h].id # i)
                  => store[i] \ {0} \subseteq store'[i]
             /\ outcome'[req.id].handle \in 0..Len(clients')
<1>0. req.client \in Ids /\ Error.handle = 0 /\ Done.handle = 0
  BY DEF Request, Error, Done, Result
<1>1. /\ Len(clients) \in Nat /\ DOMAIN clients = 1..Len(clients)
      /\ \A h \in 1..Len(clients) : clients[h] \in ClientSet
  BY LenProperties, ElementOfSeq
<1>2. \A r : Extend(outcome, req.id, r)[req.id] = r
  BY DEF Extend
<1>3. ASSUME UNCHANGED <<clients, store>>, outcome'[req.id].handle = 0 PROVE Goal
  BY <1>1, <1>3
<1>4. ASSUME NEW persistent \in BOOLEAN, Create(req, persistent), persistent => req.method = "open"
      PROVE  Goal
  <2>1. CASE page # "ready"
    BY <1>0, <1>2, <1>3, <1>4, <2>1 DEF Create, hostVars
  <2>2. CASE page = "ready"
    <3> DEFINE found == persistent /\ store[req.client] # Absent
               new == Client(req.client, persistent, IF found THEN store[req.client] ELSE {})
    <3>1. /\ clients' = Append(clients, new)
          /\ store' = IF persistent /\ ~found THEN [store EXCEPT ![req.client] = {}] ELSE store
          /\ outcome' = Extend(outcome, req.id, Result(TRUE, Len(clients) + 1, EmptyStore))
      BY <1>4, <2>2 DEF Create
    <3>2. new \in ClientSet
      BY <1>0 DEF Client, ClientSet, Stores
    <3>3. new.id = req.client /\ new.persistent = persistent
          /\ (persistent => store[req.client] \ {0} \subseteq new.changes)
      BY DEF Client, Absent
    <3>4. \A i \in Ids : (i = req.client /\ persistent) \/ store'[i] = store[i]
      BY <3>1 DEF Stores
    <3> HIDE DEF new
    <3>5. /\ Len(clients') = Len(clients) + 1
          /\ \A i \in 1..Len(clients) : clients'[i] = clients[i]
          /\ clients'[Len(clients) + 1] = new
          /\ \A i \in 1..Len(clients') : i \in 1..Len(clients) \/ i = Len(clients) + 1
      BY <3>1, <3>2, AppendLast
    <3>6. outcome'[req.id].handle = Len(clients) + 1
      BY <1>2, <3>1 DEF Result
    <3>7. /\ Len(clients') \in Nat /\ Len(clients) <= Len(clients') /\ Len(clients) + 1 \in 1..Len(clients')
          /\ Len(clients) + 1 \in 0..Len(clients')
          /\ \A h \in 1..Len(clients) : h \in 1..Len(clients')
      BY <1>1, <3>5
    <3>8. \A i \in Ids : (\A h \in 1..Len(clients') : clients'[h].persistent => clients'[h].id # i)
                  => store[i] \ {0} \subseteq store'[i]
      BY <3>3, <3>4, <3>5, <3>7
    <3>9. \A h \in 1..Len(clients') : h \notin 1..Len(clients) =>
                  /\ h = Len(clients) + 1
                  /\ clients'[h].persistent =>
                       /\ req.method = "open" /\ clients'[h].id = req.client
                       /\ store[req.client] \ {0} \subseteq clients'[h].changes
      BY <1>4, <3>3, <3>5
    <3>10. \A h \in 1..Len(clients) :
                  /\ h \in 1..Len(clients')
                  /\ clients'[h].id = clients[h].id /\ clients'[h].persistent = clients[h].persistent
                  /\ clients[h].changes \subseteq clients'[h].changes
      BY <3>5, <3>7
    <3> QED
      BY <1>1, <3>6, <3>7, <3>8, <3>9, <3>10
  <2> QED
    BY <2>1, <2>2
<1>5. ASSUME Apply(req) PROVE Goal
  <2>1. CASE UNCHANGED hostVars /\ outcome' = Extend(outcome, req.id, Error)
    BY <1>0, <1>2, <1>3, <2>1 DEF hostVars
  <2>2. CASE /\ req.handle \in DOMAIN clients
             /\ clients' = [clients EXCEPT ![req.handle].changes = @ \cup {req.id}]
             /\ UNCHANGED store
             /\ \E r \in {Done, Error} : outcome' = Extend(outcome, req.id, r)
    <3> DEFINE g == req.handle
               new == [clients[g] EXCEPT !.changes = @ \cup {req.id}]
    <3>1. /\ clients' = [clients EXCEPT ![g].changes = @ \cup {req.id}]
          /\ store' = store
          /\ \E r \in {Done, Error} : outcome' = Extend(outcome, req.id, r)
      BY <2>2
    <3>2. g \in 1..Len(clients) /\ clients[g] \in ClientSet
      BY <1>1, <2>2
    <3>3. /\ new \in ClientSet
          /\ new.id = clients[g].id /\ new.persistent = clients[g].persistent
          /\ clients[g].changes \subseteq new.changes
      BY <3>2, StoreTypes DEF ClientSet, Request, Calls
    <3>4. clients' = [clients EXCEPT ![g] = new]
      BY <3>1
    <3> HIDE DEF new
    <3>5. Len(clients') = Len(clients) /\ \A h \in 1..Len(clients) :
             clients'[h] = IF h = g THEN new ELSE clients[h]
      BY <1>1, <3>2, <3>3, <3>4, ExceptSeq
    <3>6. outcome'[req.id].handle = 0
      BY <1>0, <1>2, <3>1
    <3> HIDE DEF g
    <3>7. \A h \in 1..Len(clients) :
                  /\ clients'[h].id = clients[h].id /\ clients'[h].persistent = clients[h].persistent
                  /\ clients[h].changes \subseteq clients'[h].changes
      BY <3>3, <3>5
    <3> QED
      BY <1>1, <3>1, <3>5, <3>6, <3>7
  <2> QED
    BY <1>5, <2>1, <2>2 DEF Apply
<1>6. ASSUME SaveClient(req) PROVE Goal
  <2>1. CASE req.handle \notin DOMAIN clients
    BY <1>0, <1>2, <1>3, <1>6, <2>1 DEF SaveClient, hostVars
  <2>2. CASE req.handle \in DOMAIN clients
    <3> DEFINE c == clients[req.handle]
    <3>1. /\ store' = IF c.persistent THEN [store EXCEPT ![c.id] = c.changes] ELSE store
          /\ clients' = clients /\ outcome' = Extend(outcome, req.id, Done)
      BY <1>6, <2>2 DEF SaveClient
    <3>2. \A i \in Ids : (c.persistent /\ c.id = i) \/ store'[i] = store[i]
      BY <3>1 DEF Stores
    <3>3. \A i \in Ids : (\A h \in 1..Len(clients') : clients'[h].persistent => clients'[h].id # i)
                  => store[i] \ {0} \subseteq store'[i]
      BY <1>1, <2>2, <3>1, <3>2
    <3>4. outcome'[req.id].handle = 0
      BY <1>0, <1>2, <3>1
    <3> QED
      BY <1>1, <3>1, <3>3, <3>4
  <2> QED
    BY <2>1, <2>2
<1>7. ASSUME TakeSnapshot(req) PROVE Goal /\ outcome'[req.id] = Result(TRUE, 0, Flushed)
  <2>1. clients' = clients /\ store' = Flushed /\ outcome'[req.id] = Result(TRUE, 0, Flushed)
    BY <1>2, <1>7 DEF TakeSnapshot
  <2>2. Flushed = FlushedOf(clients, store)
    BY DEF Flushed, FlushedOf
  <2>3. \A i \in Ids : (\A h \in 1..Len(clients) : clients[h].persistent => clients[h].id # i)
                  => store'[i] = store[i]
    BY <2>1, <2>2, FlushedValue DEF OneClient, Persistent
  <2>4. outcome'[req.id].handle = 0
    BY <2>1 DEF Result
  <2>5. \A i \in Ids : (\A h \in 1..Len(clients') : clients'[h].persistent => clients'[h].id # i)
                  => store[i] \ {0} \subseteq store'[i]
    BY <2>1, <2>3
  <2>6. clients' = clients
    BY <2>1
  <2>7. Len(clients) <= Len(clients) /\ 0 \in 0..Len(clients)
    BY <1>1
  <2>8. Goal
    BY ONLY <1>1, <2>4, <2>5, <2>6, <2>7
  <2> QED
    BY <2>1, <2>8
<1> HIDE DEF Goal
<1>8. Goal /\ (req.method = "snapshot" => outcome'[req.id] = Result(TRUE, 0, Flushed))
  BY <1>4, <1>5, <1>6, <1>7 DEF Dispatch
<1> QED
  BY <1>8 DEF Goal

(* The host never loses a change of a persistent client. *)
LEMMA DispatchCovers ==
    ASSUME clients \in Seq(ClientSet), store \in Stores, NEW req \in Request, Dispatch(req),
           req.method # "restore", OneClient, Len(clients) + 1 <= MaxCalls,
           req.method = "open" => req.client \in opened /\
             \A h \in 1..Len(clients) : Persistent(h) => clients[h].id # req.client
    PROVE  /\ Covers(Flushed', Flushed)
           /\ \A h, k \in 1..Len(clients') :
                clients'[h].persistent /\ clients'[k].persistent /\ clients'[h].id = clients'[k].id => h = k
           /\ \A h \in 1..Len(clients') : clients'[h].persistent =>
                /\ clients'[h].id \in opened
                /\ \/ h \in 1..Len(clients) /\ Persistent(h) /\ clients[h].id = clients'[h].id
                   \/ req.method = "open" /\ clients'[h].id = req.client
<1>1. /\ Len(clients) \in Nat /\ Len(clients') \in Nat /\ Len(clients) <= Len(clients')
      /\ \A h \in 1..Len(clients) :
           /\ h \in 1..Len(clients')
           /\ clients'[h].id = clients[h].id /\ clients'[h].persistent = clients[h].persistent
           /\ clients[h].changes \subseteq clients'[h].changes
      /\ \A h \in 1..Len(clients') : h \notin 1..Len(clients) =>
           /\ h = Len(clients) + 1
           /\ clients'[h].persistent =>
                /\ req.method = "open" /\ clients'[h].id = req.client
                /\ store[req.client] \ {0} \subseteq clients'[h].changes
      /\ \A i \in Ids : (\A h \in 1..Len(clients') : clients'[h].persistent => clients'[h].id # i)
           => store[i] \ {0} \subseteq store'[i]
  BY DispatchShape
<1>2. clients' \in Seq(ClientSet)
  BY DispatchFacts
<1>3. \A h \in 1..Len(clients') : clients'[h].persistent =>
        \/ h \in 1..Len(clients) /\ Persistent(h) /\ clients[h].id = clients'[h].id
        \/ h = Len(clients) + 1 /\ req.method = "open" /\ clients'[h].id = req.client
  BY <1>1 DEF Persistent
<1>4. \A h, k \in 1..Len(clients') :
        clients'[h].persistent /\ clients'[k].persistent /\ clients'[h].id = clients'[k].id => h = k
  BY <1>3 DEF OneClient
<1>5. \A h \in 1..Len(clients') : clients'[h].persistent => clients'[h].id \in opened
  BY <1>3 DEF OneClient
<1>6. Flushed = FlushedOf(clients, store) /\ Flushed' = FlushedOf(clients', store')
  BY DEF Flushed, FlushedOf
<1>7. /\ \A h \in 1..Len(clients) : clients[h].persistent => Flushed[clients[h].id] = clients[h].changes
      /\ \A i \in Ids : (\A h \in 1..Len(clients) : clients[h].persistent => clients[h].id # i)
                => Flushed[i] = store[i]
  BY <1>6, FlushedValue DEF OneClient, Persistent
<1>8. /\ \A h \in 1..Len(clients') : clients'[h].persistent => (Flushed')[clients'[h].id] = clients'[h].changes
      /\ \A i \in Ids : (\A h \in 1..Len(clients') : clients'[h].persistent => clients'[h].id # i)
                => (Flushed')[i] = store'[i]
  <2> DEFINE cl == clients'
             st == store'
  <2>1. cl \in Seq(ClientSet) /\ \A h, k \in 1..Len(cl) :
             cl[h].persistent /\ cl[k].persistent /\ cl[h].id = cl[k].id => h = k
    BY <1>2, <1>4
  <2>2. Flushed' = FlushedOf(cl, st)
    BY <1>6
  <2> HIDE DEF cl, st
  <2>3. /\ \A h \in 1..Len(cl) : cl[h].persistent => FlushedOf(cl, st)[cl[h].id] = cl[h].changes
        /\ \A i \in Ids : (\A h \in 1..Len(cl) : cl[h].persistent => cl[h].id # i)
                => FlushedOf(cl, st)[i] = st[i]
    BY <2>1, FlushedValue
  <2> QED
    BY <2>2, <2>3 DEF cl, st
<1>9. ASSUME NEW i \in Ids PROVE Flushed[i] \ {0} \subseteq (Flushed')[i]
  <2>1. CASE \E h \in 1..Len(clients) : clients[h].persistent /\ clients[h].id = i
    BY <1>1, <1>7, <1>8, <2>1
  <2>2. CASE \A h \in 1..Len(clients) : clients[h].persistent => clients[h].id # i
    <3>1. Flushed[i] = store[i]
      BY <1>7, <2>2
    <3>2. CASE \E h \in 1..Len(clients') : clients'[h].persistent /\ clients'[h].id = i
      <4>1. PICK h \in 1..Len(clients') : clients'[h].persistent /\ clients'[h].id = i
        BY <3>2
      <4>2. h \notin 1..Len(clients)
        BY <1>1, <2>2, <4>1
      <4>3. store[i] \ {0} \subseteq clients'[h].changes
        BY <1>1, <4>1, <4>2
      <4> QED
        BY <1>8, <3>1, <4>1, <4>3
    <3>3. CASE \A h \in 1..Len(clients') : clients'[h].persistent => clients'[h].id # i
      BY <1>1, <1>8, <3>1, <3>3
    <3> QED
      BY <3>2, <3>3
  <2> QED
    BY <2>1, <2>2
<1>10. Covers(Flushed', Flushed)
  BY <1>9 DEF Covers
<1> QED
  BY <1>3, <1>4, <1>5, <1>10

(* Requests of an app whose ready() has resolved. *)
LEMMA RequestSaves ==
    ASSUME RpcInv, Saving, ready = "done",
           NEW method \in Methods \ {"restore"}, NEW client \in Ids, NEW handle \in Nat,
           NEW acked \in SUBSET Calls,
           RequestSent(method, client, handle, EmptyStore, acked),
           UNCHANGED <<ready, toApp, clients, store, disk, writes, handles, kept>>,
           opened \subseteq opened',
           method = "open" => client \in opened' \ opened,
           method = "snapshot" => \A c \in acked : Has(Flushed, c)
    PROVE  Saving'
<1> DEFINE req == NewRequest(method, client, handle, EmptyStore, acked)
<1>0. method \in Methods /\ EmptyStore \in Stores
  BY StoreTypes
<1>1. /\ req \in Request /\ req.id = NextCall /\ NextCall \in Calls \ issued
      /\ pending' = Extend(pending, NextCall, req)
      /\ toHost' = IF page = "unmounted" THEN toHost ELSE Append(toHost, req)
  BY <1>0, RequestFacts
<1>2. req.method = method /\ req.client = client /\ req.acked = acked
  BY DEF NewRequest
<1> HIDE DEF req
<1>3. toHost \in Seq(Request) /\ Len(toHost) \in Nat
  BY LenProperties DEF RpcInv, Types
<1>4. /\ DOMAIN pending' = DOMAIN pending \cup {NextCall} /\ pending'[NextCall] = req
      /\ \A c \in DOMAIN pending : c # NextCall => pending'[c] = pending[c]
  BY <1>1 DEF Extend
<1>5. /\ \A i \in 1..Len(toHost) : toHost[i].id # NextCall
      /\ \A i \in 1..Len(toApp) : toApp[i].id # NextCall
  <2>1. 0 \notin Calls
    BY StoreTypes DEF Calls
  <2> QED
    BY <1>1, <2>1 DEF RpcInv, OnTheWay, Answered, Numbered
<1>6. \A i \in 1..Len(toHost') :
        \/ i \in 1..Len(toHost) /\ toHost'[i] = toHost[i]
        \/ i \notin 1..Len(toHost) /\ i = Len(toHost) + 1 /\ toHost'[i] = req
  <2>1. CASE page = "unmounted"
    <3>1. toHost' = toHost
      BY <1>1, <2>1
    <3> QED
      BY <3>1
  <2>2. CASE page # "unmounted"
    <3>1. toHost' = Append(toHost, req)
      BY <1>1, <2>2
    <3>2. Len(toHost) + 1 \notin 1..Len(toHost)
      BY <1>3
    <3> QED
      BY <1>1, <1>3, <3>1, <3>2, AppendLast
  <2> QED
    BY <2>1, <2>2
<1>7. Flushed' = Flushed
  BY DEF Flushed
<1>8. \A i \in 1..Len(toApp) : toApp[i].id # 0 =>
        toApp[i].id \in DOMAIN pending /\ pending'[toApp[i].id] = pending[toApp[i].id]
  BY <1>4, <1>5 DEF Saving, Known
<1>9. \A i \in 1..Len(toApp) : Snapshot(i)' <=> Snapshot(i)
  BY <1>8 DEF Snapshot
<1>10. Quiet'
  BY DEF Quiet
<1>11. Known'
  BY <1>1, <1>2, <1>4, <1>5, <1>6, <1>8 DEF Saving, Known
<1>12. OneClient'
  <2>1. \A h \in 1..Len(clients) : Persistent(h)' = Persistent(h)
    BY DEF Persistent
  <2>2. /\ \A h, k \in 1..Len(clients') :
             Persistent(h)' /\ Persistent(k)' /\ clients'[h].id = clients'[k].id => h = k
        /\ \A h \in 1..Len(clients') : Persistent(h)' => clients'[h].id \in opened'
    BY <2>1 DEF Saving, OneClient
  <2>3. \A i \in 1..Len(toHost') : toHost'[i].method = "open" => toHost'[i].client \in opened'
    BY <1>2, <1>6 DEF Saving, OneClient
  <2>4. \A i \in 1..Len(toHost') : toHost'[i].method = "open" =>
           \A h \in 1..Len(clients') : Persistent(h)' => clients'[h].id # toHost'[i].client
    BY <1>2, <1>6, <2>1 DEF Saving, OneClient
  <2>5. \A i, j \in 1..Len(toHost') :
          toHost'[i].method = "open" /\ toHost'[j].method = "open" /\ toHost'[j].client = toHost'[i].client => i = j
    BY <1>2, <1>6 DEF Saving, OneClient
  <2> QED
    BY <2>2, <2>3, <2>4, <2>5 DEF OneClient
<1>13. Pipeline'
  BY <1>7, <1>9 DEF Saving, Pipeline
<1>14. Promised'
  <2>1. \A i \in 1..Len(toHost') : toHost'[i].method = "snapshot" =>
         \A c \in toHost'[i].acked : Has(Flushed, c)
    BY <1>2, <1>6 DEF Saving, Promised
  <2>2. \A i \in 1..Len(toApp) : Snapshot(i)' =>
         \A c \in pending'[toApp[i].id].acked : Has(toApp[i].result.stored, c)
    BY <1>8, <1>9 DEF Saving, Promised, Snapshot
  <2> QED
    BY <1>7, <2>1, <2>2 DEF Saving, Promised
<1> QED
  BY <1>10, <1>11, <1>12, <1>13, <1>14 DEF Saving

(* The calls of an app that awaits ready(). *)
LEMMA CallsSave ==
    ASSUME OpenOnce, awaits, RpcInv, Saving,
           \/ \E i \in Ids : NewClient(i) \/ OpenClient(i)
           \/ \E h \in handles, m \in {"change", "save"} : CallOn(h, m)
           \/ SaveAll
    PROVE  Saving'
<1>0. AnyId \in Ids /\ {} \in SUBSET Calls /\ handles \subseteq Nat
  BY StoreTypes DEF RpcInv, Types
<1>1. ASSUME NEW i \in Ids, NewClient(i) PROVE Saving'
  <2>1. /\ RequestSent("new", i, 0, EmptyStore, {}) /\ ready = "done" /\ opened' = opened
        /\ UNCHANGED <<ready, toApp, clients, store, disk, writes, handles, kept>>
    BY <1>1 DEF NewClient, MayCall, hostVars
  <2> QED
    BY <1>0, <2>1, RequestSaves DEF Methods
<1>2. ASSUME NEW i \in Ids, OpenClient(i) PROVE Saving'
  <2>1. /\ RequestSent("open", i, 0, EmptyStore, {}) /\ ready = "done" /\ opened' = opened \cup {i}
        /\ i \notin opened
        /\ UNCHANGED <<ready, toApp, clients, store, disk, writes, handles, kept>>
    BY <1>2 DEF OpenClient, MayCall, hostVars
  <2> QED
    BY <1>0, <2>1, RequestSaves DEF Methods
<1>3. ASSUME NEW h \in handles, NEW m \in {"change", "save"}, CallOn(h, m) PROVE Saving'
  <2>1. /\ RequestSent(m, AnyId, h, EmptyStore, {}) /\ m \in Methods \ {"restore"} /\ opened' = opened
        /\ m # "open" /\ m # "snapshot"
        /\ UNCHANGED <<ready, toApp, clients, store, disk, writes, handles, kept>>
    BY <1>3 DEF CallOn, Methods, hostVars
  <2>2. ready = "done"
    BY DEF Saving, Quiet
  <2> QED
    BY <1>0, <2>1, <2>2, RequestSaves
<1>4. ASSUME SaveAll PROVE Saving'
  <2>1. Acknowledged \in SUBSET Calls
    BY StoreTypes DEF Acknowledged, RpcInv, Numbered, Calls
  <2>2. /\ RequestSent("snapshot", AnyId, 0, EmptyStore, Acknowledged) /\ ready = "done" /\ opened' = opened
        /\ UNCHANGED <<ready, toApp, clients, store, disk, writes, handles, kept>>
    BY <1>4 DEF SaveAll, MayCall, hostVars
  <2>3. Flushed = FlushedOf(clients, store)
    BY DEF Flushed, FlushedOf
  <2>4. \A h \in 1..Len(clients) : clients[h].persistent =>
          clients[h].id \in Ids /\ Flushed[clients[h].id] = clients[h].changes
    BY <2>3, FlushedValue DEF RpcInv, Types, Saving, OneClient, Persistent
  <2>5. ASSUME NEW c \in Acknowledged PROVE Has(Flushed, c)
    <3>1. PICK h \in handles : clients[h].persistent /\ c \in clients[h].changes
      BY <2>5 DEF Acknowledged
    <3>2. h \in 1..Len(clients)
      BY <3>1 DEF Saving, Known
    <3> QED
      BY <2>4, <3>1, <3>2 DEF Has
  <2> QED
    BY <1>0, <2>1, <2>2, <2>5, RequestSaves DEF Methods
<1> QED
  BY <1>1, <1>2, <1>3, <1>4

(* The host: before ready() has resolved it can only restore what is on     *)
(* disk; later it keeps every change.                                       *)
LEMMA HostSaves ==
    ASSUME RpcInv, RpcInv', Saving, HostReceives
    PROVE  Saving'
<1> DEFINE req == Head(toHost)
           msg == [id |-> req.id, result |-> outcome'[req.id]]
<1>1. /\ toHost # <<>> /\ toHost' = Tail(toHost)
      /\ UNCHANGED <<disk, writes, handles, opened, pending, ready, kept>>
      /\ \/ page = "loading" /\ UNCHANGED <<toApp, clients, store, outcome>>
         \/ page # "loading" /\ Dispatch(req) /\ toApp' = Append(toApp, msg)
  BY DEF HostReceives, hostVars, appVars
<1>2. /\ toHost \in Seq(Request) /\ toApp \in Seq(Answer) /\ clients \in Seq(ClientSet)
      /\ store \in Stores /\ Len(toApp) \in Nat /\ Len(clients) \in Nat
  BY LenProperties DEF RpcInv, Types
<1>3. /\ req \in Request /\ req = toHost[1] /\ 1 \in 1..Len(toHost) /\ Len(toHost) \in Nat
      /\ Len(toHost') = Len(toHost) - 1 /\ Len(toHost') \in Nat
      /\ \A i \in 1..Len(toHost') : i + 1 \in 1..Len(toHost) /\ toHost'[i] = toHost[i + 1]
  BY <1>1, <1>2, TailProperties
<1> HIDE DEF req
<1>4. req.id \in DOMAIN pending /\ pending[req.id] = req /\ req.id # 0
  BY <1>3, StoreTypes DEF Saving, Known, Request, Calls
<1>5. CASE page = "loading"
  <2>1. UNCHANGED <<toApp, clients, store, outcome>>
    BY <1>1, <1>5
  <2>2. Flushed' = Flushed
    BY <2>1 DEF Flushed
  <2>3. \A i \in 1..Len(toApp) : Snapshot(i)' <=> Snapshot(i)
    BY <1>1, <2>1 DEF Snapshot
  <2>4. Quiet'
    BY <1>1, <1>3, <2>1 DEF Saving, Quiet
  <2>5. Known'
    BY <1>1, <1>3, <2>1 DEF Saving, Known
  <2>6. OneClient'
    <3>1. \A h \in 1..Len(clients) : Persistent(h)' = Persistent(h)
      BY <2>1 DEF Persistent
    <3>2. \A i, j \in 1..Len(toHost') : i + 1 = j + 1 => i = j
      BY <1>3
    <3> QED
      BY <1>1, <1>3, <2>1, <3>1, <3>2 DEF Saving, OneClient
  <2>7. Pipeline'
    BY <1>1, <2>1, <2>2, <2>3 DEF Saving, Pipeline
  <2>8. Promised'
    BY <1>1, <1>3, <2>1, <2>2, <2>3 DEF Saving, Promised
  <2> QED
    BY <2>4, <2>5, <2>6, <2>7, <2>8 DEF Saving
<1>6. CASE page # "loading" /\ ready # "done"
  <2>1. Dispatch(req) /\ toApp' = Append(toApp, msg)
    BY <1>1, <1>6
  <2>2. /\ Len(toHost) <= 1 /\ ready = "restoring" /\ req.method = "restore" /\ req.stored = disk
        /\ writes = <<>> /\ clients = <<>> /\ handles = {} /\ opened = {}
        /\ \A j \in 1..Len(toApp) : toApp[j].id = 0
    BY <1>3, <1>6 DEF Saving, Quiet
  <2>3. store' = disk /\ clients' = clients /\ outcome' = Extend(outcome, req.id, Done)
    BY <2>1, <2>2 DEF Dispatch, Restore
  <2>4. Len(toHost') = 0
    BY <1>3, <2>2
  <2>5. msg.id = req.id /\ msg.result = Done /\ msg \in Answer
    BY <1>3, <2>3, StoreTypes DEF Extend, Answer, Request, Calls
  <2> HIDE DEF msg
  <2>6. /\ \A i \in 1..Len(toApp) : toApp'[i] = toApp[i]
        /\ toApp'[Len(toApp) + 1] = msg
        /\ \A i \in 1..Len(toApp') : i \in 1..Len(toApp) \/ i = Len(toApp) + 1
    BY <1>2, <2>1, <2>5, AppendLast
  <2>7. \A i \in 1..Len(toApp') : toApp'[i].id = 0 \/ toApp'[i] = msg
    BY <2>2, <2>6
  <2>8. \A i \in 1..Len(toApp') : ~Snapshot(i)'
    BY <1>1, <1>4, <2>2, <2>5, <2>7 DEF Snapshot
  <2>9. Quiet'
    BY <1>1, <1>4, <2>2, <2>3, <2>4, <2>5, <2>7 DEF Quiet
  <2>10. Known'
    <3>1. Done.handle \in 0..Len(clients')
      BY <1>2, <2>3 DEF Done, Result
    <3> QED
      BY <1>1, <1>4, <2>2, <2>4, <2>5, <2>7, <3>1 DEF Known
  <2>11. OneClient'
    BY <1>2, <2>2, <2>3, <2>4, EmptySeq DEF OneClient
  <2>12. Pipeline'
    BY <1>1, <2>2, <2>8, EmptySeq DEF Pipeline
  <2>13. Promised'
    BY <1>1, <2>2, <2>4, <2>8, EmptySeq DEF Saving, Promised
  <2> QED
    BY <2>9, <2>10, <2>11, <2>12, <2>13 DEF Saving
<1>7. CASE page # "loading" /\ ready = "done"
  <2>1. Dispatch(req) /\ toApp' = Append(toApp, msg)
    BY <1>1, <1>7
  <2>2. req.method # "restore"
    BY <1>3, <1>7 DEF Saving, Known
  <2>3. req.method = "open" => req.client \in opened /\
             \A h \in 1..Len(clients) : Persistent(h) => clients[h].id # req.client
    BY <1>3 DEF Saving, OneClient
  <2>4. Len(clients) + 1 <= MaxCalls
    <3>1. Cardinality(issued) \in Nat /\ Len(clients) + Len(toHost) <= Cardinality(issued)
      /\ Cardinality(issued) <= MaxCalls /\ MaxCalls \in Nat
      BY BridgeConstants DEF RpcInv, HandlesBounded, Numbered
    <3> QED
      BY <1>2, <1>3, <3>1
  <2>5. OneClient
    BY DEF Saving
  <2>6. /\ Covers(Flushed', Flushed)
        /\ \A h, k \in 1..Len(clients') :
             clients'[h].persistent /\ clients'[k].persistent /\ clients'[h].id = clients'[k].id => h = k
        /\ \A h \in 1..Len(clients') : clients'[h].persistent =>
             /\ clients'[h].id \in opened
             /\ \/ h \in 1..Len(clients) /\ Persistent(h) /\ clients[h].id = clients'[h].id
                \/ req.method = "open" /\ clients'[h].id = req.client
    BY <1>2, <1>3, <2>1, <2>2, <2>3, <2>4, <2>5, DispatchCovers
  <2>7. /\ Len(clients') \in Nat /\ Len(clients) <= Len(clients')
        /\ outcome'[req.id].handle \in 0..Len(clients')
        /\ req.method = "snapshot" => outcome'[req.id] = Result(TRUE, 0, Flushed)
    BY <1>2, <1>3, <2>1, <2>2, <2>5, DispatchShape
  <2>8. msg.id = req.id /\ msg.result = outcome'[req.id] /\ toApp' \in Seq(Answer)
    BY DEF RpcInv, Types
  <2> HIDE DEF msg
  <2>9. /\ Len(toApp') = Len(toApp) + 1
        /\ \A i \in 1..Len(toApp) : toApp'[i] = toApp[i]
        /\ toApp'[Len(toApp) + 1] = msg
        /\ \A i \in 1..Len(toApp') : i \in 1..Len(toApp) \/ i = Len(toApp) + 1
    <3>1. Len(toApp') = Len(toApp) + 1
      BY <1>2, <2>1
    <3>2. \A i \in 1..Len(toApp) : toApp'[i] = toApp[i]
      BY <1>2, <2>1
    <3>3. toApp'[Len(toApp) + 1] = msg
      BY <1>2, <2>1
    <3> QED
      BY <1>2, <3>1, <3>2, <3>3
  <2>10. \A i, j \in 1..Len(toApp') : i < j => i \in 1..Len(toApp)
    BY <1>2, <2>9
  <2>11. /\ \A i \in 1..Len(toApp) : Snapshot(i)' <=> Snapshot(i)
         /\ \A i \in 1..Len(toApp') : i \notin 1..Len(toApp) /\ Snapshot(i)' =>
              toApp'[i] = msg /\ req.method = "snapshot" /\ msg.result.stored = Flushed
    <3>1. \A i \in 1..Len(toApp) : Snapshot(i)' <=> Snapshot(i)
      BY <1>1, <2>9 DEF Snapshot
    <3>2. req.method = "snapshot" => msg.result.stored = Flushed
      BY <2>7, <2>8 DEF Result
    <3>3. \A i \in 1..Len(toApp') : i \notin 1..Len(toApp) =>
            toApp'[i] = msg /\ (Snapshot(i)' => req.method = "snapshot")
      BY <1>1, <1>4, <2>8, <2>9 DEF Snapshot
    <3> QED
      BY <3>1, <3>2, <3>3
  <2>12. Quiet'
    BY <1>1, <1>7 DEF Quiet
  <2>13. Known'
    <3>1. 0..Len(clients) \subseteq 0..Len(clients') /\ 1..Len(clients) \subseteq 1..Len(clients')
      BY <1>2, <2>7
    <3>2. \A i \in 1..Len(toApp') : toApp'[i].id # 0 =>
            toApp'[i].id \in DOMAIN pending' /\ toApp'[i].result.handle \in 0..Len(clients')
      BY <1>1, <1>4, <2>7, <2>8, <2>9, <3>1 DEF Saving, Known
    <3>3. handles' \subseteq 1..Len(clients')
      BY <1>1, <3>1 DEF Saving, Known
    <3> QED
      BY <1>1, <1>3, <3>2, <3>3 DEF Saving, Known
  <2>14. OneClient'
    <3>1. \A i, j \in 1..Len(toHost') : i + 1 = j + 1 => i = j
      BY <1>3
    <3>2. \A i \in 1..Len(toHost') : i + 1 # 1
      BY <1>3
    <3>3. \A i \in 1..Len(toHost') : toHost'[i].method = "open" =>
            \A h \in 1..Len(clients') : clients'[h].persistent => clients'[h].id # toHost'[i].client
      BY <1>3, <2>6, <3>2 DEF Saving, OneClient
    <3>4. \A i, j \in 1..Len(toHost') :
            toHost'[i].method = "open" /\ toHost'[j].method = "open" /\ toHost'[j].client = toHost'[i].client => i = j
      BY <1>3, <3>1 DEF Saving, OneClient
    <3>5. \A i \in 1..Len(toHost') : toHost'[i].method = "open" => toHost'[i].client \in opened'
      BY <1>1, <1>3 DEF Saving, OneClient
    <3>6. \A h \in 1..Len(clients') : Persistent(h)' = clients'[h].persistent
      BY DEF Persistent
    <3> QED
      BY <1>1, <2>6, <3>3, <3>4, <3>5, <3>6 DEF OneClient
  <2>15. Pipeline'
    <3>1. \A t : Covers(Flushed, t) => Covers(Flushed', t)
      BY <2>6, CoversFacts
    <3>2. ready = "done" => Covers(Flushed', disk)
      BY <3>1 DEF Saving, Pipeline
    <3>3. \A i \in 1..Len(writes) :
           /\ Covers(writes[i].stored, disk) /\ Covers(Flushed', writes[i].stored)
           /\ \A j \in 1..Len(writes) : i < j => Covers(writes[j].stored, writes[i].stored)
      BY <3>1 DEF Saving, Pipeline
    <3>4. \A i \in 1..Len(toApp) : Snapshot(i) =>
           /\ Covers(toApp[i].result.stored, disk) /\ Covers(Flushed', toApp[i].result.stored)
           /\ \A j \in 1..Len(writes) : Covers(toApp[i].result.stored, writes[j].stored)
           /\ \A j \in 1..Len(toApp) : i < j /\ Snapshot(j) =>
                Covers(toApp[j].result.stored, toApp[i].result.stored)
      BY <3>1 DEF Saving, Pipeline
    <3>5. /\ Covers(Flushed, disk) /\ Covers(Flushed', Flushed)
          /\ \A j \in 1..Len(writes) : Covers(Flushed, writes[j].stored)
          /\ \A i \in 1..Len(toApp) : Snapshot(i) => Covers(Flushed, toApp[i].result.stored)
      BY <1>7, <2>6 DEF Saving, Pipeline
    <3>6. \A i \in 1..Len(toApp') : Snapshot(i)' =>
           /\ Covers(toApp'[i].result.stored, disk) /\ Covers(Flushed', toApp'[i].result.stored)
           /\ \A j \in 1..Len(writes) : Covers(toApp'[i].result.stored, writes[j].stored)
      BY <2>9, <2>11, <3>4, <3>5
    <3>7. \A i, j \in 1..Len(toApp') : Snapshot(i)' /\ i < j /\ Snapshot(j)' =>
                Covers(toApp'[j].result.stored, toApp'[i].result.stored)
      BY <2>9, <2>10, <2>11, <3>4, <3>5
    <3> QED
      BY <1>1, <3>2, <3>3, <3>6, <3>7 DEF Pipeline
  <2>16. Promised'
    <3>1. \A i \in 1..Len(toHost') : toHost'[i].method = "snapshot" =>
           \A c \in toHost'[i].acked : Has(Flushed', c)
      <4> SUFFICES ASSUME NEW i \in 1..Len(toHost'), toHost'[i].method = "snapshot",
                          NEW c \in toHost'[i].acked
                   PROVE  Has(Flushed', c)
        OBVIOUS
      <4>1. Has(Flushed, c)
        BY <1>3 DEF Saving, Promised
      <4>2. c \in Calls
        <5>1. toHost'[i] \in Request
          BY <1>2, <1>3, ElementOfSeq
        <5> QED
          BY <5>1 DEF Request
      <4> QED
        BY <2>6, <4>1, <4>2, CoversFacts
    <3>2. req.method = "snapshot" => \A c \in req.acked : Has(Flushed, c)
      BY <1>3 DEF Saving, Promised
    <3>3. \A i \in 1..Len(toApp') : Snapshot(i)' =>
           \A c \in pending'[toApp'[i].id].acked : Has(toApp'[i].result.stored, c)
      BY <1>1, <1>4, <2>8, <2>9, <2>11, <3>2, ZenonT(60) DEF Saving, Promised
    <3> QED
      BY <1>1, <3>1, <3>3 DEF Saving, Promised
  <2> QED
    BY <2>12, <2>13, <2>14, <2>15, <2>16 DEF Saving
<1> QED
  BY <1>5, <1>6, <1>7

(* The facade: the answer to a restore opens the app for calls, that to a   *)
(* save() becomes the last of the writes.                                   *)
LEMMA HandleSaves ==
    ASSUME RpcInv, Saving, HandleMessage
    PROVE  Saving'
<1> DEFINE m == Head(toApp)
<1>1. /\ toApp # <<>> /\ toApp' = Tail(toApp)
      /\ HandleReady(m) \/ HandleAnswer(m)
      /\ UNCHANGED <<toHost, clients, store, disk, opened, kept>>
  BY DEF HandleMessage, hostVars
<1>2. /\ toApp \in Seq(Answer) /\ writes \in Seq(Write) /\ Len(writes) \in Nat /\ clients \in Seq(ClientSet)
      /\ Len(clients) \in Nat
  BY LenProperties DEF RpcInv, Types
<1>3. /\ m \in Answer /\ m = toApp[1] /\ 1 \in 1..Len(toApp) /\ Len(toApp) \in Nat
      /\ Len(toApp') \in Nat
      /\ \A i \in 1..Len(toApp') : i + 1 \in 1..Len(toApp) /\ toApp'[i] = toApp[i + 1]
  BY <1>1, <1>2, TailProperties
<1> HIDE DEF m
<1>4. /\ \A i \in 1..Len(toApp') : 1 < i + 1 /\ i + 1 # 1
      /\ \A i, j \in 1..Len(toApp') : i < j => i + 1 < j + 1
  BY <1>3
<1>5. Flushed' = Flushed
  BY <1>1 DEF Flushed
<1>6. \A h \in 1..Len(clients) : Persistent(h)' = Persistent(h)
  BY <1>1 DEF Persistent
<1>7. OneClient'
  BY <1>1, <1>6 DEF Saving, OneClient
<1>8. CASE HandleReady(m)
  <2>1. UNCHANGED <<ready, pending, handles, writes>>
    BY <1>8 DEF HandleReady
  <2>2. \A i \in 1..Len(toApp') : Snapshot(i)' => Snapshot(i + 1)
    BY <1>3, <2>1 DEF Snapshot
  <2>3. Quiet'
    BY <1>1, <1>3, <2>1 DEF Saving, Quiet
  <2>4. Known'
    BY <1>1, <1>3, <2>1 DEF Saving, Known
  <2>5. Pipeline'
    BY <1>1, <1>3, <1>4, <1>5, <2>1, <2>2, ZenonT(60) DEF Saving, Pipeline
  <2>6. Promised'
    BY <1>1, <1>3, <1>5, <2>1, <2>2 DEF Saving, Promised
  <2> QED
    BY <1>7, <2>3, <2>4, <2>5, <2>6 DEF Saving
<1>9. CASE HandleAnswer(m)
  <2> DEFINE c == m.id
             w == [stored |-> m.result.stored, acked |-> pending[c].acked]
             saved == m.result.ok /\ pending[c].method = "snapshot"
  <2>1. /\ c # 0 /\ c \in DOMAIN pending
        /\ pending' = Without(pending, c)
        /\ handles' = (IF m.result.ok /\ m.result.handle # 0 THEN handles \cup {m.result.handle} ELSE handles)
        /\ ready' = (IF pending[c].method = "restore" THEN "done" ELSE ready)
        /\ writes' = IF saved THEN Append(writes, w) ELSE writes
    BY <1>9 DEF HandleAnswer, SettledCall
  <2>2. c \in DOMAIN outcome /\ m.result \in Results /\ m.result.handle \in 0..Len(clients)
    BY <1>3, <2>1 DEF RpcInv, Answered, Answer, Saving, Known
  <2>3. w \in Write /\ w.stored = m.result.stored /\ w.acked = pending[c].acked
    BY <2>1, <2>2 DEF RpcInv, Types, Write, Request, Results
  <2>4. \A x \in DOMAIN pending : x # c => x \in DOMAIN pending' /\ pending'[x] = pending[x]
    BY <2>1 DEF Without
  <2>5. \A i \in 1..Len(toHost) : toHost[i].id # c
    BY <2>2 DEF RpcInv, OnTheWay
  <2>6. \A i \in 1..Len(toApp') : toApp'[i].id # 0 => toApp'[i].id # c
    BY <1>3, <1>4, <2>1 DEF RpcInv, Answered
  <2>7. \A i \in 1..Len(toApp') : toApp'[i].id # 0 =>
          toApp'[i].id \in DOMAIN pending /\ pending'[toApp'[i].id] = pending[toApp'[i].id]
          /\ toApp'[i].id \in DOMAIN pending'
    BY <1>3, <2>4, <2>6 DEF Saving, Known
  <2>8. \A i \in 1..Len(toApp') : Snapshot(i)' => Snapshot(i + 1)
    BY <1>3, <2>7 DEF Snapshot
  <2>9. saved => Snapshot(1)
    BY <1>3, <2>1 DEF Snapshot
  <2> HIDE DEF w
  <2>10. ~saved => writes' = writes
    BY <2>1
  <2>11. saved => /\ Len(writes') = Len(writes) + 1
                  /\ \A i \in 1..Len(writes) : writes'[i] = writes[i]
                  /\ writes'[Len(writes) + 1] = w
                  /\ \A i \in 1..Len(writes') : i \in 1..Len(writes) \/ i = Len(writes) + 1
    BY <1>2, <2>1, <2>3, AppendLast
  <2>12. \A i \in 1..Len(writes') :
           \/ i \in 1..Len(writes) /\ writes'[i] = writes[i]
           \/ i = Len(writes) + 1 /\ saved /\ writes'[i] = w
    BY <2>10, <2>11
  <2> HIDE DEF saved, c
  <2>13. Quiet' /\ (ready # "done" /\ ready' = "done" => store = disk /\ clients = <<>>)
    <3>1. CASE ready = "done"
      BY <2>1, <3>1 DEF Quiet
    <3>2. CASE ready # "done"
      <4>1. ready = "restoring" /\ store = disk /\ pending[c].method = "restore" /\ clients = <<>>
        BY <1>3, <2>1, <3>2 DEF Saving, Quiet, c
      <4> QED
        BY <2>1, <4>1 DEF Quiet
    <3> QED
      BY <3>1, <3>2
  <2>14. Known'
    <3>1. handles' \subseteq 1..Len(clients')
      <4>1. m.result.handle # 0 => m.result.handle \in 1..Len(clients)
        BY <1>2, <2>2
      <4> QED
        BY <1>1, <2>1, <4>1 DEF Saving, Known
    <3>2. \A i \in 1..Len(toHost') : toHost'[i].id \in DOMAIN pending' /\ pending'[toHost'[i].id] = toHost'[i]
      BY <1>1, <2>4, <2>5 DEF Saving, Known
    <3>3. \A i \in 1..Len(toHost') : ready' = "done" => toHost'[i].method # "restore"
      <4>1. CASE ready = "done"
        BY <1>1, <4>1 DEF Saving, Known
      <4>2. CASE ready # "done"
        BY <1>1, <1>3, <2>1, <4>2 DEF Saving, Quiet, c
      <4> QED
        BY <4>1, <4>2
    <3>4. \A i \in 1..Len(toApp') : toApp'[i].id # 0 => toApp'[i].result.handle \in 0..Len(clients')
      BY <1>1, <1>3 DEF Saving, Known
    <3> QED
      BY <2>7, <3>1, <3>2, <3>3, <3>4 DEF Known
  <2>15. Pipeline'
    <3>1. ready' = "done" => Covers(Flushed, disk)
      <4>1. CASE ready = "done"
        BY <4>1 DEF Saving, Pipeline
      <4>2. CASE ready # "done" /\ ready' = "done"
        <5>1. store = disk /\ clients = <<>>
          BY <2>13, <4>2
        <5>2. \A i \in Ids : FlushedOf(clients, store)[i] = store[i]
          <6>1. 1..Len(clients) = {}
            BY <5>1, EmptySeq
          <6> QED
            BY <1>2, <6>1, FlushedValue
        <5>3. Flushed = FlushedOf(clients, store)
          BY DEF Flushed, FlushedOf
        <5> QED
          BY <5>1, <5>2, <5>3 DEF Covers
      <4> QED
        BY <4>1, <4>2
    <3>2. saved => /\ Covers(w.stored, disk) /\ Covers(Flushed, w.stored)
                   /\ \A j \in 1..Len(writes) : Covers(w.stored, writes[j].stored)
                   /\ \A j \in 1..Len(toApp) : 1 < j /\ Snapshot(j) =>
                        Covers(toApp[j].result.stored, w.stored)
      BY <1>3, <2>3, <2>9 DEF Saving, Pipeline
    <3>3. \A i \in 1..Len(writes') :
           Covers(writes'[i].stored, disk) /\ Covers(Flushed, writes'[i].stored)
      BY <2>12, <3>2 DEF Saving, Pipeline
    <3>4. \A i, j \in 1..Len(writes') : i < j => Covers(writes'[j].stored, writes'[i].stored)
      <4>1. \A i, j \in 1..Len(writes') : i < j /\ j \in 1..Len(writes) => i \in 1..Len(writes)
        BY <1>2
      <4>2. \A i, j \in 1..Len(writes') : i < j /\ i = Len(writes) + 1 => j # Len(writes) + 1
        BY <1>2
      <4>3. \A i, j \in 1..Len(writes') : i < j => i \in 1..Len(writes)
        BY <1>2, <2>12, <4>1, <4>2
      <4> QED
        BY <2>12, <3>2, <4>3 DEF Saving, Pipeline
    <3>5. \A i \in 1..Len(toApp') : Snapshot(i)' =>
         /\ Covers(toApp'[i].result.stored, disk) /\ Covers(Flushed, toApp'[i].result.stored)
         /\ \A j \in 1..Len(toApp') : i < j /\ Snapshot(j)' =>
              Covers(toApp'[j].result.stored, toApp'[i].result.stored)
      BY <1>3, <1>4, <2>8 DEF Saving, Pipeline
    <3>6. \A i \in 1..Len(toApp') : Snapshot(i)' =>
            \A j \in 1..Len(writes') : Covers(toApp'[i].result.stored, writes'[j].stored)
      BY <1>3, <1>4, <2>8, <2>12, <3>2 DEF Saving, Pipeline
    <3> QED
      BY <1>1, <1>5, <3>1, <3>3, <3>4, <3>5, <3>6 DEF Pipeline
  <2>16. Promised'
    <3>1. saved => \A x \in w.acked : Has(w.stored, x)
      BY <1>3, <2>3, <2>9 DEF Saving, Promised, c
    <3>2. \A i \in 1..Len(writes') : \A x \in writes'[i].acked : Has(writes'[i].stored, x)
      BY <2>12, <3>1 DEF Saving, Promised
    <3>3. \A i \in 1..Len(toApp') : Snapshot(i)' =>
            \A x \in pending'[toApp'[i].id].acked : Has(toApp'[i].result.stored, x)
      <4> SUFFICES ASSUME NEW i \in 1..Len(toApp'), Snapshot(i)'
                   PROVE  \A x \in pending'[toApp'[i].id].acked : Has(toApp'[i].result.stored, x)
        OBVIOUS
      <4>1. Snapshot(i + 1) /\ i + 1 \in 1..Len(toApp) /\ toApp'[i] = toApp[i + 1] /\ toApp'[i].id # 0
        BY <1>3, <2>8 DEF Snapshot
      <4>2. pending'[toApp'[i].id] = pending[toApp[i + 1].id]
        BY <2>7, <4>1
      <4> QED
        BY <4>1, <4>2 DEF Saving, Promised
    <3> QED
      BY <1>1, <1>5, <3>2, <3>3 DEF Saving, Promised
  <2> QED
    BY <1>7, <2>13, <2>14, <2>15, <2>16 DEF Saving
<1> QED
  BY <1>1, <1>8, <1>9

(* The page, ready() before the restore, the app's storage, and a restart,  *)
(* of which only the storage is left.                                       *)
LEMMA OthersSave ==
    ASSUME awaits, RpcInv, Saving,
           Mount \/ ScriptRuns \/ InitEnds \/ Ready \/ ReadyReads \/ ReadyRestores \/ SetItem \/ Restart
    PROVE  Saving'
<1>0. /\ toApp \in Seq(Answer) /\ writes \in Seq(Write) /\ Len(toApp) \in Nat /\ Len(writes) \in Nat
      /\ toHost \in Seq(Request) /\ clients \in Seq(ClientSet) /\ disk \in Stores
  BY LenProperties DEF RpcInv, Types
<1>1. ASSUME UNCHANGED <<pending, handles, opened, toHost, toApp, clients, store, disk, writes, kept>>,
             \/ ready' = ready
             \/ ready # "done" /\ ready # "restoring" /\ ready' # "done"
      PROVE  Saving'
  <2>1. Flushed' = Flushed
    BY <1>1 DEF Flushed
  <2>2. \A i \in 1..Len(toApp) : Snapshot(i)' <=> Snapshot(i)
    BY <1>1 DEF Snapshot
  <2>3. \A h \in 1..Len(clients) : Persistent(h)' <=> Persistent(h)
    BY <1>1 DEF Persistent
  <2>4. Quiet'
    BY <1>1 DEF Saving, Quiet
  <2>5. Known' /\ OneClient'
    BY <1>1, <2>3 DEF Saving, Quiet, Known, OneClient
  <2>6. Pipeline' /\ Promised'
    BY <1>1, <2>1, <2>2 DEF Saving, Pipeline, Promised
  <2> QED
    BY <2>4, <2>5, <2>6 DEF Saving
<1>2. ASSUME Mount \/ ScriptRuns \/ Ready \/ ReadyReads PROVE Saving'
  <2>1. /\ UNCHANGED <<pending, handles, opened, toHost, toApp, clients, store, disk, writes, kept>>
        /\ \/ ready' = ready
           \/ ready # "done" /\ ready # "restoring" /\ ready' # "done"
    BY <1>2 DEF Mount, ScriptRuns, Ready, ReadyReads, appVars, channels, hostVars, history
  <2> QED
    BY <1>1, <2>1
<1>3. ASSUME InitEnds PROVE Saving'
  <2>1. /\ UNCHANGED <<pending, ready, opened, handles, toHost, clients, store, disk, writes, kept>>
        /\ \E r \in {Done, Error} : toApp' = Append(toApp, [id |-> 0, result |-> r])
    BY <1>3 DEF InitEnds, appVars, hostVars, history
  <2>2. PICK r \in {Done, Error} : toApp' = Append(toApp, [id |-> 0, result |-> r])
    BY <2>1
  <2> DEFINE msg == [id |-> 0, result |-> r]
  <2>3. msg \in Answer /\ msg.id = 0
    BY StoreTypes DEF Answer
  <2>4. toApp' = Append(toApp, msg)
    BY <2>2
  <2> HIDE DEF msg
  <2>5. \A i \in 1..Len(toApp') : \/ i \in 1..Len(toApp) /\ toApp'[i] = toApp[i]
                                 \/ toApp'[i].id = 0
    BY <1>0, <2>3, <2>4, AppendLast
  <2>6. Flushed' = Flushed
    BY <2>1 DEF Flushed
  <2>7. \A i \in 1..Len(toApp') : Snapshot(i)' =>
          i \in 1..Len(toApp) /\ toApp'[i] = toApp[i] /\ Snapshot(i)
    BY <2>1, <2>5 DEF Snapshot
  <2>8. \A h \in 1..Len(clients) : Persistent(h)' <=> Persistent(h)
    BY <2>1 DEF Persistent
  <2>9. Quiet'
    BY <2>1, <2>5 DEF Saving, Quiet
  <2>10. Known' /\ OneClient'
    BY <2>1, <2>5, <2>8 DEF Saving, Known, OneClient
  <2>11. Pipeline'
    BY <2>1, <2>6, <2>7 DEF Saving, Pipeline
  <2>12. Promised'
    BY <2>1, <2>6, <2>7 DEF Saving, Promised
  <2> QED
    BY <2>9, <2>10, <2>11, <2>12 DEF Saving
<1>4. ASSUME ReadyRestores PROVE Saving'
  <2>1. /\ ready = "reading"
        /\ UNCHANGED <<opened, handles, toApp, clients, store, disk, writes, kept>>
    BY <1>4 DEF ReadyRestores, hostVars
  <2>2. /\ writes = <<>> /\ clients = <<>> /\ handles = {} /\ opened = {}
        /\ Len(toHost) = 0 /\ \A j \in 1..Len(toApp) : toApp[j].id = 0
    <3>1. Len(toHost) \in Nat /\ 1..Len(toHost) = {}
      BY <1>0, <2>1, LenProperties DEF Saving, Quiet
    <3> QED
      BY <2>1, <3>1 DEF Saving, Quiet
  <2>3. 1..Len(writes) = {} /\ 1..Len(clients) = {} /\ \A i \in 1..Len(toApp) : ~Snapshot(i)'
    BY <2>1, <2>2, EmptySeq DEF Snapshot
  <2>4. \A c \in kept : c \in Calls /\ Has(disk, c)
    BY DEF Saving, Promised
  <2>5. CASE disk = EmptyStore /\ ready' = "done" /\ UNCHANGED <<pending, toHost, issued>>
    <3>1. Covers(Flushed', disk')
      BY <2>1, <2>5, CoversFacts
    <3>2. Quiet'
      BY <2>5 DEF Quiet
    <3>3. Known' /\ OneClient'
      BY <2>1, <2>2, <2>3, <2>5 DEF Known, OneClient
    <3>4. Pipeline'
      BY <2>1, <2>3, <3>1 DEF Pipeline
    <3>5. Promised'
      BY <2>1, <2>2, <2>3, <2>4, <2>5 DEF Promised
    <3> QED
      BY <3>2, <3>3, <3>4, <3>5 DEF Saving
  <2>6. CASE ready' = "restoring" /\ RequestSent("restore", AnyId, 0, disk, {})
    <3> DEFINE req == NewRequest("restore", AnyId, 0, disk, {})
    <3>1. /\ req \in Request /\ req.id = NextCall
          /\ pending' = Extend(pending, NextCall, req)
          /\ toHost' = IF page = "unmounted" THEN toHost ELSE Append(toHost, req)
      BY <1>0, <2>6, RequestFacts, StoreTypes DEF Methods
    <3>2. req.method = "restore" /\ req.stored = disk
      BY DEF NewRequest
    <3> HIDE DEF req
    <3>3. NextCall \in DOMAIN pending' /\ pending'[NextCall] = req
      BY <3>1 DEF Extend
    <3>4. Len(toHost') <= 1 /\ \A i \in 1..Len(toHost') : toHost'[i] = req
      <4>1. CASE page = "unmounted"
        BY <2>2, <3>1, <4>1
      <4>2. CASE page # "unmounted"
        <5>1. toHost' = Append(toHost, req)
          BY <3>1, <4>2
        <5>2. Len(toHost') = Len(toHost) + 1 /\ toHost'[Len(toHost) + 1] = req
          BY <1>0, <3>1, <5>1, AppendLast
        <5> QED
          BY <2>2, <5>2
      <4> QED
        BY <4>1, <4>2
    <3>5. Quiet'
      BY <2>1, <2>2, <2>6, <3>2, <3>4 DEF Quiet
    <3>6. Known'
      BY <2>1, <2>2, <2>6, <3>1, <3>3, <3>4 DEF Known
    <3>7. OneClient'
      BY <2>1, <2>3, <3>2, <3>4 DEF OneClient
    <3>8. Pipeline'
      BY <2>1, <2>3, <2>6 DEF Pipeline
    <3>9. Promised'
      BY <2>1, <2>3, <2>4, <3>2, <3>4 DEF Promised
    <3> QED
      BY <3>5, <3>6, <3>7, <3>8, <3>9 DEF Saving
  <2> QED
    BY <1>4, <2>5, <2>6 DEF ReadyRestores
<1>5. ASSUME SetItem PROVE Saving'
  <2> DEFINE w == Head(writes)
  <2>1. /\ UNCHANGED <<ready, pending, opened, handles, toHost, toApp, clients, store>>
        /\ writes # <<>> /\ writes' = Tail(writes) /\ disk' = w.stored /\ kept' = kept \cup w.acked
    BY <1>5 DEF SetItem, appVars, channels, hostVars
  <2>2. /\ w \in Write /\ w = writes[1] /\ 1 \in 1..Len(writes)
        /\ Len(writes') \in Nat
        /\ \A i \in 1..Len(writes') : i + 1 \in 1..Len(writes) /\ writes'[i] = writes[i + 1]
    BY <1>0, <2>1, TailProperties
  <2> HIDE DEF w
  <2>3. /\ \A i \in 1..Len(writes') : 1 < i + 1
        /\ \A i, j \in 1..Len(writes') : i < j => i + 1 < j + 1
    BY <2>2
  <2>4. Flushed' = Flushed
    BY <2>1 DEF Flushed
  <2>5. \A i \in 1..Len(toApp) : Snapshot(i)' <=> Snapshot(i)
    BY <2>1 DEF Snapshot
  <2>6. \A h \in 1..Len(clients) : Persistent(h)' <=> Persistent(h)
    BY <2>1 DEF Persistent
  <2>7. ready = "done"
    BY <2>1 DEF Saving, Quiet
  <2>8. Quiet' /\ Known' /\ OneClient'
    BY <2>1, <2>6, <2>7 DEF Saving, Quiet, Known, OneClient
  <2>9. /\ Covers(w.stored, disk) /\ Covers(Flushed, w.stored)
        /\ \A i \in 1..Len(toApp) : Snapshot(i) => Covers(toApp[i].result.stored, w.stored)
        /\ \A i \in 1..Len(writes') : Covers(writes'[i].stored, w.stored)
    BY <2>2, <2>3 DEF Saving, Pipeline
  <2>10. Pipeline'
    BY <2>1, <2>2, <2>3, <2>4, <2>5, <2>9 DEF Saving, Pipeline
  <2>11. \A c \in kept' : c \in Calls /\ Has(disk', c)
    <3>1. \A c \in w.acked : c \in Calls /\ Has(w.stored, c)
      BY <2>2 DEF Saving, Promised, Write
    <3>2. \A c \in kept : c \in Calls /\ Has(w.stored, c)
      BY <2>9, CoversFacts DEF Saving, Promised
    <3> QED
      BY <2>1, <3>1, <3>2
  <2>12. Promised'
    BY <2>1, <2>2, <2>4, <2>5, <2>11 DEF Saving, Promised
  <2> QED
    BY <2>8, <2>10, <2>12 DEF Saving
<1>6. ASSUME Restart PROVE Saving'
  <2>1. /\ ready' = "idle" /\ handles' = {} /\ opened' = {} /\ toHost' = <<>> /\ toApp' = <<>>
        /\ clients' = <<>> /\ writes' = <<>> /\ UNCHANGED <<disk, kept>>
    BY <1>6 DEF Restart, history
  <2>2. Len(toHost') = 0 /\ Len(toApp') = 0 /\ Len(clients') = 0 /\ Len(writes') = 0
    BY <2>1, EmptySeq
  <2>3. 1..Len(toHost') = {} /\ 1..Len(toApp') = {} /\ 1..Len(clients') = {} /\ 1..Len(writes') = {}
    BY <2>2
  <2>4. Quiet'
    BY <2>1, <2>2, <2>3 DEF Quiet
  <2>5. Known' /\ OneClient'
    BY <2>1, <2>3 DEF Known, OneClient
  <2>6. Pipeline'
    BY <2>1, <2>3 DEF Pipeline
  <2>7. Promised'
    BY <2>1, <2>3 DEF Saving, Promised
  <2> QED
    BY <2>4, <2>5, <2>6, <2>7 DEF Saving
<1> QED
  BY <1>2, <1>3, <1>4, <1>5, <1>6

(* Every step keeps what the saves rely on. *)
LEMMA SaveStep ==
    ASSUME OpenOnce, RpcInv, RpcInv', SaveInv, [Step(Next)]_vars
    PROVE  SaveInv'
<1>1. awaits' = awaits
  BY DEF Step, vars
<1>2. SUFFICES ASSUME awaits, Saving PROVE Saving'
  BY <1>1 DEF SaveInv
<1>3. CASE Next
  BY <1>2, <1>3, CallsSave, OthersSave, HostSaves, HandleSaves DEF Next
<1>4. CASE UNCHANGED vars
  <2>1. UNCHANGED <<ready, pending, handles, opened, toHost, toApp, clients, store, disk, writes, kept>>
    BY <1>4 DEF vars, appVars, channels, hostVars, history
  <2>2. Flushed' = Flushed
    BY <2>1 DEF Flushed
  <2>3. \A i \in 1..Len(toApp) : Snapshot(i)' <=> Snapshot(i)
    BY <2>1 DEF Snapshot
  <2>4. \A h \in 1..Len(clients) : Persistent(h)' <=> Persistent(h)
    BY <2>1 DEF Persistent
  <2>5. Quiet' /\ Known' /\ OneClient'
    BY <1>2, <2>1, <2>4 DEF Saving, Quiet, Known, OneClient
  <2>6. Pipeline' /\ Promised'
    BY <1>2, <2>1, <2>2, <2>3 DEF Saving, Pipeline, Promised
  <2> QED
    BY <2>5, <2>6 DEF Saving
<1> QED
  BY <1>3, <1>4 DEF Step

(* At the first start nothing has been promised. *)
LEMMA SaveInit == Init => SaveInv
<1> SUFFICES ASSUME Init PROVE Saving
  BY DEF SaveInv
<1>1. /\ ready = "idle" /\ handles = {} /\ opened = {} /\ toHost = <<>> /\ toApp = <<>>
      /\ clients = <<>> /\ writes = <<>> /\ kept = {}
  BY DEF Init
<1>2. Len(toHost) = 0 /\ Len(toApp) = 0 /\ Len(clients) = 0 /\ Len(writes) = 0
  BY <1>1, EmptySeq
<1>3. 1..Len(toHost) = {} /\ 1..Len(toApp) = {} /\ 1..Len(clients) = {} /\ 1..Len(writes) = {}
  BY <1>2
<1>4. Quiet /\ Known /\ OneClient
  BY <1>1, <1>2, <1>3 DEF Quiet, Known, OneClient
<1>5. Pipeline /\ Promised
  BY <1>1, <1>3 DEF Pipeline, Promised
<1> QED
  BY <1>4, <1>5 DEF Saving

(* What a save() that resolved had to keep stays in the app's storage, over *)
(* later saves and restarts, for an app that awaits ready() and opens every *)
(* id once per session (Mls.save, MlsHost.snapshot and restore).            *)
THEOREM SavedRemains == ASSUME OpenOnce PROVE Spec => []SavedChangesKept
<1>1. Init => RpcInv /\ SaveInv
  BY BridgeInit, SaveInit
<1>2. RpcInv /\ SaveInv /\ [Step(Next)]_vars => RpcInv' /\ SaveInv'
  BY BridgeSimulates, SaveStep
<1>3. SaveInv => SavedChangesKept
  BY DEF SaveInv, Saving, Promised, SavedChangesKept, Has
<1> QED
  BY <1>1, <1>2, <1>3, PTL DEF Spec
=============================================================================
