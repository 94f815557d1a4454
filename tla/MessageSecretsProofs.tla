------------------------ MODULE MessageSecretsProofs ------------------------
(***************************************************************************)
(* Proofs about the structures that keep and delete the secrets of         *)
(* messages: the store of past epochs, for every capacity and policy, the  *)
(* dual-use ratchet of a virtual client, for every tolerance and forward   *)
(* distance, and the ratchet of a sender, for every width of the           *)
(* generation too.                                                         *)
(***************************************************************************)
EXTENDS SenderRatchet, PastSecrets, DualUseRatchet, SequenceTheorems, FiniteSetTheorems, TLAPS

-----------------------------------------------------------------------------
(* The store of past epochs.                                                *)

(* The trees are those of the epochs just before e. *)
Latest(s, e) == \A i \in 1..Len(s) : s[i].epoch = e - 1 - (Len(s) - i)

(* Secrets without a reading are older than those with one: only an older   *)
(* version of the library stored such.                                      *)
UndatedFirst(s, c) ==
    /\ \A i, j \in 1..Len(s) : i <= j /\ s[j].added_at = Absent => s[i].added_at = Absent
    /\ c.added_at = Absent => \A i \in 1..Len(s) : s[i].added_at = Absent

Ordered(s, c) == Latest(s, c.epoch) /\ UndatedFirst(s, c)

PastInv ==
    /\ PastTypeOK
    /\ Len(past_epoch_trees) <= max_epochs
    /\ ~shrunk => Ordered(past_epoch_trees, current)

(* drain(0..n) leaves the later ones. *)
LEMMA DropFirstProperties ==
    ASSUME NEW s \in Seq(Secrets), NEW n \in 0..Len(s)
    PROVE  /\ DropFirst(s, n) \in Seq(Secrets)
           /\ Len(DropFirst(s, n)) = Len(s) - n
           /\ \A i \in 1..(Len(s) - n) : DropFirst(s, n)[i] = s[n + i]
<1>1. Len(s) \in Nat /\ n \in Nat /\ n <= Len(s)
  BY LenProperties
<1>2. \A i \in n + 1..Len(s) : s[i] \in Secrets
  BY <1>1, ElementOfSeq
<1> DEFINE t == SubSeq(s, n + 1, Len(s))
<1>3. /\ t \in Seq(Secrets)
      /\ Len(t) = IF n + 1 <= Len(s) THEN Len(s) - (n + 1) + 1 ELSE 0
      /\ \A i \in 1..(Len(s) - (n + 1) + 1) : t[i] = s[n + 1 + i - 1]
  BY <1>1, <1>2, SubSeqProperties
<1> HIDE DEF t
<1>4. Len(t) = Len(s) - n
  BY <1>1, <1>3
<1>5. Len(s) - (n + 1) + 1 = Len(s) - n /\ \A i \in 1..(Len(s) - n) : n + 1 + i - 1 = n + i
  BY <1>1
<1>6. \A i \in 1..(Len(s) - n) : t[i] = s[n + i]
  BY <1>3, <1>5
<1> QED
  BY <1>3, <1>4, <1>6 DEF t, DropFirst

(* What is left after the oldest were dropped are still the latest ones. *)
LEMMA DropFirstOrdered ==
    ASSUME NEW s \in Seq(Secrets), NEW n \in 0..Len(s), NEW c \in Secrets, Ordered(s, c)
    PROVE  Ordered(DropFirst(s, n), c)
<1> DEFINE t == DropFirst(s, n)
<1>1. Len(s) \in Nat /\ n \in Nat /\ n <= Len(s) /\ c.epoch \in Nat
  BY LenProperties DEF Secrets
<1>2. Len(t) = Len(s) - n /\ \A i \in 1..(Len(s) - n) : t[i] = s[n + i]
  BY DropFirstProperties
<1> HIDE DEF t
<1>3. \A i \in 1..Len(t) : n + i \in 1..Len(s) /\ t[i] = s[n + i]
  BY <1>1, <1>2
<1>4. Latest(t, c.epoch)
  <2> SUFFICES ASSUME NEW i \in 1..Len(t)
               PROVE  t[i].epoch = c.epoch - 1 - (Len(t) - i)
    BY DEF Latest
  <2>1. s[n + i].epoch = c.epoch - 1 - (Len(s) - (n + i))
    BY <1>3 DEF Ordered, Latest
  <2>2. Len(s) - (n + i) = Len(t) - i
    BY <1>1, <1>2
  <2> QED
    BY <1>3, <2>1, <2>2
<1>5. UndatedFirst(t, c)
  <2>1. \A i, j \in 1..Len(t) : i <= j => n + i <= n + j
    BY <1>1, <1>2
  <2>2. \A i, j \in 1..Len(t) : i <= j /\ t[j].added_at = Absent => t[i].added_at = Absent
    BY <1>3, <2>1 DEF Ordered, UndatedFirst
  <2>3. c.added_at = Absent => \A i \in 1..Len(t) : t[i].added_at = Absent
    BY <1>3 DEF Ordered, UndatedFirst
  <2> QED
    BY <2>2, <2>3 DEF UndatedFirst
<1> QED
  BY <1>4, <1>5 DEF Ordered, t

(* Rotating by n and truncating keeps at most what fits; if exactly the n   *)
(* oldest do not fit, it drops them.                                        *)
LEMMA RotateTruncate ==
    ASSUME NEW s \in Seq(Secrets), NEW n \in 0..Len(s), NEW m \in Nat
    PROVE  /\ TruncateTo(RotateLeft(s, n), m) \in Seq(Secrets)
           /\ Len(TruncateTo(RotateLeft(s, n), m)) <= m
           /\ Len(TruncateTo(RotateLeft(s, n), m)) <= Len(s)
           /\ m = Len(s) - n => TruncateTo(RotateLeft(s, n), m) = DropFirst(s, n)
<1>1. Len(s) \in Nat /\ n \in Nat /\ n <= Len(s)
  BY LenProperties
<1> DEFINE a == DropFirst(s, n)
           b == SubSeq(s, 1, n)
           r == a \o b
           t == SubSeq(r, 1, m)
<1>2. a \in Seq(Secrets) /\ Len(a) = Len(s) - n
  BY DropFirstProperties
<1>3. b \in Seq(Secrets) /\ Len(b) = n
  <2>1. \A i \in 1..n : s[i] \in Secrets
    BY <1>1, ElementOfSeq
  <2>2. b \in Seq(Secrets) /\ Len(b) = IF 1 <= n THEN n - 1 + 1 ELSE 0
    BY <1>1, <2>1, SubSeqProperties
  <2> HIDE DEF b
  <2> QED
    BY <1>1, <2>2
<1>4. r = RotateLeft(s, n)
  BY DEF RotateLeft, DropFirst
<1> HIDE DEF a, b
<1>5. r \in Seq(Secrets) /\ Len(r) = Len(a) + Len(b) /\ \A i \in 1..Len(a) : r[i] = a[i]
  <2>1. /\ r \in Seq(Secrets) /\ Len(r) = Len(a) + Len(b)
        /\ \A i \in 1..(Len(a) + Len(b)) :
              r[i] = IF i <= Len(a) THEN a[i] ELSE b[i - Len(a)]
    BY <1>2, <1>3, ConcatProperties
  <2> HIDE DEF r
  <2>2. \A i \in 1..Len(a) : i \in 1..(Len(a) + Len(b)) /\ i <= Len(a)
    BY <1>1, <1>2, <1>3
  <2> QED
    BY <2>1, <2>2
<1> HIDE DEF r
<1>6. Len(r) = Len(s) /\ Len(r) \in Nat
  BY <1>1, <1>2, <1>3, <1>5
<1>7. CASE Len(r) <= m
  <2>1. TruncateTo(r, m) = r
    BY <1>7 DEF TruncateTo
  <2>2. ASSUME m = Len(s) - n PROVE r = a
    <3>1. Len(r) = Len(a)
      BY <1>1, <1>2, <1>6, <1>7, <2>2
    <3> QED
      BY <1>2, <1>5, <3>1, SeqEqual
  <2> QED
    BY <1>4, <1>5, <1>6, <1>7, <2>1, <2>2 DEF a
<1>8. CASE m < Len(r)
  <2>1. TruncateTo(r, m) = t
    BY <1>6, <1>8 DEF TruncateTo
  <2>2. \A i \in 1..m : r[i] \in Secrets
    BY <1>5, <1>6, <1>8, ElementOfSeq
  <2>3. /\ t \in Seq(Secrets) /\ Len(t) = IF 1 <= m THEN m - 1 + 1 ELSE 0
        /\ \A i \in 1..(m - 1 + 1) : t[i] = r[1 + i - 1]
    BY <2>2, SubSeqProperties
  <2> HIDE DEF t
  <2>4. Len(t) = m
    BY <2>3
  <2>5. m - 1 + 1 = m /\ \A i \in 1..m : 1 + i - 1 = i
    OBVIOUS
  <2>6. \A i \in 1..m : t[i] = r[i]
    BY <2>3, <2>5
  <2>7. ASSUME m = Len(s) - n PROVE t = a
    BY <1>2, <1>5, <2>3, <2>4, <2>6, <2>7, SeqEqual
  <2> QED
    BY <1>4, <1>6, <1>8, <2>1, <2>3, <2>4, <2>7 DEF a
<1> QED
  BY <1>6, <1>7, <1>8

(* The elements of a finite set of numbers, counted from the least one. *)
LEMMA NthProperties ==
    ASSUME NEW S \in SUBSET Nat, IsFiniteSet(S), NEW n \in 1..Cardinality(S)
    PROVE  Nth(S, n) \in S /\ Rank(S, Nth(S, n)) = n
<1> DEFINE upTo(i) == {k \in S : k <= i}
           T == 1..Cardinality(S)
           f == [i \in S |-> Rank(S, i)]
<1>1. Cardinality(S) \in Nat
  BY FS_CardinalityType
<1>2. ASSUME NEW i \in S
      PROVE  IsFiniteSet(upTo(i)) /\ Cardinality(upTo(i)) \in T
  <2>1. upTo(i) \in SUBSET S
    OBVIOUS
  <2>2. IsFiniteSet(upTo(i)) /\ Cardinality(upTo(i)) <= Cardinality(S)
    BY <2>1, FS_Subset
  <2>3. i \in upTo(i)
    OBVIOUS
  <2>4. Cardinality(upTo(i)) \in Nat /\ Cardinality(upTo(i)) # 0
    BY <2>2, <2>3, FS_CardinalityType, FS_EmptySet
  <2> QED
    BY <1>1, <2>2, <2>4
<1>3. ASSUME NEW i \in S, NEW j \in S, i < j
      PROVE  Cardinality(upTo(i)) # Cardinality(upTo(j))
  <2>1. upTo(i) \in SUBSET upTo(j)
    <3>1. \A k \in S : k <= i => k <= j
      BY <1>3
    <3> QED
      BY <3>1
  <2>2. j \in upTo(j) /\ j \notin upTo(i)
    BY <1>3
  <2>3. upTo(i) # upTo(j)
    BY <2>2
  <2>4. IsFiniteSet(upTo(j))
    BY <1>2
  <2> HIDE DEF upTo
  <2> QED
    BY <2>1, <2>3, <2>4, FS_Subset
<1>4. \A i, j \in S : Rank(S, i) = Rank(S, j) => i = j
  <2> SUFFICES ASSUME NEW i \in S, NEW j \in S, Rank(S, i) = Rank(S, j), i # j PROVE FALSE
    OBVIOUS
  <2>1. i < j \/ j < i
    OBVIOUS
  <2> QED
    BY <1>3, <2>1 DEF Rank
<1>5. f \in [S -> T]
  BY <1>2 DEF Rank
<1>6. f \in Injection(S, T)
  BY <1>4, <1>5 DEF Injection, IsInjective
<1>7. IsFiniteSet(T) /\ Cardinality(T) = Cardinality(S)
  BY <1>1, FS_Interval
<1> HIDE DEF T
<1>8. f \in Surjection(S, T)
  BY <1>6, <1>7, FS_Injection
<1>9. \E i \in S : Rank(S, i) = n
  <2>1. n \in T
    BY DEF T
  <2>2. PICK i \in S : f[i] = n
    BY <1>8, <2>1 DEF Surjection
  <2> QED
    BY <2>2
<1> QED
  BY <1>9 DEF Nth

(* A finite set of numbers has a least and a greatest element. *)
LEMMA Extremes ==
    ASSUME NEW S \in SUBSET Nat, IsFiniteSet(S), S # {}
    PROVE  /\ \E i \in S : \A j \in S : i <= j
           /\ \E i \in S : \A j \in S : j <= i
<1>1. Cardinality(S) \in Nat /\ Cardinality(S) # 0
  BY FS_CardinalityType, FS_EmptySet
<1>2. \E i \in S : \A j \in S : i <= j
  <2> DEFINE i == Nth(S, 1)
             below == {k \in S : k <= i}
  <2>1. i \in S /\ Cardinality(below) = 1
    BY <1>1, NthProperties DEF Rank
  <2> HIDE DEF i
  <2>2. IsFiniteSet(below)
    BY FS_Subset
  <2>3. PICK x : below = {x}
    <3> HIDE DEF below
    <3> QED
      BY <2>1, <2>2, FS_Singleton
  <2>4. \A j \in S : j <= i => j = i
    BY <2>1, <2>3
  <2>5. \A j \in S : i <= j
    BY <2>1, <2>4
  <2> QED
    BY <2>1, <2>5
<1>3. \E i \in S : \A j \in S : j <= i
  <2> DEFINE i == Nth(S, Cardinality(S))
             below == {k \in S : k <= i}
  <2>1. i \in S /\ Cardinality(below) = Cardinality(S)
    BY <1>1, NthProperties DEF Rank
  <2> HIDE DEF i
  <2>2. below \in SUBSET S
    OBVIOUS
  <2>3. below = S
    <3> HIDE DEF below
    <3> QED
      BY <2>1, <2>2, FS_Subset
  <2> QED
    BY <2>1, <2>3
<1> QED
  BY <1>2, <1>3

(* The size of an interval, an empty one included. *)
LEMMA IntervalSize ==
    ASSUME NEW a \in Int, NEW b \in Int, a <= b + 1
    PROVE  IsFiniteSet(a..b) /\ Cardinality(a..b) = b - a + 1
<1>1. IsFiniteSet(a..b) /\ Cardinality(a..b) = IF a > b THEN 0 ELSE b - a + 1
  BY FS_Interval
<1>2. a > b => b - a + 1 = 0
  OBVIOUS
<1> QED
  BY <1>1, <1>2

(* Deleting the trees without a reading deletes nothing else, and if those  *)
(* are the oldest it drops a prefix.                                        *)
LEMMA RetainProperties ==
    ASSUME NEW s \in Seq(Secrets), NEW c \in Secrets
    PROVE  /\ DeleteAllWithoutTimestamp(s) \in Seq(Secrets)
           /\ Len(DeleteAllWithoutTimestamp(s)) <= Len(s)
           /\ UndatedFirst(s, c) =>
                \E n \in 0..Len(s) : DeleteAllWithoutTimestamp(s) = DropFirst(s, n)
<1> DEFINE D == Dated(s)
           N == Cardinality(D)
           t == DeleteAllWithoutTimestamp(s)
<1>1. Len(s) \in Nat /\ \A i \in 1..Len(s) : s[i] \in Secrets
  BY LenProperties, ElementOfSeq
<1>2. D \in SUBSET (1..Len(s)) /\ D \in SUBSET Nat
  BY <1>1 DEF Dated
<1>3. IsFiniteSet(D) /\ N \in Nat /\ N <= Len(s)
  <2>1. IsFiniteSet(1..Len(s)) /\ Cardinality(1..Len(s)) = Len(s)
    BY <1>1, IntervalSize
  <2> HIDE DEF D
  <2> QED
    BY <1>2, <2>1, FS_Subset, FS_CardinalityType
<1>4. \A n \in 1..N : Nth(D, n) \in D /\ Rank(D, Nth(D, n)) = n
  BY <1>2, <1>3, NthProperties
<1>5. t = [n \in 1..N |-> s[Nth(D, n)]]
  BY DEF DeleteAllWithoutTimestamp
<1> HIDE DEF D, t, N
<1>6. t \in Seq(Secrets) /\ Len(t) = N
  <2>1. t \in [1..N -> Secrets] /\ DOMAIN t = 1..N
    BY <1>1, <1>2, <1>4, <1>5
  <2>2. t \in Seq(Secrets)
    BY <1>3, <2>1, SeqDef
  <2>3. Len(t) \in Nat /\ DOMAIN t = 1..Len(t)
    BY <2>2, LenProperties
  <2> QED
    BY <1>3, <2>1, <2>2, <2>3
<1>7. ASSUME UndatedFirst(s, c)
      PROVE  \E n \in 0..Len(s) : t = DropFirst(s, n)
  <2>1. CASE D = {}
    <3>1. N = 0
      BY <2>1, FS_EmptySet DEF N
    <3>2. t = <<>>
      BY <1>6, <3>1, EmptySeq
    <3>3. DropFirst(s, Len(s)) = <<>>
      BY <1>1, SubSeqEmpty DEF DropFirst
    <3> QED
      BY <1>1, <3>2, <3>3
  <2>2. CASE D # {}
    <3>1. PICK m \in D : \A j \in D : m <= j
      BY <1>2, <1>3, <2>2, Extremes
    <3> DEFINE n == m - 1
    <3>2. m \in 1..Len(s) /\ n \in 0..Len(s) /\ n \in Nat
      BY <1>1, <1>2
    <3>3. D = m..Len(s)
      <4>1. \A j \in m..Len(s) : j \in D
        BY <1>7, <3>1, <3>2, <1>1 DEF D, Dated, UndatedFirst
      <4>2. \A j \in D : j \in m..Len(s)
        BY <1>1, <1>2, <3>1, <3>2
      <4> QED
        BY <4>1, <4>2
    <3>4. N = Len(s) - n
      BY <1>1, <3>2, <3>3, IntervalSize DEF N
    <3>5. \A k \in 1..N : Nth(D, k) = n + k
      <4> SUFFICES ASSUME NEW k \in 1..N PROVE Nth(D, k) = n + k
        OBVIOUS
      <4> DEFINE i == Nth(D, k)
      <4>1. i \in D /\ Rank(D, i) = k
        BY <1>4
      <4> HIDE DEF i
      <4>2. {j \in D : j <= i} = m..i
        BY <1>1, <3>2, <3>3, <4>1
      <4>3. Rank(D, i) = i - m + 1
        <5>1. i \in Int /\ m \in Int /\ m <= i + 1
          BY <1>1, <3>2, <3>3, <4>1
        <5> QED
          BY <4>2, <5>1, IntervalSize DEF Rank
      <4> QED
        BY <1>1, <1>3, <3>2, <3>3, <4>1, <4>3 DEF i
    <3>6. /\ DropFirst(s, n) \in Seq(Secrets) /\ Len(DropFirst(s, n)) = Len(s) - n
          /\ \A i \in 1..(Len(s) - n) : DropFirst(s, n)[i] = s[n + i]
      BY <3>2, DropFirstProperties
    <3> HIDE DEF n
    <3>7. \A i \in 1..N : t[i] = DropFirst(s, n)[i]
      BY <1>5, <3>4, <3>5, <3>6
    <3>8. t = DropFirst(s, n)
      BY <1>6, <3>4, <3>6, <3>7, SeqEqual
    <3> QED
      BY <3>2, <3>8
  <2> QED
    BY <2>1, <2>2
<1> QED
  BY <1>3, <1>6, <1>7 DEF t, N

(* The trees that a deletion leaves: some of the kept ones, and, where the  *)
(* kept ones are the latest in order, the latest of them.                   *)
Remains(t, s, c) ==
    /\ t \in Seq(Secrets) /\ Len(t) <= Len(s)
    /\ Ordered(s, c) => Ordered(t, c)

(* Dropping the oldest is such a deletion, and two deletions are one. *)
LEMMA RemainsProperties ==
    ASSUME NEW s \in Seq(Secrets), NEW c \in Secrets
    PROVE  /\ Remains(s, s, c) /\ Remains(<<>>, s, c)
           /\ \A n \in 0..Len(s) : Remains(DropFirst(s, n), s, c)
           /\ \A t, u : Remains(t, s, c) /\ Remains(u, t, c) => Remains(u, s, c)
<1>1. Len(s) \in Nat
  BY LenProperties
<1>2. Remains(<<>>, s, c)
  <2>1. <<>> \in Seq(Secrets) /\ Len(<<>>) = 0
    BY EmptySeq
  <2>2. Ordered(<<>>, c)
    BY <2>1 DEF Ordered, Latest, UndatedFirst
  <2> QED
    BY <1>1, <2>1, <2>2 DEF Remains
<1>3. ASSUME NEW n \in 0..Len(s) PROVE Remains(DropFirst(s, n), s, c)
  <2>1. DropFirst(s, n) \in Seq(Secrets) /\ Len(DropFirst(s, n)) = Len(s) - n
    BY DropFirstProperties
  <2> QED
    BY <1>1, <2>1, DropFirstOrdered DEF Remains
<1>4. ASSUME NEW t, NEW u, Remains(t, s, c), Remains(u, t, c) PROVE Remains(u, s, c)
  <2>1. Len(t) \in Nat /\ Len(u) \in Nat
    BY <1>4, LenProperties DEF Remains
  <2> QED
    BY <1>1, <1>4, <2>1 DEF Remains
<1> QED
  BY <1>1, <1>2, <1>3, <1>4 DEF Remains

(* Draining down to a number of trees drops the oldest. *)
LEMMA KeepAtMostRemains ==
    ASSUME NEW s \in Seq(Secrets), NEW c \in Secrets, NEW keep \in {Absent} \cup 0..Capacity
    PROVE  Remains(KeepAtMost(s, keep), s, c)
<1>1. CASE keep # Absent /\ Len(s) > keep
  <2>1. Len(s) - keep \in 0..Len(s)
    BY <1>1, LenProperties, PastConstants
  <2> QED
    BY <1>1, <2>1, RemainsProperties DEF KeepAtMost
<1>2. CASE ~(keep # Absent /\ Len(s) > keep)
  BY <1>2, RemainsProperties DEF KeepAtMost
<1> QED
  BY <1>1, <1>2

(* So does deleting what was added before a cutoff. *)
LEMMA BeforeTimestampRemains ==
    ASSUME PastTypeOK, NEW cutoff \in Times
    PROVE  Remains(DeleteBeforeTimestamp(past_epoch_trees, cutoff), past_epoch_trees, current)
<1> DEFINE s == past_epoch_trees
           found == {i \in 1..Len(s) : Before(s[i], cutoff)}
           last == CHOOSE i \in found : \A j \in found : j <= i
<1>1. s \in Seq(Secrets) /\ current \in Secrets /\ Len(s) \in Nat
  BY LenProperties DEF PastTypeOK
<1>2. CASE Before(current, cutoff)
  BY <1>1, <1>2, RemainsProperties DEF DeleteBeforeTimestamp
<1>3. CASE ~Before(current, cutoff) /\ found = {}
  <2>1. DeleteBeforeTimestamp(s, cutoff) = s
    BY <1>3 DEF DeleteBeforeTimestamp
  <2> QED
    BY <1>1, <2>1, RemainsProperties
<1>4. CASE ~Before(current, cutoff) /\ found # {}
  <2>1. DeleteBeforeTimestamp(s, cutoff) = DropFirst(s, last)
    BY <1>4 DEF DeleteBeforeTimestamp
  <2>2. found \in SUBSET (1..Len(s)) /\ found \in SUBSET Nat
    BY <1>1
  <2>3. IsFiniteSet(found)
    <3>1. IsFiniteSet(1..Len(s))
      BY <1>1, IntervalSize
    <3> HIDE DEF found
    <3> QED
      BY <2>2, <3>1, FS_Subset
  <2> HIDE DEF found
  <2>4. last \in found
    BY <1>4, <2>2, <2>3, Extremes
  <2> HIDE DEF last
  <2>5. last \in 0..Len(s)
    <3>1. last \in 1..Len(s)
      BY <2>2, <2>4
    <3> QED
      BY <1>1, <3>1
  <2> QED
    BY <1>1, <2>1, <2>5, RemainsProperties
<1> QED
  BY <1>2, <1>3, <1>4

(* A new group, or one of an older version, keeps the epochs just before    *)
(* its own.                                                                 *)
LEMMA PastInvInit ==
    ASSUME PastInit
    PROVE  PastInv
<1>1. max_epochs \in 0..Capacity
  BY PastConstants DEF PastInit, Policies, MaxEpochs, KeepAll
<1>2. CASE past_epoch_trees = <<>> /\ \E now \in Times : current = MessageSecrets(0, now)
  <2>1. <<>> \in Seq(Secrets) /\ Len(<<>>) = 0
    BY EmptySeq
  <2>2. current \in Secrets
    BY <1>2 DEF MessageSecrets, Secrets
  <2>3. Ordered(<<>>, current)
    BY <2>1 DEF Ordered, Latest, UndatedFirst
  <2> QED
    <3>1. PastTypeOK
      BY <1>1, <1>2, <2>1, <2>2 DEF PastInit, PastTypeOK
    <3>2. Len(past_epoch_trees) <= max_epochs
      BY <1>1, <1>2, <2>1, PastConstants
    <3> QED
      BY <1>2, <2>3, <3>1, <3>2 DEF PastInv
<1>3. ASSUME NEW k \in 0..max_epochs,
             past_epoch_trees = [i \in 1..k |-> MessageSecrets(i - 1, Absent)],
             current = MessageSecrets(k, Absent)
      PROVE  PastInv
  <2> DEFINE s == past_epoch_trees
  <2>1. k \in Nat /\ k <= max_epochs
    BY <1>1, <1>3, PastConstants
  <2>2. \A i \in 1..k : i - 1 \in Nat /\ s[i] = MessageSecrets(i - 1, Absent)
    BY <1>3, <2>1
  <2>3. s \in [1..k -> Secrets] /\ DOMAIN s = 1..k
    BY <1>3, <2>2 DEF MessageSecrets, Secrets
  <2>4. s \in Seq(Secrets)
    BY <2>1, <2>3, SeqDef
  <2>5. Len(s) = k
    BY <2>1, <2>3, <2>4, LenProperties
  <2>6. current \in Secrets /\ current.epoch = k
    BY <1>3, <2>1 DEF MessageSecrets, Secrets
  <2>7. \A i \in 1..k : s[i].epoch = i - 1 /\ s[i].added_at = Absent
    <3> HIDE DEF s
    <3>1. \A x \in Nat : MessageSecrets(x, Absent).epoch = x /\ MessageSecrets(x, Absent).added_at = Absent
      BY DEF MessageSecrets
    <3> QED
      BY <2>2, <3>1
  <2>8. \A i \in 1..k : i - 1 = k - 1 - (k - i)
    BY <2>1
  <2>9. Ordered(s, current)
    <3> HIDE DEF s
    <3>1. Latest(s, current.epoch)
      BY <2>5, <2>6, <2>7, <2>8 DEF Latest
    <3> QED
      BY <2>5, <2>7, <3>1 DEF Ordered, UndatedFirst
  <2> QED
    BY <1>1, <2>1, <2>4, <2>5, <2>6, <2>9 DEF PastInv, PastTypeOK, PastInit
<1> QED
  BY <1>2, <1>3 DEF PastInit

(* A deletion keeps the invariant. *)
LEMMA DeleteSteps ==
    ASSUME PastInv,
           \/ \E keep \in {Absent} \cup 0..Capacity :
                \/ \E cutoff \in Times : DeleteBefore(cutoff, keep)
                \/ DeleteUndated(keep)
           \/ DeleteAll
    PROVE  PastInv'
<1> DEFINE s == past_epoch_trees
<1>1. s \in Seq(Secrets) /\ current \in Secrets /\ Len(s) \in Nat /\ max_epochs \in Nat
  BY LenProperties, PastConstants DEF PastInv, PastTypeOK
<1>2. UNCHANGED <<max_epochs, current, shrunk>>
  BY DEF DeleteBefore, DeleteUndated, DeleteAll
<1>3. Remains(past_epoch_trees', s, current)
  <2>1. ASSUME NEW keep \in {Absent} \cup 0..Capacity, NEW cutoff \in Times, DeleteBefore(cutoff, keep)
        PROVE  Remains(past_epoch_trees', s, current)
    <3> DEFINE t == DeleteBeforeTimestamp(s, cutoff)
    <3>1. past_epoch_trees' = KeepAtMost(t, keep)
      BY <2>1 DEF DeleteBefore
    <3>2. Remains(t, s, current)
      BY BeforeTimestampRemains DEF PastInv
    <3> HIDE DEF t
    <3>3. Remains(KeepAtMost(t, keep), t, current)
      BY <1>1, <3>2, KeepAtMostRemains DEF Remains
    <3> QED
      BY <1>1, <3>1, <3>2, <3>3, RemainsProperties
  <2>2. ASSUME NEW keep \in {Absent} \cup 0..Capacity, DeleteUndated(keep)
        PROVE  Remains(past_epoch_trees', s, current)
    <3> DEFINE t == DeleteAllWithoutTimestamp(s)
    <3>1. past_epoch_trees' = KeepAtMost(t, keep)
      BY <2>2 DEF DeleteUndated
    <3>2. Remains(t, s, current)
      <4>1. /\ t \in Seq(Secrets) /\ Len(t) <= Len(s)
            /\ UndatedFirst(s, current) => \E n \in 0..Len(s) : t = DropFirst(s, n)
        BY <1>1, RetainProperties
      <4> HIDE DEF t
      <4> QED
        BY <1>1, <4>1, DropFirstOrdered DEF Remains, Ordered
    <3> HIDE DEF t
    <3>3. Remains(KeepAtMost(t, keep), t, current)
      BY <1>1, <3>2, KeepAtMostRemains DEF Remains
    <3> QED
      BY <1>1, <3>1, <3>2, <3>3, RemainsProperties
  <2>3. ASSUME DeleteAll PROVE Remains(past_epoch_trees', s, current)
    BY <1>1, <2>3, RemainsProperties DEF DeleteAll
  <2> QED
    BY <2>1, <2>2, <2>3
<1>4. Len(past_epoch_trees') \in Nat
  BY <1>3, LenProperties DEF Remains
<1>5. PastTypeOK'
  BY <1>2, <1>3 DEF PastInv, PastTypeOK, Remains
<1>6. Len(past_epoch_trees') <= max_epochs'
  BY <1>1, <1>2, <1>3, <1>4 DEF PastInv, Remains
<1>7. ~shrunk' => Ordered(past_epoch_trees', current')
  BY <1>2, <1>3 DEF PastInv, Remains
<1> QED
  BY <1>5, <1>6, <1>7 DEF PastInv, Ordered, Latest, UndatedFirst

(* A commit adds the epoch that it ends behind the ones before. *)
LEMMA MergeStep ==
    ASSUME PastInv, NEW now \in Times, MergeCommit(now)
    PROVE  PastInv'
<1> DEFINE s == past_epoch_trees
           e == current.epoch
<1>1. /\ s \in Seq(Secrets) /\ current \in Secrets /\ Len(s) \in Nat /\ max_epochs \in Nat
      /\ Len(s) <= max_epochs /\ e \in Nat
  BY LenProperties, PastConstants DEF PastInv, PastTypeOK, Secrets
<1>2. /\ past_epoch_trees' = AddPastEpochTree(s, max_epochs, current)
      /\ current' = MessageSecrets(e + 1, now) /\ UNCHANGED <<max_epochs, shrunk>>
  BY DEF MergeCommit
<1>3. current' \in Secrets /\ current'.epoch = e + 1 /\ current'.added_at # Absent
  BY <1>1, <1>2, PastConstants DEF MessageSecrets, Secrets, Absent
<1>4. ASSUME NEW t \in Seq(Secrets), Ordered(s, current) => Ordered(t, current),
             Len(t) + 1 <= max_epochs, past_epoch_trees' = Append(t, current)
      PROVE  PastInv'
  <2> DEFINE u == Append(t, current)
  <2>1. Len(t) \in Nat
    BY LenProperties
  <2>2. /\ u \in Seq(Secrets) /\ Len(u) = Len(t) + 1 /\ u[Len(t) + 1] = current
        /\ \A i \in 1..Len(t) : u[i] = t[i]
    BY <1>1, AppendProperties
  <2> HIDE DEF u
  <2>3. ASSUME Ordered(t, current) PROVE Ordered(u, current')
    <3>1. \A i \in 1..Len(u) : i \in 1..Len(t) \/ i = Len(t) + 1
      BY <2>1, <2>2
    <3>2. Latest(u, e + 1)
      <4> SUFFICES ASSUME NEW i \in 1..Len(u)
                   PROVE  u[i].epoch = (e + 1) - 1 - (Len(u) - i)
        BY DEF Latest
      <4>1. CASE i = Len(t) + 1
        BY <1>1, <2>1, <2>2, <4>1
      <4>2. CASE i \in 1..Len(t)
        <5>1. u[i].epoch = e - 1 - (Len(t) - i)
          BY <2>2, <2>3, <4>2 DEF Ordered, Latest
        <5>2. (e + 1) - 1 - (Len(u) - i) = e - 1 - (Len(t) - i)
          <6>1. Len(u) - i = (Len(t) - i) + 1 /\ Len(t) - i \in Int
            BY <2>1, <2>2, <4>2
          <6>2. \A x, y \in Int : (x + 1) - 1 - (y + 1) = x - 1 - y
            OBVIOUS
          <6> HIDE DEF e
          <6> QED
            BY <1>1, <6>1, <6>2
        <5> QED
          BY <5>1, <5>2
      <4> QED
        BY <3>1, <4>1, <4>2
    <3>3. \A i, j \in 1..Len(u) : i <= j /\ u[j].added_at = Absent => u[i].added_at = Absent
      <4> SUFFICES ASSUME NEW i \in 1..Len(u), NEW j \in 1..Len(u), i <= j, u[j].added_at = Absent
                   PROVE  u[i].added_at = Absent
        OBVIOUS
      <4>1. CASE j = Len(t) + 1
        BY <2>2, <2>3, <3>1, <4>1 DEF Ordered, UndatedFirst
      <4>2. CASE j \in 1..Len(t)
        <5>1. i \in 1..Len(t)
          BY <2>1, <4>2
        <5> QED
          BY <2>2, <2>3, <4>2, <5>1 DEF Ordered, UndatedFirst
      <4> QED
        BY <3>1, <4>1, <4>2
    <3> QED
      BY <1>3, <3>2, <3>3 DEF Ordered, UndatedFirst
  <2>4. past_epoch_trees' = u
    BY <1>4 DEF u
  <2>5. PastTypeOK'
    BY <1>2, <1>3, <2>2, <2>4 DEF PastInv, PastTypeOK
  <2>6. Len(past_epoch_trees') <= max_epochs'
    BY <1>2, <1>4, <2>2, <2>4
  <2>7. ~shrunk' => Ordered(u, current')
    BY <1>2, <1>4, <2>3 DEF PastInv
  <2> QED
    BY <2>4, <2>5, <2>6, <2>7 DEF PastInv, Ordered, Latest, UndatedFirst
<1>5. CASE max_epochs = 0
  <2>1. past_epoch_trees' = s /\ Len(s) = 0
    BY <1>1, <1>2, <1>5 DEF AddPastEpochTree
  <2>2. PastTypeOK' /\ Len(past_epoch_trees') <= max_epochs'
    BY <1>2, <1>3, <2>1 DEF PastInv, PastTypeOK
  <2> QED
    BY <2>1, <2>2 DEF PastInv, Ordered, Latest, UndatedFirst
<1>6. CASE max_epochs # 0 /\ Len(s) >= max_epochs
  <2> DEFINE t == TruncateTo(RotateLeft(s, 1), max_epochs - 1)
  <2>1. past_epoch_trees' = Append(t, current)
    BY <1>2, <1>6 DEF AddPastEpochTree
  <2>2. max_epochs - 1 \in Nat /\ 1 \in 0..Len(s) /\ max_epochs - 1 = Len(s) - 1
    BY <1>1, <1>6
  <2>3. t \in Seq(Secrets) /\ Len(t) <= max_epochs - 1 /\ t = DropFirst(s, 1)
    BY <1>1, <2>2, RotateTruncate
  <2> HIDE DEF t
  <2>4. Ordered(s, current) => Ordered(t, current)
    BY <1>1, <2>2, <2>3, DropFirstOrdered
  <2>5. Len(t) + 1 <= max_epochs
    BY <1>1, <2>3, LenProperties
  <2> QED
    BY <1>4, <2>1, <2>3, <2>4, <2>5
<1>7. CASE max_epochs # 0 /\ Len(s) < max_epochs
  <2>1. past_epoch_trees' = Append(s, current)
    BY <1>1, <1>2, <1>7 DEF AddPastEpochTree
  <2>2. Len(s) + 1 <= max_epochs
    BY <1>1, <1>7
  <2> QED
    BY <1>1, <1>4, <2>1, <2>2
<1> QED
  BY <1>1, <1>5, <1>6, <1>7

(* A resize keeps at most the new capacity; of a full store it keeps the    *)
(* latest.                                                                  *)
LEMMA ResizeStep ==
    ASSUME PastInv, NEW policy \in Policies, Resize(policy)
    PROVE  PastInv'
<1> DEFINE s == past_epoch_trees
           new == MaxEpochs(policy)
           out == max_epochs - new
           n == IF out < Len(s) THEN out ELSE Len(s)
<1>1. /\ s \in Seq(Secrets) /\ current \in Secrets /\ Len(s) \in Nat /\ max_epochs \in Nat
      /\ Len(s) <= max_epochs
  BY LenProperties, PastConstants DEF PastInv, PastTypeOK
<1>2. new \in 0..Capacity /\ new \in Nat
  BY PastConstants DEF Policies, MaxEpochs, KeepAll
<1>3. /\ max_epochs' = new /\ current' = current
      /\ past_epoch_trees' = IF out > 0 THEN TruncateTo(RotateLeft(s, n), new) ELSE s
      /\ shrunk' = (shrunk \/ (out > 0 /\ Len(s) < max_epochs))
  BY DEF Resize
<1> HIDE DEF new
<1>4. CASE out > 0
  <2>1. n \in 0..Len(s)
    BY <1>1, <1>2, <1>4
  <2> DEFINE t == TruncateTo(RotateLeft(s, n), new)
  <2>2. /\ t \in Seq(Secrets) /\ Len(t) <= new
        /\ new = Len(s) - n => t = DropFirst(s, n)
    BY <1>1, <1>2, <2>1, RotateTruncate
  <2>3. ASSUME ~shrunk' PROVE Ordered(t, current)
    <3>1. ~shrunk /\ Len(s) = max_epochs
      <4>1. ~shrunk /\ ~(out > 0 /\ Len(s) < max_epochs)
        BY <1>3, <2>3
      <4> QED
        BY <1>1, <1>4, <4>1
    <3>2. new = Len(s) - n
      BY <1>1, <1>2, <1>4, <3>1
    <3>3. Ordered(s, current)
      BY <3>1 DEF PastInv
    <3> HIDE DEF n, t
    <3> QED
      BY <1>1, <2>1, <2>2, <3>2, <3>3, DropFirstOrdered
  <2>4. past_epoch_trees' = t
    BY <1>3, <1>4
  <2> HIDE DEF t, n
  <2>5. PastTypeOK'
    BY <1>1, <1>2, <1>3, <2>2, <2>4 DEF PastInv, PastTypeOK
  <2> QED
    BY <1>3, <2>2, <2>3, <2>4, <2>5 DEF PastInv, Ordered, Latest, UndatedFirst
<1>5. CASE ~(out > 0)
  <2>1. past_epoch_trees' = s /\ shrunk' = shrunk /\ Len(s) <= new
    BY <1>1, <1>2, <1>3, <1>5 DEF PastInv, PastTypeOK
  <2>2. PastTypeOK'
    BY <1>1, <1>2, <1>3, <2>1 DEF PastInv, PastTypeOK
  <2> QED
    BY <1>3, <2>1, <2>2 DEF PastInv, Ordered, Latest, UndatedFirst
<1> QED
  BY <1>4, <1>5

(* MessageSecretsStore keeps no more than the policy in force allows, and   *)
(* exactly the epochs before the current one, whatever is deleted, resized  *)
(* and merged in whatever order (past_secrets.rs).                          *)
THEOREM StoreKeepsTheLatest ==
    PastSpec => []KeepsTheLatest
<1>1. PastInit => PastInv
  BY PastInvInit
<1>2. PastInv /\ [PastNext]_pastVars => PastInv'
  <2> SUFFICES ASSUME PastInv, [PastNext]_pastVars PROVE PastInv'
    OBVIOUS
  <2>1. CASE PastNext
    BY <2>1, MergeStep, ResizeStep, DeleteSteps DEF PastNext
  <2>2. CASE UNCHANGED pastVars
    BY <2>2 DEF pastVars, PastInv, PastTypeOK, Ordered, Latest, UndatedFirst
  <2> QED
    BY <2>1, <2>2
<1>3. PastInv => KeepsTheLatest
  BY DEF PastInv, KeepsTheLatest, Ordered, Latest
<1> QED
  BY <1>1, <1>2, <1>3, PTL DEF PastSpec
-----------------------------------------------------------------------------
(* The dual-use ratchet.                                                    *)

Usage == {"Awaiting", "Available", "Consumed"}

(* A secret that was handed out is of a generation passed and is not there  *)
(* to be handed out again.                                                  *)
DualInv ==
    /\ generation \in 0..Limit
    /\ DOMAIN past \subseteq 0..(generation - 1) /\ \A g \in DOMAIN past : past[g] \in Usage
    /\ unconfirmed \subseteq Nat
    /\ opened \in [0..Limit -> Nat]
    /\ \A g \in 0..Limit : opened[g] > 0 =>
         g < generation /\ (g \in DOMAIN past => past[g] = "Consumed")
    /\ OwnSecretsKept

(* Pruning leaves at most the tolerance, and only takes from what is kept   *)
(* for decryption: those left are the latest, down to a least one, and that *)
(* one has at most so many at or above it.                                  *)
LEMMA PruneProperties ==
    ASSUME NEW map, NEW n \in Nat, DOMAIN map \subseteq 0..n, Tolerance \in Nat
    PROVE  /\ DOMAIN Prune(map) \subseteq DOMAIN map
           /\ \A g \in DOMAIN Prune(map) : Prune(map)[g] = map[g]
           /\ \A g \in DOMAIN map : map[g] = "Awaiting" => g \in DOMAIN Prune(map)
           /\ Cardinality(Retained(Prune(map))) <= Tolerance
<1> DEFINE R == Retained(map)
           above(g) == {h \in R : h >= g}
           gone == {g \in R : Cardinality(above(g)) > Tolerance}
           K == R \ gone
<1>1. DOMAIN Prune(map) = DOMAIN map \ gone /\ \A g \in DOMAIN map \ gone : Prune(map)[g] = map[g]
  BY DEF Prune, Without
<1>2. \A g \in gone : map[g] # "Awaiting"
  BY DEF Retained
<1>3. Retained(Prune(map)) = K
  <2> HIDE DEF gone
  <2> QED
    BY <1>1 DEF Retained
<1>4. R \subseteq 0..n /\ R \in SUBSET Nat /\ IsFiniteSet(R)
  <2>1. IsFiniteSet(0..n)
    BY FS_Interval
  <2>2. R \in SUBSET (0..n)
    BY DEF Retained
  <2> QED
    BY <2>1, <2>2, FS_Subset
<1> HIDE DEF R
<1>5. K \in SUBSET R /\ K \in SUBSET Nat /\ IsFiniteSet(K)
  <2>1. K \in SUBSET R
    OBVIOUS
  <2> HIDE DEF K
  <2> QED
    BY <1>4, <2>1, FS_Subset
<1>6. Cardinality(K) <= Tolerance
  <2>1. CASE K = {}
    <3> HIDE DEF K
    <3> QED
      BY <2>1, FS_EmptySet
  <2>2. CASE K # {}
    <3>1. PICK m \in K : \A j \in K : m <= j
      <4> HIDE DEF K
      <4> QED
        BY <1>5, <2>2, Extremes
    <3>2. K \in SUBSET above(m)
      BY <1>4, <1>5, <3>1
    <3>3. IsFiniteSet(above(m)) /\ Cardinality(above(m)) \in Nat
      <4>1. above(m) \in SUBSET R
        OBVIOUS
      <4> HIDE DEF above
      <4> QED
        BY <1>4, <4>1, FS_Subset, FS_CardinalityType
    <3>4. Cardinality(above(m)) <= Tolerance
      BY <3>1, <3>3
    <3>5. Cardinality(K) <= Cardinality(above(m)) /\ Cardinality(K) \in Nat
      <4> HIDE DEF K, above
      <4> QED
        BY <1>5, <3>2, <3>3, FS_Subset, FS_CardinalityType
    <3> HIDE DEF K, above
    <3> QED
      BY <3>3, <3>4, <3>5
  <2> QED
    BY <2>1, <2>2
<1> HIDE DEF gone, K
<1> QED
  BY <1>1, <1>2, <1>3, <1>6

(* Encrypting keeps the secret, behind all those handed out. *)
LEMMA EncryptStep ==
    ASSUME DualInv, SecretForEncryption
    PROVE  DualInv'
<1> DEFINE g == generation
<1>1. /\ g < Limit /\ past' = With(past, {g}, "Awaiting")
      /\ unconfirmed' = unconfirmed \cup {g} /\ generation' = g + 1 /\ opened' = opened
  BY DEF SecretForEncryption
<1>2. g \in Nat /\ Limit \in Nat /\ g \notin DOMAIN past /\ DOMAIN past \subseteq 0..(g - 1)
  BY DualConstants DEF DualInv
<1>3. /\ DOMAIN past' = DOMAIN past \cup {g} /\ past'[g] = "Awaiting"
      /\ \A h \in DOMAIN past : past'[h] = past[h]
  BY <1>1, <1>2 DEF With
<1>4. generation' \in 0..Limit /\ DOMAIN past' \subseteq 0..(generation' - 1)
  BY <1>1, <1>2, <1>3
<1>5. \A h \in DOMAIN past' : past'[h] \in Usage
  BY <1>3 DEF DualInv, Usage
<1>6. opened[g] = 0
  BY <1>1, <1>2 DEF DualInv
<1>7. \A h \in 0..Limit : opened'[h] > 0 =>
         h < generation' /\ (h \in DOMAIN past' => past'[h] = "Consumed")
  <2> SUFFICES ASSUME NEW h \in 0..Limit, opened[h] > 0
               PROVE  h < generation' /\ (h \in DOMAIN past' => past'[h] = "Consumed")
    BY <1>1
  <2>1. h # g
    BY <1>6
  <2>2. h < g /\ (h \in DOMAIN past => past[h] = "Consumed")
    BY DEF DualInv
  <2>3. h < generation'
    BY <1>1, <1>2, <2>2
  <2> QED
    BY <1>3, <2>1, <2>2, <2>3
<1>8. Retained(past') = Retained(past)
  BY <1>3 DEF Retained
<1>9. OwnSecretsKept'
  BY <1>1, <1>3, <1>8 DEF DualInv, OwnSecretsKept
<1> QED
  BY <1>1, <1>2, <1>4, <1>5, <1>7, <1>9 DEF DualInv

(* A confirmed secret goes. *)
LEMMA ConfirmStep ==
    ASSUME DualInv, NEW g \in 0..Limit, DeleteSecretForGeneration(g)
    PROVE  DualInv'
<1>1. /\ g \in DOMAIN past /\ past[g] = "Awaiting" /\ past' = Without(past, {g})
      /\ unconfirmed' = unconfirmed \ {g} /\ generation' = generation /\ opened' = opened
  BY DEF DeleteSecretForGeneration
<1>2. DOMAIN past' = DOMAIN past \ {g} /\ \A h \in DOMAIN past \ {g} : past'[h] = past[h]
  BY <1>1 DEF Without
<1>3. Retained(past') = Retained(past)
  BY <1>1, <1>2 DEF Retained
<1>4. OwnSecretsKept'
  BY <1>1, <1>2, <1>3 DEF DualInv, OwnSecretsKept
<1> QED
  BY <1>1, <1>2, <1>4 DEF DualInv

(* Handing out a secret of a generation that was not handed out before,     *)
(* when the map afterwards has it consumed and has been pruned.             *)
LEMMA HandOutStep ==
    ASSUME DualInv, NEW g \in 0..Limit, HandOutOwn(g), opened[g] = 0,
           generation' \in 0..Limit, generation <= generation', g < generation',
           NEW map, past' = Prune(map), DOMAIN map \subseteq 0..(generation' - 1),
           g \in DOMAIN map, map[g] = "Consumed",
           \A h \in DOMAIN map : map[h] \in Usage,
           \A h \in DOMAIN past : h # g => h \in DOMAIN map /\ map[h] = past[h],
           \A h \in DOMAIN map : h # g /\ h \notin DOMAIN past => h >= generation
    PROVE  DualInv'
<1>1. opened' = [opened EXCEPT ![g] = @ + 1] /\ unconfirmed' = unconfirmed \ {g}
  BY DEF HandOutOwn
<1>2. Limit \in Nat /\ Tolerance \in Nat /\ opened \in [0..Limit -> Nat] /\ generation \in Nat
      /\ generation' \in Nat /\ g \in Nat
  BY DualConstants DEF DualInv
<1>3. /\ DOMAIN past' \subseteq DOMAIN map
      /\ \A h \in DOMAIN past' : past'[h] = map[h]
      /\ \A h \in DOMAIN map : map[h] = "Awaiting" => h \in DOMAIN past'
      /\ Cardinality(Retained(past')) <= Tolerance
  <2>1. DOMAIN map \subseteq 0..generation'
    BY <1>2
  <2> QED
    BY <1>2, <2>1, PruneProperties
<1>4. opened' \in [0..Limit -> Nat] /\ opened'[g] = 1
      /\ \A h \in 0..Limit : h # g => opened'[h] = opened[h]
  BY <1>1, <1>2
<1>5. \A h \in 0..Limit : opened'[h] > 0 =>
         h < generation' /\ (h \in DOMAIN past' => past'[h] = "Consumed")
  <2> SUFFICES ASSUME NEW h \in 0..Limit, opened'[h] > 0
               PROVE  h < generation' /\ (h \in DOMAIN past' => past'[h] = "Consumed")
    OBVIOUS
  <2>1. CASE h = g
    BY <1>3, <2>1
  <2>2. CASE h # g
    <3>1. opened[h] > 0 /\ h < generation /\ (h \in DOMAIN past => past[h] = "Consumed")
      BY <1>4, <2>2 DEF DualInv
    <3>2. h \in DOMAIN map => h \in DOMAIN past
      BY <1>2, <2>2, <3>1
    <3> QED
      BY <1>2, <1>3, <2>2, <3>1, <3>2
  <2> QED
    BY <2>1, <2>2
<1>6. \A h \in unconfirmed' : h \in DOMAIN past' /\ past'[h] = "Awaiting"
  BY <1>1, <1>3 DEF DualInv, OwnSecretsKept
<1>7. \A h \in 0..Limit : opened'[h] <= 1
  BY <1>4 DEF DualInv, OwnSecretsKept
<1>8. OwnSecretsKept'
  BY <1>3, <1>6, <1>7 DEF OwnSecretsKept
<1> QED
  BY <1>1, <1>3, <1>4, <1>5, <1>8 DEF DualInv

(* Decrypting ahead keeps the skipped secrets and hands out a new one;      *)
(* decrypting behind hands out one that was kept.                           *)
LEMMA DecryptSteps ==
    ASSUME DualInv, NEW g \in 0..Limit, DecryptAheadOwn(g) \/ DecryptPast(g)
    PROVE  DualInv'
<1>0. Limit \in Nat /\ generation \in Nat /\ generation <= Limit /\ g \in Nat
      /\ DOMAIN past \subseteq 0..(generation - 1) /\ \A h \in DOMAIN past : past[h] \in Usage
      /\ opened \in [0..Limit -> Nat]
  BY DualConstants DEF DualInv
<1>1. CASE DecryptAheadOwn(g)
  <2> DEFINE skipped == generation..g - 1
             m1 == With(past, skipped, "Available")
             map == With(m1, {g}, "Consumed")
  <2>1. g >= generation /\ g < Limit /\ past' = Prune(map) /\ generation' = g + 1 /\ HandOutOwn(g)
    BY <1>1 DEF DecryptAheadOwn
  <2>2. /\ DOMAIN m1 = DOMAIN past \cup skipped
        /\ \A h \in skipped : m1[h] = "Available"
        /\ \A h \in DOMAIN past : h \notin skipped => m1[h] = past[h]
    BY DEF With
  <2> HIDE DEF m1
  <2>3. /\ DOMAIN map = DOMAIN m1 \cup {g} /\ map[g] = "Consumed"
        /\ \A h \in DOMAIN m1 : h # g => map[h] = m1[h]
    BY DEF With
  <2> HIDE DEF map
  <2>4. opened[g] = 0
    BY <1>0, <2>1 DEF DualInv
  <2>5. \A h \in DOMAIN past : h \notin skipped
    BY <1>0, <2>1
  <2>6. \A h \in DOMAIN past : h # g => h \in DOMAIN map /\ map[h] = past[h]
    BY <2>2, <2>3, <2>5
  <2>7. \A h \in DOMAIN map : h # g /\ h \notin DOMAIN past => h \in skipped /\ h >= generation
    BY <1>0, <2>1, <2>2, <2>3
  <2>8. \A h \in DOMAIN map : map[h] \in Usage
    BY <1>0, <2>2, <2>3, <2>6, <2>7 DEF Usage
  <2>9. DOMAIN map \subseteq 0..(generation' - 1)
    BY <1>0, <2>1, <2>2, <2>3
  <2>10. generation' \in 0..Limit /\ generation <= generation' /\ g < generation'
    BY <1>0, <2>1
  <2> QED
    BY <2>1, <2>3, <2>4, <2>6, <2>7, <2>8, <2>9, <2>10, HandOutStep
<1>2. CASE DecryptPast(g)
  <2> DEFINE map == With(past, {g}, "Consumed")
  <2>1. g < generation /\ g \in DOMAIN past /\ past[g] # "Consumed" /\ past' = Prune(map)
        /\ HandOutOwn(g) /\ generation' = generation
    BY <1>2 DEF DecryptPast
  <2>2. /\ DOMAIN map = DOMAIN past \cup {g} /\ map[g] = "Consumed"
        /\ \A h \in DOMAIN past : h # g => map[h] = past[h]
    BY DEF With
  <2> HIDE DEF map
  <2>3. opened[g] = 0
    BY <1>0, <2>1 DEF DualInv
  <2>4. \A h \in DOMAIN map : map[h] \in Usage
    BY <1>0, <2>2 DEF Usage
  <2>5. DOMAIN map \subseteq 0..(generation' - 1)
    BY <1>0, <2>1, <2>2
  <2>6. generation' \in 0..Limit /\ generation <= generation' /\ g < generation'
    BY <1>0, <2>1
  <2> QED
    BY <2>1, <2>2, <2>3, <2>4, <2>5, <2>6, HandOutStep
<1> QED
  BY <1>1, <1>2

(* Own secrets are handed out once and stay until they are confirmed, for   *)
(* every order of encryptions, confirmations and received messages          *)
(* (dual_use_ratchet.rs).                                                   *)
THEOREM DualUseKeepsOwn ==
    DualSpec => []OwnSecretsKept
<1>1. DualInit => DualInv
  <2> SUFFICES ASSUME DualInit PROVE DualInv
    OBVIOUS
  <2>1. DOMAIN past = {} /\ Retained(past) = {}
    BY DEF DualInit, Retained
  <2>2. Cardinality(Retained(past)) <= Tolerance
    BY <2>1, FS_EmptySet, DualConstants
  <2> QED
    BY <2>1, <2>2, DualConstants DEF DualInit, DualInv, OwnSecretsKept
<1>2. DualInv /\ [DualNext]_dualVars => DualInv'
  <2> SUFFICES ASSUME DualInv, [DualNext]_dualVars PROVE DualInv'
    OBVIOUS
  <2>1. CASE DualNext
    BY <2>1, EncryptStep, ConfirmStep, DecryptSteps DEF DualNext
  <2>2. CASE UNCHANGED dualVars
    BY <2>2 DEF dualVars, DualInv, OwnSecretsKept, Retained
  <2> QED
    BY <2>1, <2>2
<1>3. DualInv => OwnSecretsKept
  BY DEF DualInv
<1> QED
  BY <1>1, <1>2, <1>3, PTL DEF DualSpec
-----------------------------------------------------------------------------
(* The sender ratchet: the window of past secrets is what its indices say.  *)


USE ConfigurationAssumption

(* Messages come from the sender's past, and the receiver has ratcheted     *)
(* past no generation that the sender has not reached.                      *)
Behind == head <= sender /\ \A g \in sent : g < sender

(* Entry i of the window belongs to generation head - i, and is empty       *)
(* exactly if the secret of that generation was handed out.                 *)
WindowIndexed ==
    /\ Len(window) = IF head < OutOfOrderTolerance THEN head ELSE OutOfOrderTolerance
    /\ \A i \in 1..Len(window) :
         /\ window[i] \in {None, head - i}
         /\ window[i] = None <=> uses[head - i] > 0

(* A secret that was handed out is of a generation passed, and was handed   *)
(* out once.                                                                *)
UsedOnce == \A g \in Generations : uses[g] <= 1 /\ (uses[g] > 0 => g < head)

Inv == TypeOK /\ Behind /\ WindowIndexed /\ UsedOnce /\ RightSecret

(* A new ratchet satisfies the invariant. *)
LEMMA InvInit == Init => Inv
  <1> SUFFICES ASSUME Init PROVE Inv
    OBVIOUS
  <1>1. window \in Seq(Generations \cup {None}) /\ Len(window) = 0
    BY EmptySeq DEF Init
  <1>2. TypeOK /\ Behind
    BY <1>1 DEF Init, TypeOK, Behind, Generations
  <1>3. WindowIndexed
    BY <1>1 DEF Init, WindowIndexed
  <1>4. UsedOnce /\ RightSecret
    BY DEF Init, UsedOnce, RightSecret
  <1> QED BY <1>2, <1>3, <1>4 DEF Inv

(* What secret_for_decryption makes of past_secrets when it ratchets        *)
(* forward to g: the entries, by position.                                  *)
LEMMA PushFrontEntries ==
  ASSUME TypeOK, NEW g \in Generations, g >= head
  PROVE  /\ PushFront(g) \in Seq(Generations \cup {None})
         /\ Len(PushFront(g)) = 1 + (g - head) + Len(window)
         /\ \A i \in 1..Len(PushFront(g)) :
               PushFront(g)[i] = IF i = 1 THEN None
                                 ELSE IF i <= 1 + (g - head) THEN g + 1 - i
                                 ELSE window[i - 1 - (g - head)]
  <1> DEFINE n == g - head
             skipped == [i \in 1..n |-> g - i]
             front == <<None>> \o skipped
             T == Generations \cup {None}
  <1>1. n \in Nat /\ head \in Nat /\ g \in Nat /\ g <= MaxGeneration
    BY DEF TypeOK, Generations
  <1>2. \A i \in 1..n : g - i \in T
    BY <1>1 DEF Generations
  <1>3. skipped \in Seq(T) /\ Len(skipped) = n
    BY <1>1, <1>2, SeqDef
  <1>4. window \in Seq(T)
    BY DEF TypeOK
  <1>5. <<None>> \in Seq(T) /\ Len(<<None>>) = 1 /\ <<None>>[1] = None
    OBVIOUS
  <1> HIDE DEF skipped, n, T
  <1>6. /\ front \in Seq(T) /\ Len(front) = 1 + n
        /\ \A i \in 1..Len(front) : front[i] = IF i <= 1 THEN <<None>>[i] ELSE skipped[i - 1]
    BY <1>1, <1>3, <1>5, ConcatProperties
  <1>7. \A i \in 1..n : skipped[i] = g - i
    BY DEF skipped
  <1>8. PushFront(g) = front \o window
    BY <1>3, <1>4, <1>5, ConcatAssociative DEF PushFront, front, skipped, n
  <1> HIDE DEF front
  <1>9. /\ front \o window \in Seq(T) /\ Len(front \o window) = 1 + n + Len(window)
        /\ \A i \in 1..Len(front \o window) :
             (front \o window)[i] = IF i <= Len(front) THEN front[i] ELSE window[i - Len(front)]
    <2>1. Len(front \o window) = Len(front) + Len(window)
      BY <1>4, <1>6, ConcatProperties
    <2> QED BY <2>1, <1>4, <1>6, ConcatProperties
  <1>10. Len(window) \in Nat
    BY <1>4, LenProperties
  <1>11. ASSUME NEW i \in 1..(1 + n + Len(window))
         PROVE  (front \o window)[i] = IF i = 1 THEN None
                                       ELSE IF i <= 1 + n THEN g + 1 - i
                                       ELSE window[i - 1 - n]
    <2>1. CASE i = 1
      BY <2>1, <1>1, <1>5, <1>6, <1>9, <1>10
    <2>2. CASE i # 1 /\ i <= 1 + n
      <3>1. i - 1 \in 1..n /\ i \in 1..Len(front)
        BY <2>2, <1>1, <1>6, <1>10
      <3>2. (front \o window)[i] = skipped[i - 1]
        BY <2>2, <3>1, <1>1, <1>6, <1>9, <1>10
      <3> QED BY <3>1, <3>2, <2>2, <1>1, <1>7
    <2>3. CASE i > 1 + n
      BY <2>3, <1>1, <1>6, <1>9, <1>10
    <2>4. i = 1 \/ (i # 1 /\ i <= 1 + n) \/ i > 1 + n
      BY <1>1, <1>10
    <2> QED BY <2>1, <2>2, <2>3, <2>4
  <1> QED BY <1>8, <1>9, <1>11 DEF n, T

(* VecDeque::truncate keeps the front. *)
LEMMA TruncateProperties ==
  ASSUME NEW T, NEW s \in Seq(T)
  PROVE  /\ Truncate(s) \in Seq(T)
         /\ Len(Truncate(s)) = IF Len(s) < OutOfOrderTolerance THEN Len(s) ELSE OutOfOrderTolerance
         /\ \A i \in 1..Len(Truncate(s)) : Truncate(s)[i] = s[i]
  <1> DEFINE n == IF Len(s) < OutOfOrderTolerance THEN Len(s) ELSE OutOfOrderTolerance
             t == [i \in 1..n |-> s[i]]
  <1>1. Len(s) \in Nat /\ \A i \in 1..Len(s) : s[i] \in T
    BY LenProperties, ElementOfSeq
  <1>2. n \in Nat /\ n <= Len(s)
    BY <1>1
  <1>3. \A i \in 1..n : s[i] \in T
    BY <1>1, <1>2
  <1>4. t \in Seq(T) /\ Len(t) = n
    BY <1>2, <1>3, SeqDef
  <1> QED BY <1>4 DEF Truncate

(* Sending changes nothing on the receiver's side. *)
LEMMA SenderEncryptStep == Inv /\ Encrypt => Inv'
  <1> SUFFICES ASSUME Inv, Encrypt PROVE Inv'
    OBVIOUS
  <1>1. (TypeOK /\ Behind)'
    BY DEF Inv, Encrypt, TypeOK, Behind, Generations
  <1>2. WindowIndexed' /\ UsedOnce' /\ RightSecret'
    BY DEF Inv, Encrypt, WindowIndexed, UsedOnce, RightSecret, Generations
  <1> QED BY <1>1, <1>2 DEF Inv

(* Ratcheting forward: the entries move back by as much as the head moves   *)
(* on, so each still belongs to its generation.                             *)
LEMMA DecryptAheadStep ==
  ASSUME NEW g \in sent, Inv, DecryptAhead(g)
  PROVE  Inv'
  <1>1. TypeOK /\ Behind /\ WindowIndexed /\ UsedOnce /\ RightSecret
    BY DEF Inv
  <1>2. g \in Generations /\ g < sender /\ g >= head /\ g < MaxGeneration
    BY <1>1 DEF TypeOK, Behind, DecryptAhead
  <1>3. head' = g + 1 /\ sender' = sender /\ sent' = sent /\ ~wrong'
    BY <1>1 DEF DecryptAhead, HandOut, RightSecret
  <1>4. uses' = [uses EXCEPT ![g] = @ + 1] /\ uses[g] = 0
    BY <1>1, <1>2 DEF DecryptAhead, HandOut, UsedOnce, TypeOK, Generations
  <1>5. uses' \in [Generations -> Nat] /\ uses'[g] = 1
    BY <1>1, <1>2, <1>4 DEF TypeOK
  <1>6. \A h \in Generations : h # g => uses'[h] = uses[h]
    BY <1>1, <1>4 DEF TypeOK
  <1>7. /\ window' = Truncate(PushFront(g))
        /\ window' \in Seq(Generations \cup {None})
        /\ Len(window') = IF 1 + (g - head) + Len(window) < OutOfOrderTolerance
                          THEN 1 + (g - head) + Len(window) ELSE OutOfOrderTolerance
        /\ \A i \in 1..Len(window') : window'[i] = PushFront(g)[i]
    BY <1>1, <1>2, PushFrontEntries, TruncateProperties DEF DecryptAhead
  <1>8. TypeOK'
    <2>1. head' \in Generations /\ sender' \in Generations /\ sent' \in SUBSET Generations
      BY <1>1, <1>2, <1>3 DEF TypeOK, Generations
    <2>2. wrong' \in BOOLEAN
      BY <1>1 DEF TypeOK, DecryptAhead, HandOut
    <2> QED BY <2>1, <2>2, <1>5, <1>7 DEF TypeOK
  <1>9. Behind'
    BY <1>1, <1>2, <1>3 DEF Behind, TypeOK, Generations
  <1>10. UsedOnce'
    <2>1. ASSUME NEW h \in Generations
          PROVE  uses'[h] <= 1 /\ (uses'[h] > 0 => h < g + 1)
      <3>1. CASE h = g
        BY <3>1, <1>2, <1>5 DEF Generations
      <3>2. CASE h # g
        <4>1. uses'[h] = uses[h] /\ uses[h] <= 1 /\ (uses[h] > 0 => h < head)
          BY <3>2, <1>1, <1>6 DEF UsedOnce
        <4> QED BY <4>1, <1>1, <1>2 DEF TypeOK, Generations
      <3> QED BY <3>1, <3>2
    <2> QED BY <2>1, <1>3 DEF UsedOnce
  <1>11. /\ head \in Nat /\ g \in Nat /\ Len(window) \in Nat /\ Len(window') \in Nat
         /\ Len(window') <= 1 + (g - head) + Len(window)
    BY <1>1, <1>2, <1>7, LenProperties, SMTT(30) DEF TypeOK, Generations
  <1>12. Len(window') = IF head' < OutOfOrderTolerance THEN head' ELSE OutOfOrderTolerance
    BY <1>1, <1>2, <1>3, <1>7, <1>11 DEF WindowIndexed
  <1>13. ASSUME NEW i \in 1..Len(window')
         PROVE  window'[i] \in {None, head' - i} /\ (window'[i] = None <=> uses'[head' - i] > 0)
    <2>1. i <= 1 + (g - head) + Len(window) /\ i \in 1..Len(PushFront(g))
      BY <1>1, <1>2, <1>11, PushFrontEntries
    <2>2. window'[i] = IF i = 1 THEN None
                       ELSE IF i <= 1 + (g - head) THEN g + 1 - i
                       ELSE window[i - 1 - (g - head)]
      BY <2>1, <1>1, <1>2, <1>7, PushFrontEntries
    <2>3. head' - i = g + 1 - i /\ i <= head'
      BY <1>3, <1>11, <1>12
    <2>4. CASE i = 1
      BY <2>2, <2>3, <2>4, <1>2, <1>5, <1>11
    <2>5. CASE i # 1 /\ i <= 1 + (g - head)
      <3>1. window'[i] = head' - i /\ head' - i \in Generations
            /\ head' - i >= head /\ head' - i # g
        BY <2>2, <2>3, <2>5, <1>2, <1>11 DEF Generations
      <3>2. uses[head' - i] = 0
        BY <3>1, <1>1 DEF UsedOnce, TypeOK, Generations
      <3> QED BY <3>1, <3>2, <1>6 DEF None, Generations
    <2>6. CASE i > 1 + (g - head)
      <3> DEFINE j == i - 1 - (g - head)
      <3>1. j \in 1..Len(window) /\ window'[i] = window[j]
        BY <2>1, <2>2, <2>6, <1>2, <1>11
      <3>2. head - j = head' - i /\ head' - i # g
        BY <2>3, <2>6, <1>2, <1>11
      <3>3. head' - i \in Generations
        BY <2>3, <2>6, <1>2, <1>3, <1>11 DEF Generations
      <3>4. window[j] \in {None, head - j} /\ (window[j] = None <=> uses[head - j] > 0)
        BY <3>1, <1>1 DEF WindowIndexed
      <3> QED BY <3>1, <3>2, <3>3, <3>4, <1>6
    <2> QED BY <2>4, <2>5, <2>6, <1>2, <1>11
  <1>14. WindowIndexed'
    BY <1>12, <1>13 DEF WindowIndexed
  <1> QED BY <1>3, <1>8, <1>9, <1>10, <1>14 DEF Inv, RightSecret

(* Taking a secret out of the window: it is the one of the generation asked *)
(* for, and it was not handed out before.                                   *)
LEMMA DecryptLateStep ==
  ASSUME NEW g \in sent, Inv, DecryptLate(g)
  PROVE  Inv'
  <1> DEFINE k == head - g
  <1>1. TypeOK /\ Behind /\ WindowIndexed /\ UsedOnce /\ RightSecret
    BY DEF Inv
  <1>2. /\ g \in Generations /\ g < head /\ head \in Generations /\ head - k = g
        /\ k \in 1..Len(window) /\ window[k] # None
    BY <1>1 DEF TypeOK, DecryptLate, InWindow, Generations
  <1>3. window[k] = g /\ ~(uses[g] > 0)
    BY <1>1, <1>2 DEF WindowIndexed
  <1>4. uses[g] = 0
    BY <1>1, <1>2, <1>3 DEF TypeOK
  <1>5. /\ uses' = [uses EXCEPT ![g] = @ + 1] /\ ~wrong'
        /\ head' = head /\ sender' = sender /\ sent' = sent
        /\ window' = [window EXCEPT ![k] = None]
    BY <1>1, <1>3 DEF DecryptLate, HandOut, RightSecret
  <1>6. uses' \in [Generations -> Nat] /\ uses'[g] = 1
    BY <1>1, <1>2, <1>4, <1>5 DEF TypeOK
  <1>7. \A h \in Generations : h # g => uses'[h] = uses[h]
    BY <1>1, <1>5 DEF TypeOK
  <1>8. /\ window' \in Seq(Generations \cup {None}) /\ Len(window') = Len(window)
        /\ window'[k] = None
        /\ \A i \in 1..Len(window) : i # k => window'[i] = window[i]
    BY <1>1, <1>2, <1>5, ExceptSeq DEF TypeOK
  <1>9. TypeOK' /\ Behind' /\ RightSecret'
    <2>1. wrong' \in BOOLEAN
      BY <1>1 DEF TypeOK, DecryptLate, HandOut
    <2> QED BY <2>1, <1>1, <1>5, <1>6, <1>8 DEF TypeOK, Behind, RightSecret
  <1>10. UsedOnce'
    BY <1>1, <1>2, <1>5, <1>6, <1>7 DEF UsedOnce, TypeOK
  <1>11. ASSUME NEW i \in 1..Len(window)
         PROVE  window'[i] \in {None, head - i} /\ (window'[i] = None <=> uses'[head - i] > 0)
    <2>1. Len(window) \in Nat /\ Len(window) <= head /\ head \in Nat
      BY <1>1, LenProperties DEF WindowIndexed, TypeOK, Generations
    <2>2. head - i \in Generations
      BY <2>1, <1>2 DEF Generations
    <2>3. CASE i = k
      BY <2>3, <1>2, <1>6, <1>8
    <2>4. CASE i # k
      <3>1. head - i # g
        BY <2>1, <2>4, <1>2 DEF Generations
      <3>2. window[i] \in {None, head - i} /\ (window[i] = None <=> uses[head - i] > 0)
        BY <1>1 DEF WindowIndexed
      <3> QED BY <3>1, <3>2, <2>2, <2>4, <1>7, <1>8
    <2> QED BY <2>3, <2>4
  <1>12. WindowIndexed'
    BY <1>1, <1>5, <1>8, <1>11 DEF WindowIndexed
  <1> QED BY <1>9, <1>10, <1>12 DEF Inv

(* Inv is an invariant of the two ratchets. *)
LEMMA InvAlways == Spec => []Inv
  <1>1. Inv /\ UNCHANGED vars => Inv'
    BY DEF Inv, TypeOK, Behind, WindowIndexed, UsedOnce, RightSecret, vars
  <1>2. Inv /\ [Next]_vars => Inv'
    BY <1>1, SenderEncryptStep, DecryptAheadStep, DecryptLateStep DEF Next
  <1> QED BY <1>2, InvInit, PTL DEF Spec

(* The ratchets keep their types; in particular the generation of the       *)
(* sender's ratchet stops at the largest u32.                               *)
THEOREM TypeCorrect == Spec => []TypeOK
  <1>1. Inv => TypeOK
    BY DEF Inv
  <1> QED BY <1>1, InvAlways, PTL

(* secret_for_decryption hands out the secret of the generation asked for,  *)
(* in every order of arrival and for every configuration.                   *)
THEOREM SecretsMatch == Spec => []RightSecret
  <1>1. Inv => RightSecret
    BY DEF Inv
  <1> QED BY <1>1, InvAlways, PTL

(* No secret is handed out twice, and one that was handed out can neither   *)
(* be derived nor found in past_secrets.                                    *)
THEOREM SecretsAreForgotten == Spec => []ForwardSecrecy
  <1>1. ASSUME Inv, NEW g \in Generations, uses[g] > 0
        PROVE  /\ uses[g] = 1 /\ g < head
               /\ \A i \in 1..Len(window) : window[i] # g
    <2>1. uses[g] = 1 /\ g < head
      BY <1>1 DEF Inv, UsedOnce, TypeOK
    <2>2. ASSUME NEW i \in 1..Len(window), window[i] = g PROVE FALSE
      <3>1. window[i] # None
        BY <2>2 DEF None, Generations
      <3>2. g = head - i /\ ~(uses[head - i] > 0)
        BY <3>1, <2>2, <1>1 DEF Inv, WindowIndexed
      <3> QED BY <3>2, <1>1
    <2> QED BY <2>1, <2>2
  <1>2. ASSUME Inv, NEW i \in 1..Len(window), window[i] # None
        PROVE  head - window[i] <= OutOfOrderTolerance
    <2>1. window[i] = head - i /\ Len(window) <= OutOfOrderTolerance
      BY <1>2 DEF Inv, WindowIndexed, TypeOK, Generations
    <2>2. head \in Nat /\ Len(window) \in Nat
      BY <1>2, LenProperties DEF Inv, TypeOK, Generations
    <2> QED BY <2>1, <2>2
  <1>3. Inv => ForwardSecrecy
    BY <1>1, <1>2 DEF ForwardSecrecy
  <1> QED BY <1>3, InvAlways, PTL

(* A message within the two distances that was not decrypted before can be  *)
(* decrypted: the window never loses a secret that the configuration        *)
(* promises to keep.                                                        *)
THEOREM WindowIsComplete == Spec => []InRangeDecrypts
  <1>1. ASSUME Inv, NEW g \in sent, InRange(g), uses[g] = 0, ~(g >= head)
        PROVE  InWindow(g)
    <2>1. g \in Nat /\ head \in Nat /\ Len(window) \in Nat /\ g < head
      BY <1>1, LenProperties DEF Inv, TypeOK, Generations
    <2>2. head - g \in 1..Len(window) /\ head - (head - g) = g
      BY <2>1, <1>1 DEF Inv, WindowIndexed, InRange, TooDistantInThePast
    <2> QED BY <2>2, <1>1 DEF Inv, WindowIndexed, InWindow
  <1>2. Inv => InRangeDecrypts
    BY <1>1 DEF InRangeDecrypts
  <1> QED BY <1>2, InvAlways, PTL
=============================================================================
