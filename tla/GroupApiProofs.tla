--------------------------- MODULE GroupApiProofs ---------------------------
(***************************************************************************)
(* What storage holds of a group between two calls, for any number of      *)
(* clients, proposals, commits and crashes.                                *)
(***************************************************************************)
EXTENDS GroupApi, SequenceTheorems, TLAPS

(* Groups are joined and made only where storage has none, or one that the  *)
(* client was removed from: replace_old_group() is not used.                *)
NothingReplaced == ~ReplaceOldGroup

(* A group with all its entries. *)
Shaped(group) ==
    /\ group = [f \in Fields |-> group[f]]
    /\ group.state \in {"Operational", "PendingCommit", "Inactive"}

Complete(group) == group = NoGroup \/ Shaped(group)

(* The storage of a client with all its parts. *)
Parts == {"group", "keys", "leafKeys", "keyPackage"}
Stored(s) == s = [f \in Parts |-> s[f]]

(* Storage that is complete, and the same as memory where there is one. *)
LoadInv ==
    /\ mem = [c \in Clients |-> mem[c]]
    /\ disk = [c \in Clients |-> disk[c]]
    /\ \A c \in Clients :
         /\ Stored(disk[c])
         /\ Complete(mem[c]) /\ Complete(disk[c].group)
    /\ observer = [mem |-> observer.mem, disk |-> observer.disk, cursor |-> observer.cursor]
    /\ LoadRestores
-----------------------------------------------------------------------------
(* A sequence, of whatever entries. *)
IsSeq(s) == s \in Seq({s[i] : i \in 1..Len(s)})

(* Proposals are never taken back: a commit covers ones that were made, and *)
(* an entry of the log stands for a proposal or a commit.                   *)
Recorded ==
    /\ IsSeq(props) /\ IsSeq(commits) /\ IsSeq(log)
    /\ \A id \in 1..Len(commits) : commits[id].refs \cup commits[id].inline \subseteq 1..Len(props)
    /\ \A i \in 1..Len(log) :
         \/ log[i].type = "proposal" /\ log[i].id \in 1..Len(props)
         \/ /\ log[i].type = "commit" /\ log[i].id \in 1..Len(commits)
            /\ commits[log[i].id].parent = log[i].at

(* A queue has only proposals, and a pending commit is one of the epoch     *)
(* that the group is in.                                                    *)
QueueKnown(group) ==
    group # NoGroup =>
        /\ IsSeq(group.queue) /\ \A i \in 1..Len(group.queue) : group.queue[i] \in 1..Len(props)
        /\ group.state = "PendingCommit" =>
              group.pending \in 1..Len(commits) /\ commits[group.pending].parent = group.ctx

(* What has been processed and not yet merged is of the epoch the group is  *)
(* still in.                                                                *)
StagedInEpoch(c) ==
    /\ cursor[c] \in Nat
    /\ staged[c] # 0 =>
         /\ Active(c) /\ InLine(c)
         /\ staged[c] \in 1..Len(log)
         /\ log[staged[c]].at = mem[c].ctx

(* The key pairs in storage are those of the epoch that the stored group is *)
(* in; those of an epoch that a removal ended stay.                         *)
KeysKept(c) ==
    LET group == disk[c].group
        member == group # NoGroup /\ group.state # "Inactive"
    IN  /\ member => group.ctx \in disk[c].keys
        /\ \A k \in disk[c].keys : (member /\ k = group.ctx) \/ LeftAfter(c, k)

(* Without a commit there is nothing to keep. *)
NothingYet(c) == commits = <<>> => disk[c].keys = {} /\ disk[c].group = NoGroup

ClientOk(c) == QueueKnown(disk[c].group) /\ StagedInEpoch(c) /\ KeysKept(c) /\ NothingYet(c)

KeysInv ==
    /\ LoadInv /\ Recorded
    /\ staged = [c \in Clients |-> staged[c]] /\ cursor = [c \in Clients |-> cursor[c]]
    /\ \A c \in Clients : ClientOk(c)
-----------------------------------------------------------------------------
(* A group with another queue is complete. *)
LEMMA SetQueue ==
    ASSUME NEW g, Shaped(g), NEW q
    PROVE  LET h == [g EXCEPT !.queue = q]
           IN  /\ Shaped(h) /\ \A f \in Fields \ {"queue"} : h[f] = g[f]
               /\ h.queue = q /\ h.ctx = g.ctx /\ h.state = g.state /\ h.pending = g.pending
  BY DEF Shaped, Fields

(* A group with other message secrets is complete. *)
LEMMA SetMsg ==
    ASSUME NEW g, Shaped(g), NEW m
    PROVE  LET h == [g EXCEPT !.msg = m]
           IN  /\ Shaped(h) /\ \A f \in Fields \ {"msg"} : h[f] = g[f]
               /\ h.queue = g.queue /\ h.ctx = g.ctx /\ h.state = g.state /\ h.pending = g.pending
  BY DEF Shaped, Fields

(* A group with another exporter tree is complete. *)
LEMMA SetExporter ==
    ASSUME NEW g, Shaped(g), NEW x
    PROVE  LET h == [g EXCEPT !.exporter = x]
           IN  /\ Shaped(h) /\ \A f \in Fields \ {"exporter"} : h[f] = g[f]
               /\ h.queue = g.queue /\ h.ctx = g.ctx /\ h.state = g.state /\ h.pending = g.pending
  BY DEF Shaped, Fields

(* A group with another configuration is complete. *)
LEMMA SetConfig ==
    ASSUME NEW g, Shaped(g), NEW x
    PROVE  LET h == [g EXCEPT !.config = x]
           IN  /\ Shaped(h) /\ \A f \in Fields \ {"config"} : h[f] = g[f]
               /\ h.queue = g.queue /\ h.ctx = g.ctx /\ h.state = g.state /\ h.pending = g.pending
  BY DEF Shaped, Fields

(* Framing a message changes the message secrets, and only for a            *)
(* PrivateMessage.                                                          *)
LEMMA FramedGroup ==
    ASSUME NEW g, Shaped(g)
    PROVE  LET h == Framed(g)
           IN  /\ Shaped(h) /\ \A f \in Fields \ FramedFields : h[f] = g[f]
               /\ h.queue = g.queue /\ h.ctx = g.ctx /\ h.state = g.state /\ h.pending = g.pending
  <1>1. CASE Private
    <2>1. Framed(g) = [g EXCEPT !.msg = [g.msg EXCEPT !.sent = g.msg.sent + 1]]
      BY <1>1 DEF Framed
    <2> QED BY <1>1, <2>1, SetMsg DEF FramedFields
  <1>2. CASE ~Private
    BY <1>2 DEF Framed
  <1> QED BY <1>1, <1>2

(* Fresh groups. *)
LEMMA NewGroupShaped ==
    ASSUME NEW id, NEW num, NEW psks
    PROVE  LET g == NewMlsGroup(id, num, psks)
           IN  /\ Shaped(g) /\ g.queue = <<>> /\ g.own = <<>> /\ g.ctx = id
               /\ g.state = "Operational"
  <1> DEFINE g == NewMlsGroup(id, num, psks)
  <1>1. g = [f \in Fields |-> g[f]]
    BY DEF NewMlsGroup, Fields
  <1>2. g.queue = <<>> /\ g.own = <<>> /\ g.ctx = id /\ g.state = "Operational"
    BY DEF NewMlsGroup
  <1> HIDE DEF g
  <1>3. Shaped(g)
    BY <1>1, <1>2 DEF Shaped
  <1> QED BY <1>2, <1>3 DEF g

(* A complete group is one. *)
LEMMA ShapedIsSome == \A g : Shaped(g) => g # NoGroup
  <1> SUFFICES ASSUME NEW g, Shaped(g) PROVE g # NoGroup
    OBVIOUS
  <1>1. g.state # "None"
    BY DEF Shaped
  <1> QED BY <1>1 DEF NoGroup

(* What a call writes is the whole group, if the entries that it does not   *)
(* write are in storage already.                                            *)
LEMMA Written ==
    ASSUME NEW old, Complete(old), NEW new, Shaped(new), NEW fields,
           old # NoGroup => \A f \in Fields \ fields : new[f] = old[f],
           old = NoGroup => \A f \in Fields \ fields : new[f] = <<>>
    PROVE  Write(old, new, fields) = new
  <1>1. new = [f \in Fields |-> new[f]]
    BY DEF Shaped
  <1>2. CASE old = NoGroup
    <2>1. Write(old, new, fields) = [f \in Fields |-> IF f \in fields THEN new[f] ELSE <<>>]
      BY <1>2 DEF Write
    <2>2. [f \in Fields |-> IF f \in fields THEN new[f] ELSE <<>>] = [f \in Fields |-> new[f]]
      BY <1>2
    <2> QED BY <1>1, <2>1, <2>2
  <1>3. CASE old # NoGroup
    <2>1. Write(old, new, fields) = [f \in Fields |-> IF f \in fields THEN new[f] ELSE old[f]]
      BY <1>3 DEF Write
    <2>2. [f \in Fields |-> IF f \in fields THEN new[f] ELSE old[f]] = [f \in Fields |-> new[f]]
      BY <1>3
    <2> QED BY <1>1, <2>1, <2>2
  <1> QED BY <1>2, <1>3

(* A step of one client whose memory and storage end up in agreement. *)
LEMMA LoadStep ==
    ASSUME LoadInv, NEW c \in Clients, NEW g, Complete(g), NEW s,
           Stored(s), Complete(s.group), g # NoGroup => s.group = g,
           mem' = [mem EXCEPT ![c] = g], disk' = [disk EXCEPT ![c] = s],
           observer' = observer
    PROVE  LoadInv' /\ mem'[c] = g /\ disk'[c] = s
                    /\ \A d \in Clients \ {c} : mem'[d] = mem[d] /\ disk'[d] = disk[d]
  <1>1. mem' = [d \in Clients |-> IF d = c THEN g ELSE mem[d]]
    BY DEF LoadInv
  <1>2. disk' = [d \in Clients |-> IF d = c THEN s ELSE disk[d]]
    BY DEF LoadInv
  <1>3. /\ mem'[c] = g /\ disk'[c] = s
        /\ \A d \in Clients \ {c} : mem'[d] = mem[d] /\ disk'[d] = disk[d]
    BY <1>1, <1>2
  <1>4. mem' = [d \in Clients |-> mem'[d]] /\ disk' = [d \in Clients |-> disk'[d]]
    BY <1>1, <1>2
  <1>5. ASSUME NEW d \in Clients
        PROVE  /\ Stored(disk'[d])
               /\ Complete(mem'[d]) /\ Complete(disk'[d].group)
               /\ mem'[d] # NoGroup => disk'[d].group = mem'[d]
    <2>1. CASE d = c
      BY <1>3, <2>1
    <2>2. CASE d # c
      BY <1>3, <2>2 DEF LoadInv, LoadRestores, Up
    <2> QED BY <2>1, <2>2
  <1>6. LoadRestores'
    BY <1>5 DEF LoadRestores, Up, LoadInv
  <1>7. LoadInv'
    BY <1>4, <1>5, <1>6 DEF LoadInv
  <1> QED BY <1>3, <1>7

(* A call on a group that is in memory. *)
LEMMA LoadCall ==
    ASSUME LoadInv, NEW c \in Clients, Up(c), NEW h, Shaped(h), NEW fields,
           \A f \in Fields \ fields : h[f] = mem[c][f],
           Call(c, h, fields), observer' = observer
    PROVE  /\ LoadInv' /\ mem'[c] = h /\ disk'[c].group = h
           /\ disk'[c].keys = disk[c].keys
           /\ \A d \in Clients \ {c} : mem'[d] = mem[d] /\ disk'[d] = disk[d]
  <1> DEFINE s == [disk[c] EXCEPT !.group = Write(disk[c].group, h, fields)]
  <1>1. disk[c].group = mem[c] /\ mem[c] # NoGroup /\ Complete(disk[c].group)
    BY DEF LoadInv, LoadRestores, Up
  <1>2. Write(disk[c].group, h, fields) = h
    BY <1>1, Written
  <1>3. Stored(disk[c]) /\ s = [disk[c] EXCEPT !.group = h]
    BY <1>2 DEF LoadInv
  <1>5. Stored(s) /\ s.group = h /\ s.keys = disk[c].keys
    <2> HIDE DEF s
    <2> QED BY <1>3 DEF Stored, Parts
  <1>6. mem' = [mem EXCEPT ![c] = h] /\ disk' = [disk EXCEPT ![c] = s]
    BY <1>3 DEF Call, LoadInv
  <1>7. Complete(h)
    BY DEF Complete
  <1> HIDE DEF s
  <1> QED BY <1>5, <1>6, <1>7, LoadStep, ZenonT(60)
-----------------------------------------------------------------------------
(* A sequence that goes on. *)
Prefixes(s, t) == Len(s) \in Nat /\ Len(t) \in Nat /\ Len(s) <= Len(t) /\ \A i \in 1..Len(s) : t[i] = s[i]

Grows == Prefixes(props, props') /\ Prefixes(commits, commits') /\ Prefixes(log, log')

(* Length of a sequence, which is a prefix of itself. *)
LEMMA SeqFacts ==
    ASSUME NEW s, IsSeq(s)
    PROVE  Len(s) \in Nat /\ Prefixes(s, s)
  <1>1. Len(s) \in Nat
    BY LenProperties DEF IsSeq
  <1> QED BY <1>1 DEF Prefixes

(* A sequence over some set is one over its own entries. *)
LEMMA SeqIn ==
    ASSUME NEW R, NEW s \in Seq(R)
    PROVE  IsSeq(s) /\ \A j \in 1..Len(s) : s[j] \in R
  <1>1. Len(s) \in Nat /\ s \in [1..Len(s) -> R]
    BY LenProperties
  <1> DEFINE n == Len(s)
             S == {s[i] : i \in 1..n}
  <1>2. s \in [1..n -> S]
    BY <1>1
  <1> HIDE DEF n, S
  <1>3. n \in Nat
    BY <1>1 DEF n
  <1>4. s \in UNION {[1..m -> S] : m \in Nat}
    BY <1>2, <1>3
  <1>5. s \in Seq(S)
    BY <1>4, SeqDef
  <1> QED BY <1>1, <1>5 DEF IsSeq, S, n

(* A sequence with one more entry. *)
LEMMA SeqAppend ==
    ASSUME NEW s, IsSeq(s), NEW x, NEW t, t = Append(s, x)
    PROVE  IsSeq(t) /\ Prefixes(s, t) /\ Len(t) = Len(s) + 1 /\ t[Len(s) + 1] = x
  <1> DEFINE S == {s[i] : i \in 1..Len(s)} \cup {x}
  <1>1. s \in Seq(S)
    BY DEF IsSeq
  <1>2. /\ t \in Seq(S) /\ Len(t) = Len(s) + 1 /\ Len(s) \in Nat /\ t[Len(s) + 1] = x
        /\ \A i \in 1..Len(s) : t[i] = s[i]
    BY <1>1, AppendProperties, LenProperties
  <1> HIDE DEF S
  <1>5. IsSeq(t)
    BY <1>2, SeqIn
  <1>6. Prefixes(s, t)
    BY <1>2 DEF Prefixes
  <1> QED BY <1>2, <1>5, <1>6

(* Every entry of t is one of q or of r. *)
From(t, q, r) ==
    \A i \in 1..Len(t) : (\E j \in 1..Len(q) : t[i] = q[j]) \/ (\E j \in 1..Len(r) : t[i] = r[j])

(* Two sequences, one after the other. *)
LEMMA SeqConcat ==
    ASSUME NEW s, IsSeq(s), NEW r, IsSeq(r), NEW t, t = s \o r
    PROVE  /\ IsSeq(t) /\ Prefixes(s, t) /\ Len(t) = Len(s) + Len(r)
           /\ \A i \in 1..Len(r) : t[Len(s) + i] = r[i]
           /\ From(t, s, r)
  <1> DEFINE R == {s[i] : i \in 1..Len(s)} \cup {r[i] : i \in 1..Len(r)}
  <1>1. s \in Seq(R) /\ r \in Seq(R)
    BY DEF IsSeq
  <1>2. /\ t \in Seq(R) /\ Len(t) = Len(s) + Len(r) /\ Len(s) \in Nat /\ Len(r) \in Nat
        /\ \A i \in 1..Len(s) : t[i] = s[i]
        /\ \A i \in 1..(Len(s) + Len(r)) : t[i] = IF i <= Len(s) THEN s[i] ELSE r[i - Len(s)]
    BY <1>1, ConcatProperties, LenProperties
  <1>3. \A i \in 1..Len(r) : Len(s) + i \in 1..Len(t) /\ t[Len(s) + i] = r[i]
    <2> SUFFICES ASSUME NEW i \in 1..Len(r) PROVE Len(s) + i \in 1..Len(t) /\ t[Len(s) + i] = r[i]
      OBVIOUS
    <2>1. Len(s) + i \in 1..(Len(s) + Len(r)) /\ ~(Len(s) + i <= Len(s)) /\ Len(s) + i - Len(s) = i
      BY <1>2
    <2> QED BY <1>2, <2>1
  <1>5. IsSeq(t)
    <2> HIDE DEF R
    <2> QED BY <1>2, SeqIn
  <1>6. \A i \in 1..Len(t) :
            (\E j \in 1..Len(s) : t[i] = s[j]) \/ (\E j \in 1..Len(r) : t[i] = r[j])
    <2> SUFFICES ASSUME NEW i \in 1..Len(t)
                 PROVE  (\E j \in 1..Len(s) : t[i] = s[j]) \/ (\E j \in 1..Len(r) : t[i] = r[j])
      OBVIOUS
    <2>1. CASE i <= Len(s)
      <3>1. i \in 1..Len(s) /\ t[i] = s[i]
        BY <1>2, <2>1
      <3> QED BY <3>1
    <2>2. CASE ~(i <= Len(s))
      <3>1. i - Len(s) \in 1..Len(r) /\ t[i] = r[i - Len(s)]
        BY <1>2, <2>2
      <3> QED BY <3>1
    <2> QED BY <2>1, <2>2
  <1> QED BY <1>2, <1>3, <1>5, <1>6 DEF Prefixes, From

(* Accepted commits stay accepted. *)
LEMMA AcceptedGrows ==
    ASSUME Prefixes(log, log')
    PROVE  Accepted \subseteq Accepted'
  <1>1. ASSUME NEW i \in 1..Len(log), log[i].type = "commit"
        PROVE  log[i].id \in Accepted'
    <2>1. i \in 1..Len(log') /\ log'[i] = log[i]
      BY DEF Prefixes
    <2> QED BY <1>1, <2>1 DEF Accepted
  <1> QED BY <1>1 DEF Accepted

(* Accepted commits exist. *)
LEMMA AcceptedKnown ==
    ASSUME Recorded, commits # <<>>
    PROVE  Accepted \subseteq 1..Len(commits)
  <1>1. Len(commits) \in Nat /\ Len(commits) # 0
    <2>1. commits \in Seq({commits[i] : i \in 1..Len(commits)})
      BY DEF Recorded, IsSeq
    <2> QED BY <2>1, EmptySeq, LenProperties
  <1>2. 1 \in 1..Len(commits)
    BY <1>1
  <1>3. ASSUME NEW i \in 1..Len(log), log[i].type = "commit" PROVE log[i].id \in 1..Len(commits)
    BY <1>3 DEF Recorded
  <1> QED BY <1>2, <1>3 DEF Accepted

(* A commit removes the same clients whatever is proposed later. *)
LEMMA SelfRemovedGrows ==
    ASSUME Recorded, Grows, NEW c, NEW id \in 1..Len(commits)
    PROVE  /\ commits'[id] = commits[id]
           /\ c \in Leaving(props, commits[id].refs \cup commits[id].inline)
                => c \in Leaving(props', commits[id].refs \cup commits[id].inline)
  <1> DEFINE S == commits[id].refs \cup commits[id].inline
  <1>1. commits'[id] = commits[id]
    BY DEF Grows, Prefixes
  <1>2. \A r \in S : props'[r] = props[r]
    BY DEF Recorded, Grows, Prefixes
  <1> HIDE DEF S
  <1>3. OfKind(props, S, "Remove") = OfKind(props', S, "Remove")
    BY <1>2 DEF OfKind
  <1>4. OfKind(props, S, "SelfRemove") = OfKind(props', S, "SelfRemove")
    BY <1>2 DEF OfKind
  <1>5. Targets(props, S, "Remove") \subseteq Targets(props', S, "Remove")
    <2> SUFFICES ASSUME NEW r \in OfKind(props, S, "Remove")
                 PROVE  props[r].target \in Targets(props', S, "Remove")
      BY DEF Targets
    <2>1. r \in OfKind(props', S, "Remove") /\ props'[r] = props[r]
      BY <1>2, <1>3 DEF OfKind
    <2> QED BY <2>1 DEF Targets
  <1>6. \A r \in OfKind(props, S, "SelfRemove") : r \in OfKind(props', S, "SelfRemove") /\ props'[r] = props[r]
    BY <1>2, <1>4 DEF OfKind
  <1>7. c \in Leaving(props, S) => c \in Leaving(props', S)
    BY <1>5, <1>6 DEF Leaving
  <1> QED BY <1>1, <1>7 DEF S

(* Whoever has left after an epoch has left it for good. *)
LEMMA LeftGrows ==
    ASSUME Recorded, Grows, commits # <<>>, NEW c, NEW k, LeftAfter(c, k)
    PROVE  LeftAfter(c, k)'
  <1>1. PICK id \in Accepted : commits[id].parent = k /\ SelfRemoved(c, id)
    BY DEF LeftAfter
  <1>2. id \in 1..Len(commits)
    BY AcceptedKnown
  <1>3. id \in Accepted'
    BY AcceptedGrows DEF Grows
  <1>4. commits'[id] = commits[id]
    BY <1>2, SelfRemovedGrows
  <1>5. c \in Leaving(props', commits[id].refs \cup commits[id].inline)
    BY <1>1, <1>2, SelfRemovedGrows DEF SelfRemoved
  <1>6. commits'[id].parent = k /\ SelfRemoved(c, id)'
    BY <1>1, <1>4, <1>5 DEF SelfRemoved
  <1> QED BY <1>3, <1>6 DEF LeftAfter

(* A queue and a pending commit stay known. *)
LEMMA QueueGrows ==
    ASSUME Grows, NEW g, QueueKnown(g)
    PROVE  g # NoGroup =>
             /\ IsSeq(g.queue) /\ \A i \in 1..Len(g.queue) : g.queue[i] \in 1..Len(props')
             /\ g.state = "PendingCommit" =>
                   g.pending \in 1..Len(commits') /\ commits'[g.pending].parent = g.ctx
  BY DEF QueueKnown, Grows, Prefixes

(* Nothing changes for a client that takes no part in a step. *)
LEMMA Bystander ==
    ASSUME KeysInv, Grows, NEW d \in Clients,
           mem'[d] = mem[d], disk'[d].group = disk[d].group, disk'[d].keys = disk[d].keys,
           staged'[d] = staged[d], cursor'[d] = cursor[d]
    PROVE  ClientOk(d)'
  <1>0. Recorded /\ ClientOk(d)
    BY DEF KeysInv
  <1>1. QueueKnown(disk[d].group)'
    <2>1. QueueKnown(disk[d].group)
      BY <1>0 DEF ClientOk
    <2>2. PICK g : g = disk[d].group
      OBVIOUS
    <2>3. QueueKnown(g)'
      BY <2>1, <2>2, QueueGrows DEF QueueKnown
    <2> QED BY <2>2, <2>3 DEF QueueKnown
  <1>2. StagedInEpoch(d)'
    <2>1. staged[d] \in 1..Len(log) => staged[d] \in 1..Len(log') /\ log'[staged[d]] = log[staged[d]]
      BY DEF Grows, Prefixes
    <2>2. InLine(d) => InLine(d)'
      BY AcceptedGrows DEF InLine, Up, Grows
    <2>3. Active(d) => Active(d)'
      BY DEF Active, Up
    <2> QED BY <1>0, <2>1, <2>2, <2>3 DEF ClientOk, StagedInEpoch
  <1>3. NothingYet(d)'
    <2>1. commits' = <<>> => commits = <<>>
      <3>1. commits \in Seq({commits[i] : i \in 1..Len(commits)})
        BY <1>0 DEF Recorded, IsSeq
      <3>2. commits' = <<>> => Len(commits) = 0
        BY LenProperties DEF Grows, Prefixes
      <3> QED BY <3>1, <3>2, EmptySeq
    <2> QED BY <1>0, <2>1 DEF ClientOk, NothingYet
  <1>4. KeysKept(d)'
    <2>1. CASE commits = <<>>
      <3>1. disk'[d].keys = {} /\ disk'[d].group = NoGroup
        BY <1>0, <2>1 DEF ClientOk, NothingYet
      <3> QED BY <3>1 DEF KeysKept
    <2>2. CASE commits # <<>>
      <3>1. \A k : LeftAfter(d, k) => LeftAfter(d, k)'
        BY <1>0, <2>2, LeftGrows
      <3> QED BY <1>0, <3>1 DEF ClientOk, KeysKept
    <2> QED BY <2>1, <2>2
  <1> QED BY <1>1, <1>2, <1>3, <1>4 DEF ClientOk

(* A step of client c keeps the invariant if c comes out of it well. *)
LEMMA StepOk ==
    ASSUME KeysInv, LoadInv', Recorded', Grows, NEW c \in Clients,
           \A d \in Clients \ {c} : mem'[d] = mem[d] /\ disk'[d] = disk[d],
           NEW s, staged' = staged \/ staged' = [staged EXCEPT ![c] = s],
           NEW k, cursor' = cursor \/ cursor' = [cursor EXCEPT ![c] = k],
           ClientOk(c)'
    PROVE  KeysInv'
  <1>1. staged = [d \in Clients |-> staged[d]] /\ cursor = [d \in Clients |-> cursor[d]]
    BY DEF KeysInv
  <1>2. staged' = [d \in Clients |-> staged'[d]] /\ \A d \in Clients \ {c} : staged'[d] = staged[d]
    BY <1>1
  <1>3. cursor' = [d \in Clients |-> cursor'[d]] /\ \A d \in Clients \ {c} : cursor'[d] = cursor[d]
    BY <1>1
  <1>4. \A d \in Clients : ClientOk(d)'
    BY <1>2, <1>3, Bystander
  <1> QED BY <1>2, <1>3, <1>4 DEF KeysInv
-----------------------------------------------------------------------------
(* Steps that send nothing. *)
LEMMA NothingSent ==
    ASSUME Recorded, UNCHANGED global
    PROVE  Recorded' /\ Grows
  <1>1. props' = props /\ commits' = commits /\ log' = log
    BY DEF global
  <1>2. Prefixes(props, props) /\ Prefixes(commits, commits) /\ Prefixes(log, log)
    BY SeqFacts DEF Recorded
  <1> QED BY <1>1, <1>2 DEF Recorded, Grows

(* The group of a client that is up has been founded. *)
LEMMA UpFounded ==
    ASSUME KeysInv, NEW c \in Clients, Up(c) \/ disk[c].group # NoGroup
    PROVE  commits # <<>>
  <1>1. disk[c].group # NoGroup
    BY DEF KeysInv, LoadInv, LoadRestores, Up
  <1> QED BY <1>1 DEF KeysInv, ClientOk, NothingYet

(* A call that stays in the epoch. *)
LEMMA SameEpoch ==
    ASSUME KeysInv, LoadInv', Recorded', Grows, NEW c \in Clients, Up(c),
           NEW h, Shaped(h), mem'[c] = h, disk'[c].group = h, disk'[c].keys = disk[c].keys,
           \A d \in Clients \ {c} : mem'[d] = mem[d] /\ disk'[d] = disk[d],
           h.ctx = mem[c].ctx, h.state = "Inactive" <=> mem[c].state = "Inactive",
           IsSeq(h.queue), \A i \in 1..Len(h.queue) : h.queue[i] \in 1..Len(props'),
           h.state = "PendingCommit" =>
              h.pending \in 1..Len(commits') /\ commits'[h.pending].parent = h.ctx,
           NEW s, staged' = staged \/ staged' = [staged EXCEPT ![c] = s],
           \/ s = 0
           \/ Active(c) /\ InLine(c) /\ s \in 1..Len(log) /\ log[s].at = mem[c].ctx,
           NEW k \in Nat, cursor' = cursor \/ cursor' = [cursor EXCEPT ![c] = k]
    PROVE  KeysInv'
  <1>0. Recorded /\ ClientOk(c) /\ disk[c].group = mem[c] /\ commits # <<>>
    BY UpFounded DEF KeysInv, LoadInv, LoadRestores
  <1>1. h # NoGroup /\ mem[c] # NoGroup
    BY ShapedIsSome DEF Up
  <1>2. QueueKnown(disk[c].group)'
    BY DEF QueueKnown
  <1>3. StagedInEpoch(c)'
    <2>1. staged'[c] = staged[c] \/ staged'[c] = s
      BY DEF KeysInv
    <2>2. cursor'[c] \in Nat
      <3>1. cursor'[c] = cursor[c] \/ cursor'[c] = k
        BY DEF KeysInv
      <3> QED BY <1>0, <3>1 DEF ClientOk, StagedInEpoch
    <2>3. staged'[c] # 0 => /\ Active(c) /\ InLine(c)
                            /\ staged'[c] \in 1..Len(log) /\ log[staged'[c]].at = mem[c].ctx
      BY <1>0, <2>1 DEF ClientOk, StagedInEpoch
    <2>4. staged'[c] \in 1..Len(log) => /\ staged'[c] \in 1..Len(log')
                                        /\ log'[staged'[c]] = log[staged'[c]]
      BY DEF Grows, Prefixes
    <2>5. Active(c) => Active(c)'
      BY <1>1 DEF Active, Up
    <2>6. InLine(c) => InLine(c)'
      BY <1>1, AcceptedGrows DEF InLine, Up, Grows
    <2> QED BY <2>2, <2>3, <2>4, <2>5, <2>6 DEF StagedInEpoch
  <1>4. KeysKept(c)'
    <2>1. \A j : LeftAfter(c, j) => LeftAfter(c, j)'
      BY <1>0, LeftGrows
    <2> QED BY <1>0, <1>1, <2>1 DEF ClientOk, KeysKept
  <1>5. NothingYet(c)'
    <2>1. Len(commits) # 0
      <3>1. commits \in Seq({commits[i] : i \in 1..Len(commits)})
        BY <1>0 DEF Recorded, IsSeq
      <3> QED BY <1>0, <3>1, EmptySeq
    <2>2. commits' # <<>>
      BY <2>1, LenProperties DEF Grows, Prefixes
    <2> QED BY <2>2 DEF NothingYet
  <1>6. ClientOk(c)'
    BY <1>2, <1>3, <1>4, <1>5 DEF ClientOk
  <1> QED BY <1>6, StepOk

(* A call that stays in the epoch and sends nothing. *)
LEMMA QuietCall ==
    ASSUME KeysInv, NEW c \in Clients, Up(c), NEW h, Shaped(h), NEW fields,
           \A f \in Fields \ fields : h[f] = mem[c][f],
           Call(c, h, fields), UNCHANGED observer, UNCHANGED global,
           h.ctx = mem[c].ctx, h.state = "Inactive" <=> mem[c].state = "Inactive",
           IsSeq(h.queue), \A i \in 1..Len(h.queue) : h.queue[i] \in 1..Len(props),
           h.state = "PendingCommit" => mem[c].state = "PendingCommit" /\ h.pending = mem[c].pending,
           NEW s, staged' = staged \/ staged' = [staged EXCEPT ![c] = s],
           \/ s = 0
           \/ Active(c) /\ InLine(c) /\ s \in 1..Len(log) /\ log[s].at = mem[c].ctx,
           NEW k \in Nat, cursor' = cursor \/ cursor' = [cursor EXCEPT ![c] = k]
    PROVE  KeysInv'
  <1>0. LoadInv /\ Recorded
    BY DEF KeysInv
  <1>1. /\ LoadInv' /\ mem'[c] = h /\ disk'[c].group = h /\ disk'[c].keys = disk[c].keys
        /\ \A d \in Clients \ {c} : mem'[d] = mem[d] /\ disk'[d] = disk[d]
    BY <1>0, LoadCall
  <1>2. Recorded' /\ Grows
    BY <1>0, NothingSent
  <1>3. props' = props /\ commits' = commits
    BY DEF global
  <1>4. QueueKnown(mem[c]) /\ mem[c] # NoGroup
    BY DEF KeysInv, LoadInv, LoadRestores, ClientOk, Up
  <1>5. h.state = "PendingCommit" =>
          h.pending \in 1..Len(commits') /\ commits'[h.pending].parent = h.ctx
    BY <1>3, <1>4 DEF QueueKnown
  <1>6. \A i \in 1..Len(h.queue) : h.queue[i] \in 1..Len(props')
    BY <1>3
  <1> QED BY <1>1, <1>2, <1>5, <1>6, SameEpoch

(* The group that a client that is up has in memory and in storage. *)
LEMMA UpGroup ==
    ASSUME KeysInv, NEW c \in Clients, Up(c)
    PROVE  /\ Shaped(mem[c]) /\ disk[c].group = mem[c] /\ mem[c] # NoGroup
           /\ IsSeq(mem[c].queue) /\ \A i \in 1..Len(mem[c].queue) : mem[c].queue[i] \in 1..Len(props)
           /\ mem[c].state = "PendingCommit" =>
                mem[c].pending \in 1..Len(commits) /\ commits[mem[c].pending].parent = mem[c].ctx
           /\ cursor[c] \in Nat
  BY DEF KeysInv, LoadInv, LoadRestores, ClientOk, Up, Complete, QueueKnown, StagedInEpoch

(* What is left when one entry is taken out. *)
LEMMA SeqRemoveAt ==
    ASSUME NEW s, IsSeq(s), NEW i \in 1..Len(s), NEW t, t = RemoveAt(s, i)
    PROVE  IsSeq(t) /\ \A j \in 1..Len(t) : \E k \in 1..Len(s) : t[j] = s[k]
  <1> DEFINE R == {s[j] : j \in 1..Len(s)}
             a == SubSeq(s, 1, i - 1)
             b == SubSeq(s, i + 1, Len(s))
  <1>1. s \in Seq(R) /\ Len(s) \in Nat
    BY LenProperties DEF IsSeq
  <1>2. \A j \in 1..Len(s) : s[j] \in R
    OBVIOUS
  <1> HIDE DEF R
  <1>3. a \in Seq(R)
    <2>1. i - 1 \in Int /\ \A j \in 1..(i - 1) : s[j] \in R
      BY <1>1, <1>2
    <2> QED BY <2>1, SubSeqProperties
  <1>4. b \in Seq(R)
    <2>1. i + 1 \in Int /\ Len(s) \in Int /\ \A j \in (i + 1)..Len(s) : s[j] \in R
      BY <1>1, <1>2
    <2> QED BY <2>1, SubSeqProperties
  <1> HIDE DEF a, b
  <1>5. t \in Seq(R)
    <2>1. t = a \o b
      BY DEF a, b, RemoveAt
    <2> QED BY <1>3, <1>4, <2>1, ConcatProperties
  <1>6. IsSeq(t) /\ \A j \in 1..Len(t) : t[j] \in R
    BY <1>5, SeqIn
  <1> QED BY <1>6 DEF R

(* remove_pending_proposal keeps the invariant. *)
LEMMA DoRemovePending ==
    ASSUME KeysInv, NEW c \in Clients, NEW i, RemovePendingProposal(c, i)
    PROVE  KeysInv'
  <1>0. Up(c) /\ i \in 1..Len(mem[c].queue)
    BY DEF RemovePendingProposal
  <1>1. PICK g : g = mem[c]
    OBVIOUS
  <1>2. Shaped(g) /\ IsSeq(g.queue) /\ \A j \in 1..Len(g.queue) : g.queue[j] \in 1..Len(props)
    BY <1>0, <1>1, UpGroup
  <1>a. PICK p : p = g.queue
    OBVIOUS
  <1>3. PICK q : q = RemoveAt(p, i)
    OBVIOUS
  <1>4. IsSeq(q) /\ \A j \in 1..Len(q) : q[j] \in 1..Len(props)
    <2>0. IsSeq(p) /\ i \in 1..Len(p)
      BY <1>0, <1>1, <1>2, <1>a
    <2>1. IsSeq(q) /\ \A j \in 1..Len(q) : \E k \in 1..Len(p) : q[j] = p[k]
      BY <1>3, <2>0, SeqRemoveAt
    <2> QED BY <1>2, <1>a, <2>1
  <1>5. PICK h : h = [g EXCEPT !.queue = q]
    OBVIOUS
  <1>6. /\ Shaped(h) /\ \A f \in Fields \ {"queue"} : h[f] = g[f]
        /\ h.queue = q /\ h.ctx = g.ctx /\ h.state = g.state /\ h.pending = g.pending
    BY <1>2, <1>5, SetQueue
  <1>7. Call(c, h, {"queue"}) /\ UNCHANGED <<staged, cursor>> /\ UNCHANGED observer /\ UNCHANGED global
    BY <1>1, <1>a, <1>3, <1>5 DEF RemovePendingProposal, local
  <1> QED BY <1>0, <1>1, <1>4, <1>6, <1>7, QuietCall

(* The empty sequence. *)
LEMMA EmptyIsSeq == IsSeq(<<>>) /\ Len(<<>>) = 0
  BY EmptySeq DEF IsSeq

(* clear_pending_proposals keeps the invariant. *)
LEMMA DoClearProposals ==
    ASSUME KeysInv, NEW c \in Clients, ClearPendingProposals(c)
    PROVE  KeysInv'
  <1>0. Up(c)
    BY DEF ClearPendingProposals
  <1>1. PICK g : g = mem[c]
    OBVIOUS
  <1>2. Shaped(g)
    BY <1>0, <1>1, UpGroup
  <1>3. PICK h : h = [g EXCEPT !.queue = <<>>]
    OBVIOUS
  <1>4. /\ Shaped(h) /\ \A f \in Fields \ {"queue"} : h[f] = g[f]
        /\ h.queue = <<>> /\ h.ctx = g.ctx /\ h.state = g.state /\ h.pending = g.pending
    BY <1>2, <1>3, SetQueue
  <1>5. IsSeq(h.queue) /\ \A i \in 1..Len(h.queue) : h.queue[i] \in 1..Len(props)
    BY <1>4, EmptyIsSeq
  <1>6. Call(c, h, {"queue"}) /\ UNCHANGED <<staged, cursor>> /\ UNCHANGED observer /\ UNCHANGED global
    BY <1>1, <1>3 DEF ClearPendingProposals, local
  <1> QED BY <1>0, <1>1, <1>4, <1>5, <1>6, QuietCall

(* clear_pending_commit keeps the invariant. *)
LEMMA DoClearCommit ==
    ASSUME KeysInv, NEW c \in Clients, ClearPendingCommit(c)
    PROVE  KeysInv'
  <1>0. Up(c) /\ mem[c].state = "PendingCommit"
    BY DEF ClearPendingCommit
  <1>1. PICK g : g = mem[c]
    OBVIOUS
  <1>2. Shaped(g) /\ IsSeq(g.queue) /\ \A j \in 1..Len(g.queue) : g.queue[j] \in 1..Len(props)
    BY <1>0, <1>1, UpGroup
  <1>3. PICK h : h = [g EXCEPT !.state = "Operational", !.pending = 0]
    OBVIOUS
  <1>4. /\ Shaped(h) /\ \A f \in Fields \ GroupState : h[f] = g[f]
        /\ h.queue = g.queue /\ h.ctx = g.ctx /\ h.state = "Operational"
    BY <1>2, <1>3 DEF Shaped, Fields, GroupState
  <1>5. Call(c, h, GroupState) /\ UNCHANGED <<staged, cursor>> /\ UNCHANGED observer /\ UNCHANGED global
    BY <1>1, <1>3 DEF ClearPendingCommit, local
  <1> QED BY <1>0, <1>1, <1>2, <1>4, <1>5, QuietCall

(* safe_export_secret keeps the invariant. *)
LEMMA DoExport ==
    ASSUME KeysInv, NEW c \in Clients, NEW component, SafeExportSecret(c, component)
    PROVE  KeysInv'
  <1>0. Up(c)
    BY DEF SafeExportSecret, Active
  <1>1. PICK g : g = mem[c]
    OBVIOUS
  <1>2. Shaped(g) /\ IsSeq(g.queue) /\ \A j \in 1..Len(g.queue) : g.queue[j] \in 1..Len(props)
    BY <1>0, <1>1, UpGroup
  <1>a. PICK x : x = [g.exporter EXCEPT !.gone = g.exporter.gone \cup {component}]
    OBVIOUS
  <1>3. PICK h : h = [g EXCEPT !.exporter = x]
    OBVIOUS
  <1>4. /\ Shaped(h) /\ \A f \in Fields \ {"exporter"} : h[f] = g[f]
        /\ h.queue = g.queue /\ h.ctx = g.ctx /\ h.state = g.state /\ h.pending = g.pending
    BY <1>2, <1>3, SetExporter
  <1>5. /\ Call(c, h, {"exporter"})
        /\ UNCHANGED <<staged, cursor>> /\ UNCHANGED observer /\ UNCHANGED global
    BY <1>1, <1>a, <1>3 DEF SafeExportSecret, local
  <1> QED BY <1>0, <1>1, <1>2, <1>4, <1>5, QuietCall

(* set_configuration keeps the invariant. *)
LEMMA DoConfigure ==
    ASSUME KeysInv, NEW c \in Clients, SetConfiguration(c)
    PROVE  KeysInv'
  <1>0. Up(c)
    BY DEF SetConfiguration
  <1>1. PICK g : g = mem[c]
    OBVIOUS
  <1>2. Shaped(g) /\ IsSeq(g.queue) /\ \A j \in 1..Len(g.queue) : g.queue[j] \in 1..Len(props)
    BY <1>0, <1>1, UpGroup
  <1>3. PICK h : h = [g EXCEPT !.config = 1]
    OBVIOUS
  <1>4. /\ Shaped(h) /\ \A f \in Fields \ {"config"} : h[f] = g[f]
        /\ h.queue = g.queue /\ h.ctx = g.ctx /\ h.state = g.state /\ h.pending = g.pending
    BY <1>2, <1>3, SetConfig, ZenonT(60)
  <1>5. Call(c, h, {"config"}) /\ UNCHANGED <<staged, cursor>> /\ UNCHANGED observer /\ UNCHANGED global
    BY <1>1, <1>3 DEF SetConfiguration, local
  <1> QED BY <1>0, <1>1, <1>2, <1>4, <1>5, QuietCall

(* Steps that touch neither memory nor storage. *)
LEMMA LoadSame ==
    ASSUME LoadInv, UNCHANGED <<mem, disk, observer>>
    PROVE  LoadInv' /\ \A d \in Clients : mem'[d] = mem[d] /\ disk'[d] = disk[d]
  BY DEF LoadInv, LoadRestores, Up

(* process_message: what is staged is of the epoch the group is in. *)
LEMMA DoProcess ==
    ASSUME KeysInv, NEW c \in Clients, ProcessMessage(c)
    PROVE  KeysInv'
  <1>0. /\ Active(c) /\ InLine(c) /\ cursor[c] < Len(log) /\ log[cursor[c] + 1].at = mem[c].ctx
        /\ Unprotect(c, cursor[c] + 1) /\ staged' = [staged EXCEPT ![c] = cursor[c] + 1]
        /\ UNCHANGED cursor /\ UNCHANGED observer /\ UNCHANGED global
    BY DEF ProcessMessage, HasNext, Incoming, local
  <1>1. Up(c)
    BY <1>0 DEF Active
  <1>2. PICK g : g = mem[c]
    OBVIOUS
  <1>3. /\ Shaped(g) /\ IsSeq(g.queue) /\ \A j \in 1..Len(g.queue) : g.queue[j] \in 1..Len(props)
        /\ cursor[c] \in Nat
        /\ g.state = "PendingCommit" => g.pending \in 1..Len(commits) /\ commits[g.pending].parent = g.ctx
    BY <1>1, <1>2, UpGroup
  <1>4. PICK s : s = cursor[c] + 1
    OBVIOUS
  <1>5. s \in 1..Len(log) /\ log[s].at = mem[c].ctx /\ staged' = [staged EXCEPT ![c] = s]
    <2>1. Len(log) \in Nat
      BY SeqFacts DEF KeysInv, Recorded
    <2> QED BY <1>0, <1>3, <1>4, <2>1
  <1>6. CASE Encrypted(cursor[c] + 1)
    <2>1. PICK m : m = [g.msg EXCEPT !.used = g.msg.used \cup {s}]
      OBVIOUS
    <2>2. PICK h : h = [g EXCEPT !.msg = m]
      OBVIOUS
    <2>3. /\ Shaped(h) /\ \A f \in Fields \ {"msg"} : h[f] = g[f]
          /\ h.queue = g.queue /\ h.ctx = g.ctx /\ h.state = g.state /\ h.pending = g.pending
      BY <1>3, <2>2, SetMsg
    <2>4. Call(c, h, {"msg"})
      BY <1>0, <1>2, <1>4, <1>6, <2>1, <2>2 DEF Unprotect
    <2> QED BY <1>0, <1>1, <1>2, <1>3, <1>5, <2>3, <2>4, QuietCall
  <1>7. CASE ~Encrypted(cursor[c] + 1)
    <2>1. UNCHANGED <<mem, disk, observer>>
      BY <1>0, <1>7 DEF Unprotect
    <2>2. LoadInv' /\ \A d \in Clients : mem'[d] = mem[d] /\ disk'[d] = disk[d]
      BY <2>1, LoadSame DEF KeysInv
    <2>3. Recorded' /\ Grows /\ props' = props /\ commits' = commits
      BY <1>0, NothingSent DEF KeysInv, global
    <2>4. mem'[c] = g /\ disk'[c].group = g
      BY <1>1, <1>2, <2>2, UpGroup
    <2> QED BY <1>0, <1>1, <1>2, <1>3, <1>5, <2>2, <2>3, <2>4, SameEpoch
  <1> QED BY <1>6, <1>7

(* store_pending_proposal keeps the invariant. *)
LEMMA DoStoreProposal ==
    ASSUME KeysInv, NEW c \in Clients, StorePendingProposal(c)
    PROVE  KeysInv'
  <1>0. /\ Up(c) /\ staged[c] # 0 /\ log[staged[c]].type = "proposal"
        /\ staged' = [staged EXCEPT ![c] = 0]
        /\ cursor' = [cursor EXCEPT ![c] = cursor[c] + 1]
        /\ UNCHANGED observer /\ UNCHANGED global
    BY DEF StorePendingProposal, Done, local
  <1>1. PICK g : g = mem[c]
    OBVIOUS
  <1>2. /\ Shaped(g) /\ IsSeq(g.queue) /\ \A j \in 1..Len(g.queue) : g.queue[j] \in 1..Len(props)
        /\ cursor[c] \in Nat
    BY <1>0, <1>1, UpGroup
  <1>3. PICK p, r : p = g.queue /\ r = log[staged[c]].id
    OBVIOUS
  <1>4. PICK q : q = Append(p, r)
    OBVIOUS
  <1>5. r \in 1..Len(props)
    <2>1. staged[c] \in 1..Len(log)
      BY <1>0 DEF KeysInv, ClientOk, StagedInEpoch
    <2> QED BY <1>0, <1>3, <2>1 DEF KeysInv, Recorded
  <1>6. IsSeq(q) /\ \A j \in 1..Len(q) : q[j] \in 1..Len(props)
    <2>1. IsSeq(p)
      BY <1>2, <1>3
    <2>a. IsSeq(q) /\ Prefixes(p, q) /\ Len(q) = Len(p) + 1 /\ q[Len(p) + 1] = r
      BY <1>4, <2>1, SeqAppend
    <2>2. Len(p) \in Nat /\ \A j \in 1..Len(p) : q[j] = p[j]
      BY <2>a DEF Prefixes
    <2>3. \A j \in 1..Len(q) : j \in 1..Len(p) \/ j = Len(p) + 1
      BY <2>a, <2>2
    <2> QED BY <1>2, <1>3, <1>5, <2>a, <2>2, <2>3
  <1>7. PICK h : h = [g EXCEPT !.queue = q]
    OBVIOUS
  <1>8. /\ Shaped(h) /\ \A f \in Fields \ {"queue"} : h[f] = g[f]
        /\ h.queue = q /\ h.ctx = g.ctx /\ h.state = g.state /\ h.pending = g.pending
    BY <1>2, <1>7 DEF Shaped, Fields
  <1>9. Call(c, h, {"queue"})
    BY <1>1, <1>3, <1>4, <1>7 DEF StorePendingProposal
  <1>10. PICK k \in Nat : k = cursor[c] + 1
    BY <1>2
  <1>11. cursor' = [cursor EXCEPT ![c] = k]
    BY <1>0, <1>10
  <1> QED BY <1>0, <1>1, <1>6, <1>8, <1>9, <1>11, QuietCall, ZenonT(60)

(* Messages that are passed over. *)
LEMMA DoSkip ==
    ASSUME KeysInv, NEW c \in Clients, SkipMessage(c)
    PROVE  KeysInv'
  <1>0. /\ Active(c) /\ cursor' = [cursor EXCEPT ![c] = cursor[c] + 1]
        /\ UNCHANGED <<mem, disk, observer>> /\ UNCHANGED staged /\ UNCHANGED global
    BY DEF SkipMessage, HasNext, Done, local
  <1>1. Up(c)
    BY <1>0 DEF Active
  <1>2. PICK g : g = mem[c]
    OBVIOUS
  <1>3. /\ Shaped(g) /\ IsSeq(g.queue) /\ \A j \in 1..Len(g.queue) : g.queue[j] \in 1..Len(props)
        /\ cursor[c] \in Nat
        /\ g.state = "PendingCommit" => g.pending \in 1..Len(commits) /\ commits[g.pending].parent = g.ctx
    BY <1>1, <1>2, UpGroup
  <1>4. LoadInv' /\ \A d \in Clients : mem'[d] = mem[d] /\ disk'[d] = disk[d]
    BY <1>0, LoadSame DEF KeysInv
  <1>5. Recorded' /\ Grows /\ props' = props /\ commits' = commits
    BY <1>0, NothingSent DEF KeysInv, global
  <1>6. mem'[c] = g /\ disk'[c].group = g
    BY <1>1, <1>2, <1>4, UpGroup
  <1>7. PICK k \in Nat : k = cursor[c] + 1
    BY <1>3
  <1>8. cursor' = [cursor EXCEPT ![c] = k]
    BY <1>0, <1>7
  <1>9. PICK s : s = 0
    OBVIOUS
  <1> QED BY <1>0, <1>1, <1>2, <1>3, <1>4, <1>5, <1>6, <1>8, <1>9, SameEpoch
-----------------------------------------------------------------------------
(* A proposal is made and sent. *)
LEMMA ProposalSent ==
    ASSUME Recorded, NEW p, NEW e, e.type = "proposal", e.id = Len(props) + 1,
           props' = Append(props, p), log' = Append(log, e), commits' = commits
    PROVE  Recorded' /\ Grows /\ Len(props') = Len(props) + 1
  <1>0. IsSeq(props) /\ IsSeq(log)
    BY DEF Recorded
  <1>1. IsSeq(props') /\ Prefixes(props, props') /\ Len(props') = Len(props) + 1
    BY <1>0, SeqAppend
  <1>2. IsSeq(log') /\ Prefixes(log, log') /\ Len(log') = Len(log) + 1 /\ log'[Len(log) + 1] = e
    BY <1>0, SeqAppend
  <1>3. Prefixes(commits, commits') /\ IsSeq(commits')
    BY SeqFacts DEF Recorded
  <1>4. Len(props) \in Nat /\ Len(log) \in Nat
    BY SeqFacts DEF Recorded
  <1>5. 1..Len(props) \subseteq 1..Len(props') /\ Len(props) + 1 \in 1..Len(props')
    BY <1>1, <1>4
  <1>6. \A id \in 1..Len(commits') : commits'[id].refs \cup commits'[id].inline \subseteq 1..Len(props')
    BY <1>5 DEF Recorded
  <1>7. ASSUME NEW i \in 1..Len(log')
        PROVE  \/ log'[i].type = "proposal" /\ log'[i].id \in 1..Len(props')
               \/ /\ log'[i].type = "commit" /\ log'[i].id \in 1..Len(commits')
                  /\ commits'[log'[i].id].parent = log'[i].at
    <2>1. CASE i \in 1..Len(log)
      <3>1. log'[i] = log[i]
        BY <1>2, <2>1 DEF Prefixes
      <3> QED BY <1>5, <2>1, <3>1 DEF Recorded
    <2>2. CASE i = Len(log) + 1
      BY <1>2, <1>5, <2>2
    <2> QED BY <1>2, <1>4, <2>1, <2>2
  <1>8. Recorded'
    BY <1>1, <1>2, <1>3, <1>6, <1>7 DEF Recorded
  <1> QED BY <1>1, <1>2, <1>3, <1>8 DEF Grows

(* A queue with one more proposal. *)
LEMMA QueueAppend ==
    ASSUME NEW p, IsSeq(p), NEW n \in Nat, \A j \in 1..Len(p) : p[j] \in 1..n,
           NEW q, q = Append(p, n + 1)
    PROVE  IsSeq(q) /\ \A j \in 1..Len(q) : q[j] \in 1..(n + 1)
  <1>1. IsSeq(q) /\ Prefixes(p, q) /\ Len(q) = Len(p) + 1 /\ q[Len(p) + 1] = n + 1
    BY SeqAppend
  <1>2. Len(p) \in Nat /\ \A j \in 1..Len(p) : q[j] = p[j]
    BY <1>1 DEF Prefixes
  <1>3. \A j \in 1..Len(q) : j \in 1..Len(p) \/ j = Len(p) + 1
    BY <1>1, <1>2
  <1>4. 1..n \subseteq 1..(n + 1) /\ n + 1 \in 1..(n + 1)
    OBVIOUS
  <1> QED BY <1>1, <1>2, <1>3, <1>4

(* The calls that propose keep the invariant. *)
LEMMA DoPropose ==
    ASSUME KeysInv, NEW c \in Clients, NEW kind, NEW target, Propose(c, kind, target)
    PROVE  KeysInv'
  <1>0. /\ Up(c) /\ UNCHANGED commits /\ UNCHANGED staged /\ UNCHANGED cursor /\ UNCHANGED observer
        /\ IF kind = "Update" THEN ProposeUpdate(c) ELSE ProposeOther(c, kind, target)
    BY DEF Propose, Operational, local
  <1>1. PICK g : g = mem[c]
    OBVIOUS
  <1>2. /\ Shaped(g) /\ IsSeq(g.queue) /\ \A j \in 1..Len(g.queue) : g.queue[j] \in 1..Len(props)
        /\ g.state = "PendingCommit" => g.pending \in 1..Len(commits) /\ commits[g.pending].parent = g.ctx
        /\ disk[c].group = g /\ cursor[c] \in Nat
    BY <1>0, <1>1, UpGroup
  <1>3. LoadInv /\ Recorded /\ Len(props) \in Nat
    BY SeqFacts DEF KeysInv, Recorded
  <1>4. PICK n \in Nat : n = Len(props)
    BY <1>3
  <1>5. PICK fr : fr = Framed(g)
    OBVIOUS
  <1>6. /\ Shaped(fr) /\ \A f \in Fields \ FramedFields : fr[f] = g[f]
        /\ fr.queue = g.queue /\ fr.ctx = g.ctx /\ fr.state = g.state /\ fr.pending = g.pending
    BY <1>2, <1>5, FramedGroup
  <1>7. PICK p : p = fr.queue
    OBVIOUS
  <1>8. PICK q : q = Append(p, n + 1)
    OBVIOUS
  <1>9. IsSeq(q) /\ \A j \in 1..Len(q) : q[j] \in 1..(n + 1)
    <2>1. IsSeq(p) /\ \A j \in 1..Len(p) : p[j] \in 1..n
      BY <1>2, <1>4, <1>6, <1>7
    <2> QED BY <1>8, <2>1, QueueAppend
  <1>10. ASSUME NEW h, Shaped(h), h.queue = q, h.ctx = g.ctx, h.state = g.state, h.pending = g.pending,
                LoadInv', mem'[c] = h, disk'[c].group = h, disk'[c].keys = disk[c].keys,
                \A d \in Clients \ {c} : mem'[d] = mem[d] /\ disk'[d] = disk[d],
                NEW x, props' = Append(props, x),
                log' = Append(log, Entry("proposal", n + 1, g.ctx, c))
         PROVE  KeysInv'
    <2>1. PICK e : e = Entry("proposal", n + 1, g.ctx, c)
      OBVIOUS
    <2>2. e.type = "proposal" /\ e.id = Len(props) + 1
      BY <1>4, <2>1 DEF Entry
    <2>3. Recorded' /\ Grows /\ Len(props') = n + 1
      BY <1>0, <1>3, <1>4, <1>10, <2>1, <2>2, ProposalSent
    <2>4. \A j \in 1..Len(h.queue) : h.queue[j] \in 1..Len(props')
      BY <1>9, <1>10, <2>3
    <2>5. IsSeq(h.queue)
      BY <1>9, <1>10
    <2>6. h.state = "PendingCommit" =>
             h.pending \in 1..Len(commits') /\ commits'[h.pending].parent = h.ctx
      BY <1>0, <1>2, <1>10
    <2>7. PICK s, k \in Nat : s = 0 /\ k = 0
      OBVIOUS
    <2> QED BY <1>0, <1>1, <1>10, <2>3, <2>4, <2>5, <2>6, <2>7, SameEpoch
  <1>11. CASE kind = "Update"
    <2>1. PICK o : o = Append(fr.own, n + 1)
      OBVIOUS
    <2>2. PICK h : h = [fr EXCEPT !.queue = q, !.own = o]
      OBVIOUS
    <2>3. /\ Shaped(h) /\ \A f \in Fields \ {"queue", "own"} : h[f] = fr[f]
          /\ h.queue = q /\ h.ctx = g.ctx /\ h.state = g.state /\ h.pending = g.pending
      BY <1>6, <2>2 DEF Shaped, Fields
    <2>4. \A f \in Fields \ ({"queue", "own"} \cup FramedFields) : h[f] = g[f]
      BY <1>6, <2>3
    <2>5. h = [Framed(mem[c]) EXCEPT !.queue = Append(@, Len(props) + 1), !.own = Append(@, Len(props) + 1)]
      BY <1>1, <1>4, <1>5, <1>7, <1>8, <2>1, <2>2
    <2>6. /\ mem' = [mem EXCEPT ![c] = h]
          /\ disk' = [disk EXCEPT ![c].group = Write(@, h, {"queue", "own"} \cup FramedFields),
                                  ![c].leafKeys = @ \cup {n + 1}]
          /\ props' = Append(props, NewProposal(c, "Update", c))
          /\ log' = Append(log, Entry("proposal", n + 1, g.ctx, c))
      BY <1>0, <1>1, <1>4, <1>11, <2>5 DEF ProposeUpdate
    <2>7. Write(g, h, {"queue", "own"} \cup FramedFields) = h
      <3>1. g # NoGroup /\ Complete(g)
        BY <1>2, ShapedIsSome DEF Complete
      <3> QED BY <2>3, <2>4, <3>1, Written
    <2>8. PICK D, l : D = disk[c] /\ l = disk[c].leafKeys \cup {n + 1}
      OBVIOUS
    <2>9. PICK s : s = [D EXCEPT !.group = h, !.leafKeys = l]
      OBVIOUS
    <2>10. disk' = [disk EXCEPT ![c] = s]
      <3>1. disk[c].group = g /\ c \in DOMAIN disk
        BY <1>2, <1>3 DEF LoadInv
      <3>2. disk' = [disk EXCEPT ![c] = [disk[c] EXCEPT !.group = h, !.leafKeys = disk[c].leafKeys \cup {n + 1}]]
        BY <2>6, <2>7, <3>1
      <3> QED BY <2>8, <2>9, <3>2
    <2>11. Stored(s) /\ s.group = h /\ s.keys = disk[c].keys
      <3>1. Stored(D)
        BY <1>3, <2>8 DEF LoadInv
      <3> QED BY <2>8, <2>9, <3>1 DEF Stored, Parts
    <2>12. Complete(h)
      BY <2>3 DEF Complete
    <2>13. /\ LoadInv' /\ mem'[c] = h /\ disk'[c] = s
           /\ \A d \in Clients \ {c} : mem'[d] = mem[d] /\ disk'[d] = disk[d]
      <3>1. LoadInv /\ Complete(s.group) /\ s.group = h /\ mem' = [mem EXCEPT ![c] = h] /\ observer' = observer
        BY <1>0, <1>3, <2>6, <2>11, <2>12
      <3> QED BY <2>10, <2>11, <2>12, <3>1, LoadStep
    <2> QED BY <1>10, <2>3, <2>6, <2>11, <2>13
  <1>12. CASE kind # "Update"
    <2>1. PICK h : h = [fr EXCEPT !.queue = q]
      OBVIOUS
    <2>2. /\ Shaped(h) /\ \A f \in Fields \ {"queue"} : h[f] = fr[f]
          /\ h.queue = q /\ h.ctx = g.ctx /\ h.state = g.state /\ h.pending = g.pending
      BY <1>6, <2>1 DEF Shaped, Fields
    <2>3. \A f \in Fields \ ({"queue"} \cup FramedFields) : h[f] = mem[c][f]
      BY <1>1, <1>6, <2>2
    <2>4. h = [Framed(mem[c]) EXCEPT !.queue = Append(@, Len(props) + 1)]
      BY <1>1, <1>4, <1>5, <1>7, <1>8, <2>1
    <2>5. /\ Call(c, h, {"queue"} \cup FramedFields)
          /\ props' = Append(props, NewProposal(c, kind, target))
          /\ log' = Append(log, Entry("proposal", n + 1, g.ctx, c))
      BY <1>0, <1>1, <1>4, <1>12, <2>4 DEF ProposeOther
    <2>6. /\ LoadInv' /\ mem'[c] = h /\ disk'[c].group = h /\ disk'[c].keys = disk[c].keys
          /\ \A d \in Clients \ {c} : mem'[d] = mem[d] /\ disk'[d] = disk[d]
      BY <1>0, <1>3, <2>2, <2>3, <2>5, LoadCall
    <2> QED BY <1>10, <2>2, <2>5, <2>6
  <1> QED BY <1>11, <1>12
-----------------------------------------------------------------------------
(* What is recorded when proposals, commits and an entry of the log are     *)
(* added.                                                                   *)
LEMMA MoreRecorded ==
    ASSUME Recorded, IsSeq(props'), Prefixes(props, props'), IsSeq(commits'), Prefixes(commits, commits'),
           \A id \in 1..Len(commits') :
              id \in 1..Len(commits) \/ commits'[id].refs \cup commits'[id].inline \subseteq 1..Len(props'),
           NEW e, log' = log \/ log' = Append(log, e),
           log' # log => /\ e.type = "commit" /\ e.id \in 1..Len(commits')
                         /\ commits'[e.id].parent = e.at
    PROVE  Recorded' /\ Grows
  <1>0. IsSeq(log) /\ Len(log) \in Nat
    BY SeqFacts DEF Recorded
  <1>1. IsSeq(log') /\ Prefixes(log, log')
    BY <1>0, SeqFacts, SeqAppend
  <1>2. \A i \in 1..Len(log') : (i \in 1..Len(log) /\ log'[i] = log[i]) \/ (log' # log /\ log'[i] = e)
    <2>1. CASE log' = log
      BY <2>1
    <2>2. CASE log' # log
      <3>1. log' = Append(log, e)
        BY <2>2
      <3>2. Prefixes(log, log') /\ Len(log') = Len(log) + 1 /\ log'[Len(log) + 1] = e
        BY <1>0, <3>1, SeqAppend
      <3>3. \A i \in 1..Len(log') : i \in 1..Len(log) \/ i = Len(log) + 1
        BY <1>0, <3>2
      <3> QED BY <2>2, <3>2, <3>3 DEF Prefixes
    <2> QED BY <2>1, <2>2
  <1>3. 1..Len(props) \subseteq 1..Len(props') /\ 1..Len(commits) \subseteq 1..Len(commits')
    BY DEF Prefixes
  <1>4. \A id \in 1..Len(commits) : commits'[id] = commits[id]
    BY DEF Prefixes
  <1>5. \A id \in 1..Len(commits') : commits'[id].refs \cup commits'[id].inline \subseteq 1..Len(props')
    BY <1>3, <1>4 DEF Recorded
  <1>6. ASSUME NEW i \in 1..Len(log')
        PROVE  \/ log'[i].type = "proposal" /\ log'[i].id \in 1..Len(props')
               \/ /\ log'[i].type = "commit" /\ log'[i].id \in 1..Len(commits')
                  /\ commits'[log'[i].id].parent = log'[i].at
    <2>1. CASE i \in 1..Len(log) /\ log'[i] = log[i]
      BY <1>3, <1>4, <2>1 DEF Recorded
    <2>2. CASE log' # log /\ log'[i] = e
      BY <2>2
    <2> QED BY <1>2, <2>1, <2>2
  <1>7. Recorded'
    BY <1>1, <1>5, <1>6 DEF Recorded
  <1> QED BY <1>1, <1>7 DEF Grows

(* A new commit, with the proposals made for it. *)
LEMMA CommitMade ==
    ASSUME Recorded, NEW own, IsSeq(own), props' = props \o own,
           NEW x, commits' = Append(commits, x),
           x.refs \cup x.inline \subseteq 1..(Len(props) + Len(own)),
           NEW e, log' = log \/ log' = Append(log, e),
           log' # log => e.type = "commit" /\ e.id = Len(commits) + 1 /\ x.parent = e.at
    PROVE  /\ Recorded' /\ Grows /\ Len(commits') = Len(commits) + 1 /\ commits'[Len(commits) + 1] = x
           /\ Len(commits) + 1 \in 1..Len(commits')
  <1>0. IsSeq(props) /\ IsSeq(commits) /\ Len(commits) \in Nat
    BY SeqFacts DEF Recorded
  <1>1. IsSeq(props') /\ Prefixes(props, props') /\ Len(props') = Len(props) + Len(own)
    BY <1>0, SeqConcat
  <1>2. /\ IsSeq(commits') /\ Prefixes(commits, commits')
        /\ Len(commits') = Len(commits) + 1 /\ commits'[Len(commits) + 1] = x
    BY <1>0, SeqAppend
  <1>3. \A id \in 1..Len(commits') : id \in 1..Len(commits) \/ id = Len(commits) + 1
    BY <1>0, <1>2
  <1>4. \A id \in 1..Len(commits') :
          id \in 1..Len(commits) \/ commits'[id].refs \cup commits'[id].inline \subseteq 1..Len(props')
    BY <1>1, <1>2, <1>3
  <1>5. Len(commits) + 1 \in 1..Len(commits')
    BY <1>0, <1>2
  <1>6. log' # log => /\ e.type = "commit" /\ e.id \in 1..Len(commits') /\ commits'[e.id].parent = e.at
    BY <1>2, <1>5
  <1>7. Recorded' /\ Grows
    BY <1>1, <1>2, <1>4, <1>6, MoreRecorded
  <1> QED BY <1>2, <1>5, <1>7

(* What is filtered out of two sequences is in one of them. *)
LEMMA FilteredFrom ==
    ASSUME NEW q, IsSeq(q), NEW r, IsSeq(r), NEW S,
           \A j \in 1..Len(q) : q[j] \in S, \A j \in 1..Len(r) : r[j] \in S,
           NEW t, t = q \o r, NEW all, NEW c
    PROVE  FilterProposals(all, t, c) \subseteq S
  <1>1. IsSeq(t) /\ From(t, q, r)
    BY SeqConcat
  <1>2. \A i \in 1..Len(t) : t[i] \in S
    BY <1>1 DEF From
  <1>3. DOMAIN t = 1..Len(t)
    BY <1>1, LenProperties DEF IsSeq
  <1>4. \A i \in DOMAIN t : t[i] \in S
    BY <1>2, <1>3
  <1> QED BY <1>4 DEF FilterProposals

(* A commit of a member covers what it has queued and what it brings along. *)
LEMMA CoversKnown ==
    ASSUME NEW q, IsSeq(q), NEW n \in Nat, \A j \in 1..Len(q) : q[j] \in 1..n,
           NEW own, IsSeq(own), NEW ids, ids = [i \in 1..Len(own) |-> n + i],
           NEW t, t = q \o ids, NEW all, NEW c
    PROVE  FilterProposals(all, t, c) \subseteq 1..(n + Len(own))
  <1>0. Len(own) \in Nat
    BY SeqFacts
  <1>1. PICK m \in Nat : m = Len(own)
    BY <1>0
  <1>2. ids \in Seq(1..(n + m)) /\ Len(ids) = m
    <2>1. ids \in [1..m -> 1..(n + m)]
      BY <1>1
    <2>2. ids \in Seq(1..(n + m))
      BY <2>1, SeqDef
    <2> QED BY <2>1, <2>2, LenProperties
  <1>3. IsSeq(ids) /\ \A j \in 1..Len(ids) : ids[j] \in 1..(n + m)
    BY <1>2, SeqIn
  <1>4. PICK S : S = 1..(n + m)
    OBVIOUS
  <1>5. \A j \in 1..Len(q) : q[j] \in S
    BY <1>4
  <1>6. \A j \in 1..Len(ids) : ids[j] \in S
    BY <1>3, <1>4
  <1>7. FilterProposals(all, t, c) \subseteq S
    BY <1>3, <1>5, <1>6, FilteredFrom
  <1> QED BY <1>1, <1>4, <1>7

(* The commits of members. *)
LEMMA DoCommit ==
    ASSUME KeysInv, NEW c \in Clients, NEW own, IsSeq(own), NEW force, Commit(c, own, force)
    PROVE  KeysInv'
  <1>0. /\ Operational(c) /\ commits' = Append(commits, BuiltCommit(c, own, force).commit)
        /\ props' = props \o own /\ StageCommit(c, Len(commits) + 1)
        /\ UNCHANGED log /\ UNCHANGED staged /\ UNCHANGED cursor /\ UNCHANGED observer
    BY DEF Commit, local
  <1>1. Up(c) /\ mem[c].state = "Operational"
    BY <1>0 DEF Operational
  <1>2. PICK g : g = mem[c]
    OBVIOUS
  <1>3. Shaped(g) /\ IsSeq(g.queue) /\ \A j \in 1..Len(g.queue) : g.queue[j] \in 1..Len(props)
    BY <1>1, <1>2, UpGroup
  <1>4. LoadInv /\ Recorded /\ Len(props) \in Nat
    BY SeqFacts DEF KeysInv, Recorded
  <1>5. PICK x : x = BuiltCommit(c, own, force).commit
    OBVIOUS
  <1>6. x.refs \cup x.inline \subseteq 1..(Len(props) + Len(own)) /\ x.parent = g.ctx
    <2>0. PICK n \in Nat : n = Len(props)
      BY <1>4
    <2>1. PICK all, ids, q :
             all = props \o own /\ ids = [i \in 1..Len(own) |-> Len(props) + i] /\ q = g.queue
      OBVIOUS
    <2>2. PICK t : t = q \o ids
      OBVIOUS
    <2>3. PICK cov : cov = FilterProposals(all, t, c)
      OBVIOUS
    <2>4. x.refs = cov \ Elements(ids) /\ x.inline = cov \cap Elements(ids) /\ x.parent = g.ctx
      BY <1>2, <1>5, <2>1, <2>2, <2>3 DEF BuiltCommit
    <2>5. FilterProposals(all, t, c) \subseteq 1..(n + Len(own))
      <3>1. IsSeq(q) /\ \A j \in 1..Len(q) : q[j] \in 1..n
        BY <1>3, <2>0, <2>1
      <3>2. ids = [i \in 1..Len(own) |-> n + i]
        BY <2>0, <2>1
      <3> QED BY <2>2, <3>1, <3>2, CoversKnown
    <2>6. cov \subseteq 1..(Len(props) + Len(own))
      BY <2>0, <2>3, <2>5
    <2> QED BY <2>4, <2>6
  <1>7. /\ Recorded' /\ Grows /\ Len(commits') = Len(commits) + 1 /\ commits'[Len(commits) + 1] = x
        /\ Len(commits) + 1 \in 1..Len(commits')
    <2>1. commits' = Append(commits, x) /\ props' = props \o own /\ log' = log
      BY <1>0, <1>5
    <2> QED BY <1>4, <1>6, <2>1, CommitMade
  <1>8. PICK fr, id : fr = Framed(g) /\ id = Len(commits) + 1
    OBVIOUS
  <1>9. /\ Shaped(fr) /\ \A f \in Fields \ FramedFields : fr[f] = g[f]
        /\ fr.queue = g.queue /\ fr.ctx = g.ctx /\ fr.state = g.state /\ fr.pending = g.pending
    BY <1>3, <1>8, FramedGroup
  <1>10. PICK h : h = [fr EXCEPT !.state = "PendingCommit", !.pending = id]
    OBVIOUS
  <1>11. /\ Shaped(h) /\ \A f \in Fields \ GroupState : h[f] = fr[f]
         /\ h.queue = fr.queue /\ h.ctx = fr.ctx /\ h.state = "PendingCommit" /\ h.pending = id
    BY <1>9, <1>10 DEF Shaped, Fields, GroupState
  <1>12. \A f \in Fields \ (GroupState \cup FramedFields) : h[f] = mem[c][f]
    BY <1>2, <1>9, <1>11
  <1>13. Call(c, h, GroupState \cup FramedFields)
    BY <1>0, <1>2, <1>8, <1>10 DEF StageCommit
  <1>14. /\ LoadInv' /\ mem'[c] = h /\ disk'[c].group = h /\ disk'[c].keys = disk[c].keys
         /\ \A d \in Clients \ {c} : mem'[d] = mem[d] /\ disk'[d] = disk[d]
    BY <1>0, <1>1, <1>4, <1>11, <1>12, <1>13, LoadCall
  <1>15. IsSeq(h.queue) /\ \A j \in 1..Len(h.queue) : h.queue[j] \in 1..Len(props')
    BY <1>3, <1>7, <1>9, <1>11 DEF Grows, Prefixes
  <1>16. h.pending \in 1..Len(commits') /\ commits'[h.pending].parent = h.ctx
    BY <1>6, <1>7, <1>8, <1>9, <1>11
  <1>17. h.ctx = mem[c].ctx /\ (h.state = "Inactive" <=> mem[c].state = "Inactive")
    BY <1>1, <1>2, <1>9, <1>11
  <1>18. PICK s, k \in Nat : s = 0 /\ k = 0
    OBVIOUS
  <1>19. staged' = staged /\ cursor' = cursor
    BY <1>0
  <1> QED BY <1>1, <1>7, <1>11, <1>14, <1>15, <1>16, <1>17, <1>18, <1>19, SameEpoch

(* Short sequences. *)
LEMMA ShortSeqs == ASSUME NEW x, NEW y PROVE IsSeq(<<x>>) /\ IsSeq(<<x, y>>) /\ IsSeq(<<>>)
  <1>1. <<x>> \in Seq({x}) /\ <<x, y>> \in Seq({x, y})
    OBVIOUS
  <1>2. IsSeq(<<x>>)
    BY <1>1, SeqIn
  <1>3. IsSeq(<<x, y>>)
    BY <1>1, SeqIn
  <1> QED BY <1>2, <1>3, EmptyIsSeq

(* The calls of the API that commit. *)
LEMMA DoCommitCalls ==
    ASSUME KeysInv, NEW c \in Clients,
           \/ CommitToPendingProposals(c)
           \/ SelfUpdate(c)
           \/ \E t \in Clients : \E force \in BOOLEAN : AddMembers(c, t, force)
           \/ \E t \in Clients : RemoveMembers(c, t)
           \/ \E t, u \in Clients : SwapMembers(c, t, u)
           \/ UpdateGroupContextExtensions(c)
           \/ \E p \in Psks : CommitWithPsk(c, p)
    PROVE  KeysInv'
  <1>1. CASE CommitToPendingProposals(c)
    BY <1>1, EmptyIsSeq, DoCommit DEF CommitToPendingProposals
  <1>2. CASE SelfUpdate(c)
    BY <1>2, EmptyIsSeq, DoCommit DEF SelfUpdate
  <1>3. ASSUME NEW t, NEW force, AddMembers(c, t, force) PROVE KeysInv'
    <2>1. PICK own : own = <<NewProposal(c, "Add", t)>>
      OBVIOUS
    <2>2. IsSeq(own) /\ Commit(c, own, force)
      BY <1>3, <2>1, ShortSeqs DEF AddMembers
    <2> QED BY <2>2, DoCommit
  <1>4. ASSUME NEW t, RemoveMembers(c, t) PROVE KeysInv'
    <2>1. PICK own : own = <<NewProposal(c, "Remove", t)>>
      OBVIOUS
    <2>2. IsSeq(own) /\ Commit(c, own, FALSE)
      BY <1>4, <2>1, ShortSeqs DEF RemoveMembers
    <2> QED BY <2>2, DoCommit
  <1>5. ASSUME NEW t, NEW u, SwapMembers(c, t, u) PROVE KeysInv'
    <2>1. PICK own : own = <<NewProposal(c, "Remove", t), NewProposal(c, "Add", u)>>
      OBVIOUS
    <2>2. IsSeq(own) /\ Commit(c, own, FALSE)
      BY <1>5, <2>1, ShortSeqs DEF SwapMembers
    <2> QED BY <2>2, DoCommit
  <1>6. CASE UpdateGroupContextExtensions(c)
    <2>1. PICK own : own = <<NewProposal(c, "Gce", c)>>
      OBVIOUS
    <2>2. IsSeq(own) /\ Commit(c, own, FALSE)
      BY <1>6, <2>1, ShortSeqs DEF UpdateGroupContextExtensions
    <2> QED BY <2>2, DoCommit
  <1>7. ASSUME NEW p, CommitWithPsk(c, p) PROVE KeysInv'
    <2>1. PICK own : own = <<NewProposal(c, "Psk", p)>>
      OBVIOUS
    <2>2. IsSeq(own) /\ Commit(c, own, FALSE)
      BY <1>7, <2>1, ShortSeqs DEF CommitWithPsk
    <2> QED BY <2>2, DoCommit
  <1> QED BY <1>1, <1>2, <1>3, <1>4, <1>5, <1>6, <1>7

(* A pending commit is sent. *)
LEMMA DoPublish ==
    ASSUME KeysInv, NEW c \in Clients, Publish(c)
    PROVE  KeysInv'
  <1>0. /\ Up(c) /\ mem[c].state = "PendingCommit"
        /\ log' = Append(log, Entry("commit", mem[c].pending, mem[c].ctx, c))
        /\ props' = props /\ commits' = commits /\ staged' = staged /\ cursor' = cursor
        /\ UNCHANGED <<mem, disk, observer>>
    BY DEF Publish, local
  <1>1. PICK g : g = mem[c]
    OBVIOUS
  <1>2. /\ Shaped(g) /\ IsSeq(g.queue) /\ \A j \in 1..Len(g.queue) : g.queue[j] \in 1..Len(props)
        /\ g.pending \in 1..Len(commits) /\ commits[g.pending].parent = g.ctx /\ disk[c].group = g
    BY <1>0, <1>1, UpGroup
  <1>3. LoadInv' /\ \A d \in Clients : mem'[d] = mem[d] /\ disk'[d] = disk[d]
    BY <1>0, LoadSame DEF KeysInv
  <1>4. PICK e : e = Entry("commit", g.pending, g.ctx, c)
    OBVIOUS
  <1>5. e.type = "commit" /\ e.id = g.pending /\ e.at = g.ctx /\ log' = Append(log, e)
    BY <1>0, <1>1, <1>4 DEF Entry
  <1>6. Recorded' /\ Grows
    <2>1. Recorded
      BY DEF KeysInv
    <2>2. IsSeq(props') /\ Prefixes(props, props') /\ IsSeq(commits') /\ Prefixes(commits, commits')
      BY <1>0, <2>1, SeqFacts DEF Recorded
    <2>3. \A id \in 1..Len(commits') :
             id \in 1..Len(commits) \/ commits'[id].refs \cup commits'[id].inline \subseteq 1..Len(props')
      BY <1>0
    <2>4. e.id \in 1..Len(commits') /\ commits'[e.id].parent = e.at
      BY <1>0, <1>2, <1>5
    <2> QED BY <1>5, <2>1, <2>2, <2>3, <2>4, MoreRecorded
  <1>7. mem'[c] = g /\ disk'[c].group = g /\ disk'[c].keys = disk[c].keys
    BY <1>1, <1>2, <1>3
  <1>8. PICK s, k \in Nat : s = 0 /\ k = 0
    OBVIOUS
  <1>9. /\ \A j \in 1..Len(g.queue) : g.queue[j] \in 1..Len(props')
        /\ g.pending \in 1..Len(commits') /\ commits'[g.pending].parent = g.ctx
    BY <1>0, <1>2
  <1> QED BY <1>0, <1>1, <1>2, <1>3, <1>6, <1>7, <1>8, <1>9, SameEpoch
-----------------------------------------------------------------------------
(* Steps after which nothing is staged. *)
LEMMA NothingStaged ==
    ASSUME KeysInv, LoadInv', Recorded', Grows, NEW c \in Clients,
           \A d \in Clients \ {c} : mem'[d] = mem[d] /\ disk'[d] = disk[d],
           staged' = [staged EXCEPT ![c] = 0] \/ (staged' = staged /\ staged[c] = 0),
           NEW k \in Nat, cursor' = cursor \/ cursor' = [cursor EXCEPT ![c] = k],
           QueueKnown(disk[c].group)', KeysKept(c)', NothingYet(c)'
    PROVE  KeysInv'
  <1>1. staged'[c] = 0
    BY DEF KeysInv
  <1>2. cursor'[c] = cursor[c] \/ cursor'[c] = k
    BY DEF KeysInv
  <1>3. cursor'[c] \in Nat
    BY <1>2 DEF KeysInv, ClientOk, StagedInEpoch
  <1>4. StagedInEpoch(c)'
    BY <1>1, <1>3 DEF StagedInEpoch
  <1>5. ClientOk(c)'
    BY <1>4 DEF ClientOk
  <1>6. PICK s : s = 0
    OBVIOUS
  <1> QED BY <1>5, <1>6, StepOk

(* Once there has been a commit there always has. *)
LEMMA StillFounded ==
    ASSUME Recorded, Grows, commits # <<>>
    PROVE  commits' # <<>> /\ \A c : NothingYet(c)'
  <1>1. Len(commits) # 0
    <2>1. commits \in Seq({commits[i] : i \in 1..Len(commits)})
      BY DEF Recorded, IsSeq
    <2> QED BY <2>1, EmptySeq
  <1>2. commits' # <<>>
    BY <1>1, LenProperties DEF Grows, Prefixes
  <1> QED BY <1>2 DEF NothingYet

(* A group in the next epoch. *)
LEMMA MergedGroup ==
    ASSUME NEW g, Shaped(g), NEW c, NEW id, NEW h, h = Merged(g, c, id)
    PROVE  /\ Shaped(h) /\ h.ctx = id
           /\ SelfRemoved(c, id) => /\ h.state = "Inactive" /\ h.queue = g.queue
                                    /\ h.config = g.config
           /\ ~SelfRemoved(c, id) => /\ h.state = "Operational" /\ h.queue = <<>>
                                     /\ h.config = g.config
  <1>1. CASE SelfRemoved(c, id)
    <2>1. PICK p : p = PskStoreAdd(g.psks, <<commits[id].num, g.secrets>>)
      OBVIOUS
    <2>2. h = [g EXCEPT !.state = "Inactive", !.pending = 0, !.ctx = id, !.own = <<>>, !.psks = p]
      BY <1>1, <2>1 DEF Merged
    <2> QED BY <1>1, <2>2 DEF Shaped, Fields
  <1>2. CASE ~SelfRemoved(c, id)
    <2>1. PICK p, m, x : /\ p = PskStoreAdd(g.psks, <<commits[id].num, id>>)
                         /\ m = [at |-> id, sent |-> 0, used |-> {}]
                         /\ x = [at |-> id, gone |-> {}]
      OBVIOUS
    <2>2. h = [g EXCEPT !.state = "Operational", !.pending = 0, !.ctx = id, !.secrets = id,
                        !.msg = m, !.exporter = x, !.queue = <<>>, !.own = <<>>, !.psks = p]
      BY <1>2, <2>1 DEF Merged
    <2> QED BY <1>2, <2>2 DEF Shaped, Fields
  <1> QED BY <1>1, <1>2

(* A commit is merged: the group is in the next epoch, in memory and in     *)
(* storage, with the keys of that epoch, or the client has left.            *)
LEMMA MergeOk ==
    ASSUME KeysInv, NEW c \in Clients, Active(c), NEW id \in Accepted, commits[id].parent = mem[c].ctx,
           Merge(c, id), UNCHANGED global, observer' = observer,
           staged' = [staged EXCEPT ![c] = 0] \/ (staged' = staged /\ staged[c] = 0),
           NEW k \in Nat, cursor' = [cursor EXCEPT ![c] = k]
    PROVE  KeysInv'
  <1>0. Up(c) /\ mem[c].state # "Inactive" /\ LoadInv /\ Recorded
    BY DEF Active, KeysInv
  <1>1. PICK g, D : g = mem[c] /\ D = disk[c]
    OBVIOUS
  <1>2. /\ Shaped(g) /\ D.group = g /\ g # NoGroup
        /\ IsSeq(g.queue) /\ \A i \in 1..Len(g.queue) : g.queue[i] \in 1..Len(props)
    BY <1>0, <1>1, UpGroup
  <1>3. PICK h : h = Merged(g, c, id)
    OBVIOUS
  <1>4. /\ Shaped(h) /\ h.ctx = id
        /\ SelfRemoved(c, id) => h.state = "Inactive" /\ h.queue = g.queue /\ h.config = g.config
        /\ ~SelfRemoved(c, id) => h.state = "Operational" /\ h.queue = <<>> /\ h.config = g.config
    BY <1>2, <1>3, MergedGroup
  <1>5. PICK fields, keys, leafKeys :
          /\ fields = GroupState \cup {"psks", "own"} \cup (IF h.state = "Inactive" THEN StoreFields ELSE MergeFields)
          /\ keys = IF h.state = "Inactive" THEN D.keys ELSE (D.keys \ {g.ctx}) \cup {id}
          /\ leafKeys = IF h.state = "Inactive" THEN D.leafKeys ELSE D.leafKeys \ OwnUpdateIn(c, id)
    OBVIOUS
  <1>6. Write(g, h, fields) = h
    <2>1. \A f \in Fields \ fields : h[f] = g[f]
      <3>1. CASE SelfRemoved(c, id)
        <4>1. Fields \ fields = {"queue"}
          BY <1>4, <1>5, <3>1 DEF GroupState, StoreFields, Fields
        <4> QED BY <1>4, <3>1, <4>1
      <3>2. CASE ~SelfRemoved(c, id)
        <4>1. Fields \ fields = {"config"}
          BY <1>4, <1>5, <3>2 DEF GroupState, MergeFields, Fields
        <4> QED BY <1>4, <3>2, <4>1
      <3> QED BY <3>1, <3>2
    <2> QED BY <1>2, <1>4, <2>1, Written DEF Complete
  <1>7. PICK s : s = [D EXCEPT !.group = h, !.keys = keys, !.leafKeys = leafKeys]
    OBVIOUS
  <1>8. Stored(s) /\ s.group = h /\ s.keys = keys
    <2>1. Stored(D)
      BY <1>0, <1>1 DEF LoadInv
    <2> QED BY <1>7, <2>1 DEF Stored, Parts
  <1>9. mem' = [mem EXCEPT ![c] = h] /\ disk' = [disk EXCEPT ![c] = s]
    <2>1. mem' = [mem EXCEPT ![c] = h]
      BY <1>1, <1>3 DEF Merge
    <2>2. disk' = [disk EXCEPT ![c].group = Write(@, h, fields),
                               ![c].keys = IF h.state = "Inactive" THEN @ ELSE (@ \ {g.ctx}) \cup {id},
                               ![c].leafKeys = IF h.state = "Inactive" THEN @ ELSE @ \ OwnUpdateIn(c, id)]
      BY <1>1, <1>3, <1>5 DEF Merge
    <2>3. c \in DOMAIN disk
      BY <1>0 DEF LoadInv
    <2>4. disk' = [disk EXCEPT ![c] = [disk[c] EXCEPT !.group = Write(g, h, fields), !.keys = keys, !.leafKeys = leafKeys]]
      BY <1>1, <1>2, <1>5, <2>2, <2>3
    <2> QED BY <1>1, <1>6, <1>7, <2>1, <2>4
  <1>10. /\ LoadInv' /\ mem'[c] = h /\ disk'[c] = s
         /\ \A d \in Clients \ {c} : mem'[d] = mem[d] /\ disk'[d] = disk[d]
    <2>1. Complete(h) /\ Complete(s.group) /\ s.group = h
      BY <1>4, <1>8 DEF Complete
    <2> QED BY <1>0, <1>8, <1>9, <2>1, LoadStep
  <1>11. Recorded' /\ Grows /\ props' = props /\ commits' = commits /\ log' = log
    BY <1>0, NothingSent DEF global
  <1>12. QueueKnown(disk[c].group)'
    <2>1. IsSeq(h.queue) /\ \A i \in 1..Len(h.queue) : h.queue[i] \in 1..Len(props)
      BY <1>2, <1>4, EmptyIsSeq
    <2>2. h.state # "PendingCommit"
      BY <1>4
    <2> QED BY <1>8, <1>10, <1>11, <2>1, <2>2 DEF QueueKnown
  <1>13. \A j : LeftAfter(c, j)' <=> LeftAfter(c, j)
    BY <1>11 DEF LeftAfter, Accepted, SelfRemoved
  <1>14. \A j \in D.keys : j = g.ctx \/ LeftAfter(c, j)
    BY <1>0, <1>1, <1>2 DEF KeysInv, ClientOk, KeysKept
  <1>15. KeysKept(c)'
    <2>1. CASE SelfRemoved(c, id)
      <3>1. LeftAfter(c, g.ctx)
        BY <1>1, <2>1 DEF LeftAfter
      <3>2. s.keys = D.keys /\ s.group.state = "Inactive"
        BY <1>4, <1>5, <1>8, <2>1
      <3>3. \A j \in s.keys : LeftAfter(c, j)'
        BY <1>13, <1>14, <3>1, <3>2
      <3> QED BY <1>10, <3>2, <3>3 DEF KeysKept
    <2>2. CASE ~SelfRemoved(c, id)
      <3>1. s.keys = (D.keys \ {g.ctx}) \cup {id} /\ s.group.state = "Operational" /\ s.group.ctx = id
        BY <1>4, <1>5, <1>8, <2>2
      <3>2. s.group # NoGroup
        BY <1>4, <1>8, ShapedIsSome
      <3>3. \A j \in s.keys : j = id \/ LeftAfter(c, j)'
        BY <1>13, <1>14, <3>1
      <3> QED BY <1>10, <3>1, <3>2, <3>3 DEF KeysKept
    <2> QED BY <2>1, <2>2
  <1>16. NothingYet(c)'
    BY <1>0, <1>11, UpFounded, StillFounded
  <1> QED BY <1>10, <1>11, <1>12, <1>15, <1>16, NothingStaged

(* The own commit comes back. *)
LEMMA DoMergePending ==
    ASSUME KeysInv, NEW c \in Clients, MergePendingCommit(c)
    PROVE  KeysInv'
  <1>0. /\ Active(c) /\ cursor[c] < Len(log) /\ staged[c] = 0 /\ staged' = staged
        /\ log[cursor[c] + 1].type = "commit" /\ mem[c].state = "PendingCommit"
        /\ mem[c].pending = log[cursor[c] + 1].id
        /\ Merge(c, log[cursor[c] + 1].id) /\ cursor' = [cursor EXCEPT ![c] = cursor[c] + 1]
        /\ UNCHANGED global /\ observer' = observer
    BY DEF MergePendingCommit, HasNext, Incoming, Done, local
  <1>1. Up(c)
    BY <1>0 DEF Active
  <1>2. cursor[c] \in Nat /\ commits[mem[c].pending].parent = mem[c].ctx
    BY <1>0, <1>1, UpGroup
  <1>3. Len(log) \in Nat
    BY SeqFacts DEF KeysInv, Recorded
  <1>4. PICK k \in Nat : k = cursor[c] + 1
    BY <1>2
  <1>5. PICK id : id = log[k].id
    OBVIOUS
  <1>6. k \in 1..Len(log) /\ log[k].type = "commit"
    BY <1>0, <1>2, <1>3, <1>4
  <1>7. id \in Accepted
    BY <1>5, <1>6 DEF Accepted
  <1>8. commits[id].parent = mem[c].ctx /\ Merge(c, id) /\ cursor' = [cursor EXCEPT ![c] = k]
    BY <1>0, <1>2, <1>4, <1>5
  <1> QED BY <1>0, <1>7, <1>8, MergeOk

(* The commit of another client is merged. *)
LEMMA DoMergeStaged ==
    ASSUME KeysInv, NEW c \in Clients, MergeStagedCommit(c)
    PROVE  KeysInv'
  <1>0. /\ Up(c) /\ staged[c] # 0 /\ staged' = [staged EXCEPT ![c] = 0]
        /\ log[staged[c]].type = "commit"
        /\ Merge(c, log[staged[c]].id) /\ cursor' = [cursor EXCEPT ![c] = cursor[c] + 1]
        /\ UNCHANGED global /\ observer' = observer
    BY DEF MergeStagedCommit, Done, local
  <1>1. /\ Active(c) /\ staged[c] \in 1..Len(log) /\ log[staged[c]].at = mem[c].ctx /\ cursor[c] \in Nat
    BY <1>0 DEF KeysInv, ClientOk, StagedInEpoch
  <1>2. PICK id : id = log[staged[c]].id
    OBVIOUS
  <1>3. id \in Accepted
    BY <1>0, <1>1, <1>2 DEF Accepted
  <1>4. commits[id].parent = mem[c].ctx
    BY <1>0, <1>1, <1>2 DEF KeysInv, Recorded
  <1>5. PICK k \in Nat : k = cursor[c] + 1
    BY <1>1
  <1>6. Merge(c, id) /\ cursor' = [cursor EXCEPT ![c] = k]
    BY <1>0, <1>2, <1>5
  <1> QED BY <1>0, <1>1, <1>3, <1>4, <1>6, MergeOk
-----------------------------------------------------------------------------
(* The keys of epochs that were left, when the log goes on. *)
LEMMA KeysStay ==
    ASSUME KeysInv, Grows, NEW c \in Clients, NEW k \in disk[c].keys, LeftAfter(c, k)
    PROVE  LeftAfter(c, k)'
  <1>1. commits # <<>>
    BY DEF KeysInv, ClientOk, NothingYet
  <1> QED BY <1>1, LeftGrows DEF KeysInv

(* A client that is not up has nothing staged. *)
LEMMA DownNothingStaged ==
    ASSUME KeysInv, NEW c \in Clients, ~Up(c) \/ mem[c].state = "Inactive" \/ ~InLine(c)
    PROVE  staged[c] = 0
  BY DEF KeysInv, ClientOk, StagedInEpoch, Active

(* A group as it is right after a client has joined. *)
Fresh(h) == Shaped(h) /\ h.queue = <<>> /\ h.state = "Operational"

(* The keys in storage are those that were there and those of the group. *)
KeysOf(s, h, keys) == s.group = h /\ h.ctx \in s.keys /\ \A k \in s.keys : k = h.ctx \/ k \in keys

(* Storage has no group, or one that the client has left. *)
NotMember(c) == disk[c].group = NoGroup \/ disk[c].group.state = "Inactive"

(* A client comes into a group that its storage does not have. *)
LEMMA JoinOk ==
    ASSUME KeysInv, Recorded', Grows, commits' # <<>>, NEW c \in Clients, observer' = observer,
           NEW h, Fresh(h), NEW s, Stored(s), KeysOf(s, h, disk[c].keys), NotMember(c),
           mem' = [mem EXCEPT ![c] = h], disk' = [disk EXCEPT ![c] = s],
           staged' = [staged EXCEPT ![c] = 0] \/ (staged' = staged /\ staged[c] = 0),
           NEW k \in Nat, cursor' = cursor \/ cursor' = [cursor EXCEPT ![c] = k]
    PROVE  KeysInv'
  <1>1. /\ LoadInv' /\ mem'[c] = h /\ disk'[c] = s
        /\ \A d \in Clients \ {c} : mem'[d] = mem[d] /\ disk'[d] = disk[d]
    <2>1. LoadInv /\ Complete(h) /\ Complete(s.group) /\ (h # NoGroup => s.group = h)
      BY DEF KeysInv, Complete, Fresh, KeysOf
    <2> QED BY <2>1, LoadStep
  <1>2. QueueKnown(disk[c].group)'
    <2>1. IsSeq(h.queue) /\ \A i \in 1..Len(h.queue) : h.queue[i] \in 1..Len(props')
      BY EmptyIsSeq DEF Fresh
    <2> QED BY <1>1, <2>1 DEF QueueKnown, Fresh, KeysOf
  <1>3. KeysKept(c)'
    <2>1. \A j \in disk[c].keys : LeftAfter(c, j)
      BY DEF KeysInv, ClientOk, KeysKept, NotMember
    <2>2. \A j \in disk[c].keys : LeftAfter(c, j)'
      BY <2>1, KeysStay
    <2>3. h # NoGroup
      BY ShapedIsSome DEF Fresh
    <2>4. s.group = h /\ h.ctx \in s.keys /\ h.state # "Inactive"
      BY DEF KeysOf, Fresh
    <2>5. \A j \in s.keys : j = h.ctx \/ LeftAfter(c, j)'
      BY <2>2 DEF KeysOf
    <2> QED BY <1>1, <2>3, <2>4, <2>5 DEF KeysKept
  <1>4. NothingYet(c)'
    BY DEF NothingYet
  <1> QED BY <1>1, <1>2, <1>3, <1>4, NothingStaged

(* A group is founded. *)
LEMMA DoNewGroup ==
    ASSUME KeysInv, NEW c \in Clients, NewGroup(c)
    PROVE  KeysInv'
  <1>0. /\ commits = <<>> /\ disk[c].group = NoGroup /\ commits' = <<FirstCommit>>
        /\ props' = props /\ log' = log /\ staged' = staged /\ cursor' = cursor /\ observer' = observer
    BY DEF NewGroup, local
  <1>1. LoadInv /\ Recorded /\ disk[c].keys = {} /\ ~Up(c)
    <2>1. ClientOk(c) /\ LoadInv /\ Recorded
      BY DEF KeysInv
    <2>2. disk[c].keys = {}
      BY <1>0, <2>1 DEF ClientOk, NothingYet
    <2>3. ~Up(c)
      BY <1>0, <2>1 DEF LoadInv, LoadRestores, Up
    <2> QED BY <2>1, <2>2, <2>3
  <1>2. PICK h, D : h = NewMlsGroup(1, 0, PskStore(32)) /\ D = disk[c]
    OBVIOUS
  <1>3. Shaped(h) /\ h.queue = <<>> /\ h.own = <<>> /\ h.ctx = 1 /\ h.state = "Operational"
    BY <1>2, NewGroupShaped
  <1>4. Write(NoGroup, h, StoreFields) = h
    <2>1. Fields \ StoreFields = {"queue", "own"}
      BY DEF StoreFields, Fields
    <2>2. \A f \in Fields \ StoreFields : h[f] = <<>>
      BY <1>3, <2>1
    <2> QED BY <1>3, <2>2, Written DEF Complete
  <1>5. PICK s : s = [D EXCEPT !.group = h, !.keys = {1}]
    OBVIOUS
  <1>6. Stored(s) /\ s.group = h /\ s.keys = {1}
    <2>1. Stored(D)
      BY <1>1, <1>2 DEF LoadInv
    <2> QED BY <1>5, <2>1 DEF Stored, Parts
  <1>7. mem' = [mem EXCEPT ![c] = h] /\ disk' = [disk EXCEPT ![c] = s]
    <2>1. /\ mem' = [mem EXCEPT ![c] = h]
          /\ disk' = [disk EXCEPT ![c].group = Write(@, h, StoreFields), ![c].keys = @ \cup {1}]
      BY <1>2 DEF NewGroup
    <2>2. c \in DOMAIN disk /\ disk[c].keys \cup {1} = {1}
      BY <1>1 DEF LoadInv
    <2>3. disk' = [disk EXCEPT ![c] = [disk[c] EXCEPT !.group = Write(NoGroup, h, StoreFields), !.keys = disk[c].keys \cup {1}]]
      BY <1>0, <2>1, <2>2
    <2> QED BY <1>2, <1>4, <1>5, <2>1, <2>2, <2>3
  <1>8. Recorded' /\ Grows /\ commits' # <<>>
    <2>1. PICK own, x : own = <<>> /\ x = FirstCommit
      OBVIOUS
    <2>2. IsSeq(own) /\ Len(own) = 0 /\ IsSeq(props)
      BY <1>1, <2>1, EmptyIsSeq DEF Recorded
    <2>3. props' = props \o own
      <3>1. props \in Seq({props[i] : i \in 1..Len(props)})
        BY <2>2 DEF IsSeq
      <3> QED BY <1>0, <2>1, <3>1, ConcatEmptySeq
    <2>4. commits' = Append(commits, x) /\ log' = log
      BY <1>0, <2>1
    <2>5. x.refs \cup x.inline \subseteq 1..(Len(props) + Len(own))
      BY <2>1 DEF FirstCommit
    <2>6. Recorded' /\ Grows /\ Len(commits) + 1 \in 1..Len(commits')
      BY <1>1, <2>2, <2>3, <2>4, <2>5, CommitMade
    <2> QED BY <1>0, <2>6
  <1>9. staged[c] = 0
    BY <1>1, DownNothingStaged
  <1>10. PICK k \in Nat : k = 0
    OBVIOUS
  <1>11. KeysOf(s, h, disk[c].keys) /\ Fresh(h) /\ NotMember(c)
    BY <1>0, <1>3, <1>6 DEF KeysOf, Fresh, NotMember
  <1> QED BY <1>0, <1>6, <1>7, <1>8, <1>9, <1>10, <1>11, JoinOk

(* A key package is made. *)
LEMMA DoNewKeyPackage ==
    ASSUME KeysInv, NEW c \in Clients, NewKeyPackage(c)
    PROVE  KeysInv'
  <1>0. /\ disk' = [disk EXCEPT ![c].keyPackage = Len(commits)] /\ mem' = mem
        /\ UNCHANGED global /\ staged' = staged /\ cursor' = cursor /\ observer' = observer
    BY DEF NewKeyPackage, local
  <1>1. LoadInv /\ Recorded
    BY DEF KeysInv
  <1>2. PICK g, D, n : g = mem[c] /\ D = disk[c] /\ n = Len(commits)
    OBVIOUS
  <1>3. PICK s : s = [D EXCEPT !.keyPackage = n]
    OBVIOUS
  <1>4. Stored(s) /\ s.group = D.group /\ s.keys = D.keys
    <2>1. Stored(D)
      BY <1>1, <1>2 DEF LoadInv
    <2> QED BY <1>3, <2>1 DEF Stored, Parts
  <1>5. mem' = [mem EXCEPT ![c] = g] /\ disk' = [disk EXCEPT ![c] = s]
    BY <1>0, <1>1, <1>2, <1>3 DEF LoadInv
  <1>6. Complete(g) /\ Complete(s.group) /\ (g # NoGroup => s.group = g)
    BY <1>1, <1>2, <1>4 DEF LoadInv, LoadRestores, Up
  <1>7. /\ LoadInv' /\ mem'[c] = g /\ disk'[c] = s
        /\ \A d \in Clients \ {c} : mem'[d] = mem[d] /\ disk'[d] = disk[d]
    BY <1>0, <1>1, <1>4, <1>5, <1>6, LoadStep
  <1>8. Recorded' /\ Grows
    BY <1>0, <1>1, NothingSent
  <1>9. ClientOk(c)'
    <2>1. mem'[c] = mem[c] /\ disk'[c].group = disk[c].group /\ disk'[c].keys = disk[c].keys
      BY <1>2, <1>4, <1>7
    <2> QED BY <1>0, <1>8, <2>1, Bystander
  <1>10. PICK j : j = 0
    OBVIOUS
  <1> QED BY <1>0, <1>7, <1>8, <1>9, <1>10, StepOk

(* A place in the log. *)
LEMMA PositionIsNat ==
    ASSUME Recorded, NEW id \in Accepted
    PROVE  Position(id) \in Nat
  <1>1. CASE id = 1
    BY <1>1 DEF Position
  <1>2. CASE id # 1
    <2>1. \E i \in 1..Len(log) : log[i].type = "commit" /\ log[i].id = id
      BY <1>2 DEF Accepted
    <2>2. Position(id) \in 1..Len(log)
      BY <1>2, <2>1 DEF Position
    <2>3. Len(log) \in Nat
      BY SeqFacts DEF Recorded
    <2> QED BY <2>2, <2>3
  <1> QED BY <1>1, <1>2

(* A Welcome is joined. *)
LEMMA DoJoin ==
    ASSUME NothingReplaced, KeysInv, NEW c \in Clients, commits # <<>>, JoinFromWelcome(c)
    PROVE  KeysInv'
  <1>0. LoadInv /\ Recorded
    BY DEF KeysInv
  <1>1. PICK id \in Accepted :
          /\ disk[c].group = NoGroup
          /\ IntoGroup(c, id) /\ cursor' = [cursor EXCEPT ![c] = Position(id)]
          /\ staged' = [staged EXCEPT ![c] = 0] /\ UNCHANGED global /\ observer' = observer
    BY DEF JoinFromWelcome, NothingReplaced, local
  <1>2. PICK h, D, num, keys : /\ num = commits[id].num /\ D = disk[c]
                               /\ h = NewMlsGroup(id, commits[id].num, PskStore(JoinerPsks))
                               /\ keys = disk[c].keys \cup {id}
    OBVIOUS
  <1>3. Shaped(h) /\ h.queue = <<>> /\ h.own = <<>> /\ h.ctx = id /\ h.state = "Operational"
    BY <1>2, NewGroupShaped
  <1>4. Write(NoGroup, h, StoreFields) = h
    <2>1. Fields \ StoreFields = {"queue", "own"}
      BY DEF StoreFields, Fields
    <2>2. \A f \in Fields \ StoreFields : h[f] = <<>>
      BY <1>3, <2>1
    <2> QED BY <1>3, <2>2, Written DEF Complete
  <1>5. PICK s : s = [D EXCEPT !.keyPackage = 0, !.keys = keys, !.group = h]
    OBVIOUS
  <1>6. Stored(s) /\ s.group = h /\ s.keys = keys
    <2>1. Stored(D)
      BY <1>0, <1>2 DEF LoadInv
    <2> QED BY <1>5, <2>1 DEF Stored, Parts
  <1>7. mem' = [mem EXCEPT ![c] = h] /\ disk' = [disk EXCEPT ![c] = s]
    <2>1. /\ mem' = [mem EXCEPT ![c] = h]
          /\ disk' = [disk EXCEPT ![c].keyPackage = 0, ![c].keys = @ \cup {id},
                                  ![c].group = Write(@, h, StoreFields)]
      BY <1>1, <1>2 DEF IntoGroup
    <2>2. c \in DOMAIN disk
      BY <1>0 DEF LoadInv
    <2>3. disk' = [disk EXCEPT ![c] = [disk[c] EXCEPT !.keyPackage = 0, !.keys = disk[c].keys \cup {id},
                                                      !.group = Write(NoGroup, h, StoreFields)]]
      BY <1>1, <2>1, <2>2
    <2> QED BY <1>2, <1>4, <1>5, <2>1, <2>3
  <1>8. Recorded' /\ Grows
    BY <1>0, <1>1, NothingSent
  <1>9. commits' # <<>>
    BY <1>0, <1>8, StillFounded
  <1>10. PICK k \in Nat : k = Position(id)
    BY <1>0, PositionIsNat
  <1>11. KeysOf(s, h, disk[c].keys) /\ Fresh(h) /\ NotMember(c)
    BY <1>1, <1>2, <1>3, <1>6 DEF KeysOf, Fresh, NotMember
  <1>12. cursor' = [cursor EXCEPT ![c] = k] /\ staged' = [staged EXCEPT ![c] = 0] /\ observer' = observer
    BY <1>1, <1>10
  <1> QED BY <1>6, <1>7, <1>8, <1>9, <1>11, <1>12, JoinOk

(* An external commit covers SelfRemoves that were sent and what it brings  *)
(* along.                                                                   *)
LEMMA ExternalCovers ==
    ASSUME Recorded, NEW c, NEW base, NEW own, own = ExternalProposals(c, base), NEW x, x = ExternalCommitOf(c, base)
    PROVE  IsSeq(own) /\ x.refs \cup x.inline \subseteq 1..(Len(props) + Len(own)) /\ x.parent = base
  <1>1. IsSeq(own)
    <2>1. PICK a, b : /\ a = [kind |-> "ExternalInit", by |-> c, target |-> c, at |-> base, keyPackage |-> 0]
                      /\ b = [kind |-> "Remove", by |-> c, target |-> c, at |-> base, keyPackage |-> 0]
      OBVIOUS
    <2>2. PICK r : r = IF c \in Roster(base) THEN <<b>> ELSE <<>>
      OBVIOUS
    <2>3. IsSeq(<<a>>) /\ IsSeq(r)
      BY <2>2, ShortSeqs
    <2>4. own = <<a>> \o r
      BY <2>1, <2>2 DEF ExternalProposals
    <2>5. PICK q : q = <<a>>
      OBVIOUS
    <2>6. IsSeq(q) /\ own = q \o r
      BY <2>3, <2>4, <2>5
    <2> QED BY <2>3, <2>6, SeqConcat
  <1>2. IsSeq(props) /\ Len(props) \in Nat /\ Len(own) \in Nat /\ Len(log) \in Nat
    BY <1>1, SeqFacts DEF Recorded
  <1>3. PICK n \in Nat, m \in Nat, z \in Nat : n = Len(props) /\ m = Len(own) /\ z = Len(log)
    BY <1>2
  <1>4. PICK all : all = props \o own
    OBVIOUS
  <1>5. Len(all) = n + m
    BY <1>1, <1>2, <1>3, <1>4, SeqConcat
  <1>6. PICK ids, mine : ids = (n + 1)..(n + m) /\ mine = SelfRemovesAt(base)
    OBVIOUS
  <1>7. PICK q : q = [i \in mine \cup {z + r : r \in ids} |-> IF i <= z THEN log[i].id ELSE i - z]
    OBVIOUS
  <1>8. PICK cov : cov = FilterProposals(all, q, c)
    OBVIOUS
  <1>9. x.refs = cov \ ids /\ x.inline = cov \cap ids /\ x.parent = base
    BY <1>3, <1>4, <1>5, <1>6, <1>7, <1>8 DEF ExternalCommitOf
  <1>10. \A i \in mine : i <= z /\ log[i].id \in 1..n
    BY <1>3, <1>6 DEF SelfRemovesAt, Recorded
  <1>11. \A r \in ids : ~(z + r <= z) /\ z + r - z = r /\ r \in 1..(n + m)
    BY <1>6
  <1>12. ASSUME NEW i \in DOMAIN q PROVE q[i] \in 1..(n + m)
    <2>1. i \in mine \/ \E r \in ids : i = z + r
      BY <1>7
    <2>2. CASE i \in mine
      <3>1. q[i] = log[i].id
        BY <1>7, <1>10, <2>2
      <3>2. 1..n \subseteq 1..(n + m)
        OBVIOUS
      <3> QED BY <1>10, <2>2, <3>1, <3>2
    <2>3. ASSUME NEW r \in ids, i = z + r PROVE q[i] \in 1..(n + m)
      <3>1. q[i] = i - z
        BY <1>7, <1>11, <2>3
      <3> QED BY <1>11, <2>3, <3>1
    <2> QED BY <2>1, <2>2, <2>3
  <1>13. cov \subseteq {q[i] : i \in DOMAIN q}
    BY <1>8 DEF FilterProposals
  <1>14. cov \subseteq 1..(n + m)
    BY <1>12, <1>13
  <1> QED BY <1>1, <1>3, <1>9, <1>14

(* A client comes in, or comes back, by an external commit. *)
LEMMA DoExternal ==
    ASSUME NothingReplaced, KeysInv, NEW c \in Clients, NEW base, ExternalCommit(c, base)
    PROVE  KeysInv'
  <1>0. LoadInv /\ Recorded
    BY DEF KeysInv
  <1>1. PICK x, own, id : /\ x = ExternalCommitOf(c, base) /\ own = ExternalProposals(c, base)
                          /\ id = Len(commits) + 1
    OBVIOUS
  <1>2. /\ NotMember(c) /\ commits' = Append(commits, x) /\ Finalize(c, base, id)
        /\ log' = IF base = Tip THEN Append(log, Entry("commit", id, base, c)) ELSE log
        /\ cursor' = [cursor EXCEPT ![c] = Len(log')] /\ props' = props \o own
        /\ staged' = [staged EXCEPT ![c] = 0] /\ observer' = observer
    BY <1>1 DEF ExternalCommit, NothingReplaced, NotMember, local
  <1>3. IsSeq(own) /\ x.refs \cup x.inline \subseteq 1..(Len(props) + Len(own)) /\ x.parent = base
    BY <1>0, <1>1, ExternalCovers
  <1>4. PICK e : e = Entry("commit", id, base, c)
    OBVIOUS
  <1>5. /\ Recorded' /\ Grows /\ Len(commits') = Len(commits) + 1
    <2>1. e.type = "commit" /\ e.id = Len(commits) + 1 /\ x.parent = e.at
      BY <1>1, <1>3, <1>4 DEF Entry
    <2>2. log' = log \/ log' = Append(log, e)
      BY <1>2, <1>4
    <2> QED BY <1>0, <1>2, <1>3, <2>1, <2>2, CommitMade
  <1>6. commits' # <<>>
    <2>1. Len(commits) \in Nat
      BY <1>0, SeqFacts DEF Recorded
    <2> QED BY <1>5, <2>1, EmptyIsSeq
  <1>7. PICK w, h, D, keys : /\ w = NewMlsGroup(id, commits[base].num + 1, PskStore(32))
                             /\ h = [w EXCEPT !.queue = <<>>]
                             /\ D = disk[c] /\ keys = (disk[c].keys \ {base}) \cup {id}
    OBVIOUS
  <1>8. Shaped(h) /\ h.queue = <<>> /\ h.ctx = id /\ h.state = "Operational"
    <2>1. Shaped(w) /\ w.queue = <<>> /\ w.ctx = id /\ w.state = "Operational"
      BY <1>7, NewGroupShaped
    <2> QED BY <1>7, <2>1 DEF Shaped, Fields
  <1>9. PICK fields : fields = StoreFields \cup MergeFields \cup {"own"}
    OBVIOUS
  <1>10. Write(D.group, h, fields) = h
    <2>1. Fields \ fields = {}
      BY <1>9 DEF StoreFields, MergeFields, Fields
    <2>2. Complete(D.group)
      BY <1>0, <1>7 DEF LoadInv
    <2>3. PICK o : o = D.group
      OBVIOUS
    <2>4. /\ o # NoGroup => \A f \in Fields \ fields : h[f] = o[f]
          /\ o = NoGroup => \A f \in Fields \ fields : h[f] = <<>>
      BY <2>1
    <2>5. Complete(o)
      BY <2>2, <2>3
    <2>6. Write(o, h, fields) = h
      BY <1>8, <2>4, <2>5, Written
    <2> QED BY <2>3, <2>6
  <1>11. PICK s : s = [D EXCEPT !.group = h, !.keys = keys]
    OBVIOUS
  <1>12. Stored(s) /\ s.group = h /\ s.keys = keys
    <2>1. Stored(D)
      BY <1>0, <1>7 DEF LoadInv
    <2> QED BY <1>11, <2>1 DEF Stored, Parts
  <1>13. mem' = [mem EXCEPT ![c] = h] /\ disk' = [disk EXCEPT ![c] = s]
    <2>1. /\ mem' = [mem EXCEPT ![c] = h]
          /\ disk' = [disk EXCEPT ![c].group = Write(@, h, fields),
                                  ![c].keys = (@ \ {base}) \cup {id}]
      BY <1>2, <1>7, <1>9 DEF Finalize
    <2>2. c \in DOMAIN disk
      BY <1>0 DEF LoadInv
    <2>3. disk' = [disk EXCEPT ![c] = [disk[c] EXCEPT !.group = Write(disk[c].group, h, fields),
                                                      !.keys = (disk[c].keys \ {base}) \cup {id}]]
      BY <2>1, <2>2
    <2> QED BY <1>7, <1>10, <1>11, <2>1, <2>3
  <1>14. KeysOf(s, h, disk[c].keys) /\ Fresh(h)
    BY <1>7, <1>8, <1>12 DEF KeysOf, Fresh
  <1>15. PICK k \in Nat : k = Len(log')
    BY <1>5 DEF Grows, Prefixes
  <1>16. cursor' = [cursor EXCEPT ![c] = k] /\ staged' = [staged EXCEPT ![c] = 0] /\ observer' = observer
    BY <1>2, <1>15
  <1> QED BY <1>2, <1>5, <1>6, <1>12, <1>13, <1>14, <1>16, JoinOk
-----------------------------------------------------------------------------
(* A group is deleted. *)
LEMMA DoDelete ==
    ASSUME KeysInv, NEW c \in Clients, Delete(c)
    PROVE  KeysInv'
  <1>0. /\ Up(c) /\ (mem[c].state = "Inactive" \/ ~InLine(c))
        /\ disk' = [disk EXCEPT ![c] = DeletedGroup(c)] /\ mem' = [mem EXCEPT ![c] = NoGroup]
        /\ UNCHANGED global /\ staged' = staged /\ cursor' = cursor /\ observer' = observer
    BY DEF Delete, local
  <1>1. LoadInv /\ Recorded /\ disk[c].group = mem[c] /\ ClientOk(c)
    BY <1>0, UpGroup DEF KeysInv, Delete
  <1>2. PICK D, g, keys : D = disk[c] /\ g = NoGroup /\ keys = disk[c].keys \ {mem[c].ctx}
    OBVIOUS
  <1>3. PICK s : s = [D EXCEPT !.group = g, !.keys = keys]
    OBVIOUS
  <1>4. Stored(s) /\ s.group = g /\ s.keys = keys
    <2>1. Stored(D)
      BY <1>1, <1>2 DEF LoadInv
    <2> QED BY <1>3, <2>1 DEF Stored, Parts
  <1>5. mem' = [mem EXCEPT ![c] = g] /\ disk' = [disk EXCEPT ![c] = s]
    BY <1>0, <1>2, <1>3 DEF DeletedGroup
  <1>6. Complete(g) /\ Complete(s.group) /\ s.group = g
    BY <1>2, <1>4 DEF Complete
  <1>7. /\ LoadInv' /\ mem'[c] = g /\ disk'[c] = s
        /\ \A d \in Clients \ {c} : mem'[d] = mem[d] /\ disk'[d] = disk[d]
    BY <1>0, <1>1, <1>4, <1>5, <1>6, LoadStep
  <1>8. Recorded' /\ Grows
    BY <1>0, <1>1, NothingSent
  <1>9. QueueKnown(disk[c].group)'
    BY <1>2, <1>4, <1>7 DEF QueueKnown
  <1>10. KeysKept(c)'
    <2>1. \A j \in keys : j \in disk[c].keys /\ LeftAfter(c, j)
      BY <1>1, <1>2 DEF ClientOk, KeysKept
    <2>2. \A j \in keys : LeftAfter(c, j)'
      BY <1>8, <2>1, KeysStay
    <2>3. disk'[c].group = NoGroup /\ disk'[c].keys = keys
      BY <1>2, <1>4, <1>7
    <2> QED BY <2>2, <2>3 DEF KeysKept
  <1>11. NothingYet(c)'
    <2>1. Up(c)
      BY DEF Delete
    <2> QED BY <1>1, <1>8, <2>1, UpFounded, StillFounded
  <1>12. staged[c] = 0
    BY <1>0, DownNothingStaged
  <1>13. PICK k \in Nat : k = 0
    OBVIOUS
  <1> QED BY <1>0, <1>7, <1>8, <1>9, <1>10, <1>11, <1>12, <1>13, NothingStaged

(* A client stops, or loads its group. *)
LEMMA DoRestart ==
    ASSUME KeysInv, NEW c \in Clients, Crash(c) \/ Load(c)
    PROVE  KeysInv'
  <1>0. LoadInv /\ Recorded /\ ClientOk(c)
    BY DEF KeysInv
  <1>1. PICK g, s : s = disk[c] /\ g = IF Crash(c) THEN NoGroup ELSE disk[c].group
    OBVIOUS
  <1>2. /\ mem' = [mem EXCEPT ![c] = g] /\ disk' = disk /\ UNCHANGED global /\ cursor' = cursor
        /\ observer' = observer
        /\ staged' = [staged EXCEPT ![c] = 0] \/ (staged' = staged /\ ~Up(c))
    BY <1>1 DEF Crash, Load, local
  <1>3. disk' = [disk EXCEPT ![c] = s]
    BY <1>0, <1>1, <1>2 DEF LoadInv
  <1>4. Stored(s) /\ Complete(g) /\ Complete(s.group) /\ (g # NoGroup => s.group = g)
    BY <1>0, <1>1 DEF LoadInv, Complete
  <1>5. /\ LoadInv' /\ mem'[c] = g /\ disk'[c] = s
        /\ \A d \in Clients \ {c} : mem'[d] = mem[d] /\ disk'[d] = disk[d]
    BY <1>0, <1>2, <1>3, <1>4, LoadStep
  <1>6. Recorded' /\ Grows /\ props' = props /\ commits' = commits /\ log' = log
    BY <1>0, <1>2, NothingSent DEF global
  <1>7. staged' = [staged EXCEPT ![c] = 0] \/ (staged' = staged /\ staged[c] = 0)
    BY <1>2, DownNothingStaged
  <1>8. QueueKnown(disk[c].group)' /\ NothingYet(c)'
    BY <1>0, <1>2, <1>6 DEF ClientOk, QueueKnown, NothingYet
  <1>9. KeysKept(c)'
    <2>1. \A j : LeftAfter(c, j)' <=> LeftAfter(c, j)
      BY <1>6 DEF LeftAfter, Accepted, SelfRemoved
    <2> QED BY <1>0, <1>2, <2>1 DEF ClientOk, KeysKept
  <1>10. PICK k \in Nat : k = 0
    OBVIOUS
  <1> QED BY <1>2, <1>5, <1>6, <1>7, <1>8, <1>9, <1>10, NothingStaged

(* The steps of the observer. *)
LEMMA DoObserver ==
    ASSUME KeysInv, Observer
    PROVE  KeysInv'
  <1>0. LoadInv /\ Recorded
    BY DEF KeysInv
  <1>1. UNCHANGED <<mem, disk, staged, cursor>> /\ UNCHANGED global
    BY DEF Observer, FromExternal, ObserveProposal, ObserveCommit, ObserverCrash, ObserverLoad, ObserverStep
  <1>2. /\ observer' = [mem |-> observer'.mem, disk |-> observer'.disk, cursor |-> observer'.cursor]
        /\ observer'.mem # NoPublicGroup => observer'.disk = observer'.mem
    <2>1. /\ observer = [mem |-> observer.mem, disk |-> observer.disk, cursor |-> observer.cursor]
          /\ observer.mem # NoPublicGroup => observer.disk = observer.mem
      BY <1>0 DEF LoadInv, LoadRestores
    <2>2. CASE FromExternal
      BY <2>2 DEF FromExternal, ObserverStep
    <2>3. CASE ObserveProposal
      <3>1. observer.disk = observer.mem
        BY <2>1, <2>3 DEF ObserveProposal, Observing
      <3>2. PICK q : observer' = [observer EXCEPT !.mem.queue = q, !.disk.queue = q, !.cursor = @ + 1]
        BY <2>3 DEF ObserveProposal, ObserverStep
      <3> QED BY <2>1, <3>1, <3>2
    <2>4. CASE ObserveCommit
      BY <2>1, <2>4 DEF ObserveCommit, ObserverStep, ObserverMerge
    <2>5. CASE ObserverCrash
      BY <2>1, <2>5 DEF ObserverCrash
    <2>6. CASE ObserverLoad
      BY <2>1, <2>6 DEF ObserverLoad, ObserverStep
    <2> QED BY <2>2, <2>3, <2>4, <2>5, <2>6 DEF Observer
  <1>3. LoadInv'
    BY <1>0, <1>1, <1>2 DEF LoadInv, LoadRestores, Up
  <1>4. Recorded' /\ Grows
    BY <1>0, <1>1, NothingSent
  <1>5. \A d \in Clients : ClientOk(d)'
    <2> SUFFICES ASSUME NEW d \in Clients PROVE ClientOk(d)'
      OBVIOUS
    <2> QED BY <1>1, <1>4, Bystander
  <1> QED BY <1>1, <1>3, <1>4, <1>5 DEF KeysInv
-----------------------------------------------------------------------------
(* The calls of a client, one after the other. *)
LEMMA DoCalls ==
    ASSUME NothingReplaced, KeysInv, NEW c \in Clients, Calls(c)
    PROVE  KeysInv'
  <1>1. CASE NewGroup(c)
    BY <1>1, DoNewGroup
  <1>2. CASE NewKeyPackage(c)
    BY <1>2, DoNewKeyPackage
  <1>3. CASE \E kind \in ProposalKinds \cap calls : \E t \in Subjects : Propose(c, kind, t)
    BY <1>3, DoPropose
  <1>4. CASE \E i \in 1..Len(mem[c].queue) : RemovePendingProposal(c, i)
    BY <1>4, DoRemovePending
  <1>5. CASE ClearPendingProposals(c)
    BY <1>5, DoClearProposals
  <1>6. CASE \/ CommitToPendingProposals(c)
             \/ SelfUpdate(c)
             \/ \E t \in Clients : \E force \in BOOLEAN : AddMembers(c, t, force)
             \/ \E t \in Clients : RemoveMembers(c, t)
             \/ \E t, u \in Clients : SwapMembers(c, t, u)
             \/ UpdateGroupContextExtensions(c)
             \/ \E p \in Psks : CommitWithPsk(c, p)
    BY <1>6, DoCommitCalls
  <1>7. CASE Publish(c)
    BY <1>7, DoPublish
  <1>8. CASE ClearPendingCommit(c)
    BY <1>8, DoClearCommit
  <1>9. CASE commits # <<>> /\ JoinFromWelcome(c)
    BY <1>9, DoJoin
  <1>10. CASE \E base \in Accepted : ExternalCommit(c, base)
    BY <1>10, DoExternal
  <1>11. CASE Delete(c)
    BY <1>11, DoDelete
  <1>12. CASE \E component \in Components : SafeExportSecret(c, component)
    BY <1>12, DoExport
  <1>13. CASE SetConfiguration(c)
    BY <1>13, DoConfigure
  <1> QED BY <1>1, <1>2, <1>3, <1>4, <1>5, <1>6, <1>7, <1>8, <1>9, <1>10, <1>11, <1>12, <1>13 DEF Calls

(* What a client reads. *)
LEMMA DoReads ==
    ASSUME KeysInv, NEW c \in Clients, Reads(c)
    PROVE  KeysInv'
  BY DoMergePending, DoSkip, DoProcess, DoStoreProposal, DoMergeStaged DEF Reads

(* Steps that change nothing. *)
LEMMA Stutter ==
    ASSUME KeysInv, UNCHANGED vars
    PROVE  KeysInv'
  <1>0. LoadInv /\ Recorded
    BY DEF KeysInv
  <1>1. UNCHANGED <<mem, disk, observer>> /\ UNCHANGED <<staged, cursor>> /\ UNCHANGED global
    BY DEF vars, global
  <1>2. LoadInv' /\ \A d \in Clients : mem'[d] = mem[d] /\ disk'[d] = disk[d]
    BY <1>0, <1>1, LoadSame
  <1>3. Recorded' /\ Grows
    BY <1>0, <1>1, NothingSent
  <1>4. \A d \in Clients : ClientOk(d)'
    <2> SUFFICES ASSUME NEW d \in Clients PROVE ClientOk(d)'
      OBVIOUS
    <2> QED BY <1>1, <1>2, <1>3, Bystander
  <1> QED BY <1>1, <1>2, <1>3, <1>4 DEF KeysInv

(* Storage and memory at the start. *)
LEMMA InitStorage ==
    ASSUME NEW g, NEW keys, NEW s, s = Storage(g, keys)
    PROVE  Stored(s) /\ s.group = g /\ s.keys = keys
  BY DEF Storage, Stored, Parts

(* The invariant holds at the start. *)
LEMMA InitOk ==
    ASSUME Init
    PROVE  KeysInv
  <1>0. /\ IF "NewGroup" \in calls THEN InitNothing ELSE InitFounded
        /\ props = <<>> /\ log = <<>> /\ staged = [c \in Clients |-> 0] /\ cursor = [c \in Clients |-> 0]
        /\ observer = [mem |-> NoPublicGroup, disk |-> NoPublicGroup, cursor |-> 0]
    BY DEF Init
  <1>1. /\ observer = [mem |-> observer.mem, disk |-> observer.disk, cursor |-> observer.cursor]
        /\ observer.mem # NoPublicGroup => observer.disk = observer.mem
    BY <1>0
  <1>2. IsSeq(commits)
    BY <1>0, ShortSeqs DEF InitNothing, InitFounded
  <1>3. \A id \in 1..Len(commits) : commits[id].refs \cup commits[id].inline = {}
    <2>1. CASE commits = <<>>
      BY <2>1, EmptyIsSeq
    <2>2. CASE commits = <<[FirstCommit EXCEPT !.roster = Founders]>>
      <3>1. PICK x : x = [FirstCommit EXCEPT !.roster = Founders]
        OBVIOUS
      <3>2. x.refs = {} /\ x.inline = {}
        BY <3>1 DEF FirstCommit
      <3>3. commits = <<x>>
        BY <2>2, <3>1
      <3> QED BY <3>2, <3>3
    <2> QED BY <1>0, <2>1, <2>2 DEF InitNothing, InitFounded
  <1>4. Recorded
    BY <1>0, <1>2, <1>3, EmptyIsSeq DEF Recorded
  <1>5. mem = [c \in Clients |-> mem[c]] /\ disk = [c \in Clients |-> disk[c]]
    BY <1>0 DEF InitNothing, InitFounded
  <1>6. ASSUME NEW c \in Clients
        PROVE  /\ Stored(disk[c]) /\ Complete(mem[c]) /\ disk[c].group = mem[c] /\ ClientOk(c)
    <2>1. staged[c] = 0 /\ cursor[c] \in Nat
      BY <1>0
    <2>2. StagedInEpoch(c)
      BY <2>1 DEF StagedInEpoch
    <2>3. CASE mem[c] = NoGroup /\ disk[c] = Storage(NoGroup, {})
      <3>1. Stored(disk[c]) /\ disk[c].group = NoGroup /\ disk[c].keys = {}
        BY <2>3, InitStorage
      <3>2. ClientOk(c)
        BY <2>2, <3>1 DEF ClientOk, QueueKnown, KeysKept, NothingYet
      <3> QED BY <2>3, <3>1, <3>2 DEF Complete
    <2>4. CASE c \in Founders /\ InitFounded
      <3>1. PICK max : mem[c] = NewMlsGroup(1, 0, PskStore(max)) /\ disk[c] = Storage(mem[c], {1})
        BY <2>4 DEF InitFounded
      <3>2. PICK g : g = mem[c]
        OBVIOUS
      <3>3. Shaped(g) /\ g.queue = <<>> /\ g.ctx = 1 /\ g.state = "Operational"
        BY <3>1, <3>2, NewGroupShaped
      <3>4. Stored(disk[c]) /\ disk[c].group = g /\ disk[c].keys = {1}
        BY <3>1, <3>2, InitStorage
      <3>5. g # NoGroup /\ IsSeq(g.queue) /\ Len(g.queue) = 0
        BY <3>3, ShapedIsSome, EmptyIsSeq
      <3>6. QueueKnown(disk[c].group)
        BY <3>3, <3>4, <3>5 DEF QueueKnown
      <3>7. KeysKept(c)
        BY <3>3, <3>4, <3>5 DEF KeysKept
      <3>8. NothingYet(c)
        BY <2>4 DEF NothingYet, InitFounded
      <3> QED BY <2>2, <3>2, <3>3, <3>4, <3>6, <3>7, <3>8 DEF ClientOk, Complete
    <2>5. CASE InitNothing
      BY <2>3, <2>5 DEF InitNothing
    <2>6. CASE InitFounded /\ c \notin Founders
      BY <2>3, <2>6 DEF InitFounded
    <2> QED BY <1>0, <2>4, <2>5, <2>6
  <1>7. LoadInv
    BY <1>1, <1>5, <1>6 DEF LoadInv, LoadRestores
  <1>8. staged = [c \in Clients |-> staged[c]] /\ cursor = [c \in Clients |-> cursor[c]]
    BY <1>0
  <1> QED BY <1>4, <1>6, <1>7, <1>8 DEF KeysInv

(* What storage holds of a group, always: the inductive invariant of the    *)
(* API and its storage.                                                     *)
THEOREM StorageInvariant ==
    ASSUME NothingReplaced
    PROVE  Spec => []KeysInv
  <1>1. Init => KeysInv
    BY InitOk
  <1>2. ASSUME KeysInv, [Next]_vars PROVE KeysInv'
    <2>1. CASE UNCHANGED vars
      BY <1>2, <2>1, Stutter
    <2>2. CASE Observer
      BY <1>2, <2>2, DoObserver
    <2>3. ASSUME NEW c \in Clients, Reads(c) \/ Calls(c) \/ Crash(c) \/ Load(c) PROVE KeysInv'
      BY <1>2, <2>3, DoReads, DoCalls, DoRestart
    <2> QED BY <1>2, <2>1, <2>2, <2>3 DEF Next
  <1> QED BY <1>1, <1>2, PTL DEF Spec

(* The keys of the epoch, from the invariant. *)
LEMMA KeysFromInv == KeysInv => KeysFollowEpoch
  <1> SUFFICES ASSUME KeysInv, NEW c \in Clients, Active(c)
               PROVE  /\ mem[c].ctx \in disk[c].keys
                      /\ \A k \in disk[c].keys : k = mem[c].ctx \/ LeftAfter(c, k)
    BY DEF KeysFollowEpoch
  <1>1. Up(c) /\ mem[c].state # "Inactive" /\ KeysKept(c)
    BY DEF Active, KeysInv, ClientOk
  <1>2. disk[c].group = mem[c] /\ mem[c] # NoGroup
    BY <1>1, UpGroup
  <1> QED BY <1>1, <1>2 DEF KeysKept

(* For every number of clients and every sequence of calls, crashes and     *)
(* loads: what a call changes in memory it writes, so that load() gives     *)
(* back the group that was in memory.                                       *)
THEOREM LoadAlwaysRestores ==
    ASSUME NothingReplaced
    PROVE  Spec => []LoadRestores
  <1>1. KeysInv => LoadRestores
    BY DEF KeysInv, LoadInv
  <1> QED BY <1>1, StorageInvariant, PTL

(* For every number of clients and every sequence of calls, crashes and     *)
(* loads: a member's storage has the key pairs of its epoch, and of no      *)
(* other epoch but those that it was removed in.                            *)
THEOREM KeysAlwaysFollow ==
    ASSUME NothingReplaced
    PROVE  Spec => []KeysFollowEpoch
  BY KeysFromInv, StorageInvariant, PTL
=============================================================================
