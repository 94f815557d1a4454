----------------------- MODULE GroupValidationProofs -----------------------
(***************************************************************************)
(* What the checks of leaves, capabilities and lifetimes keep out of a     *)
(* group, for all clients, contents of leaves, contexts and lifetimes.     *)
(***************************************************************************)
EXTENDS GroupValidation, TLAPS

(* What a proposal that has been read or made is known to be; the lifetime  *)
(* of a key package was looked at too, and may have ended since.            *)
WellMade(p) ==
    /\ p.kind = "Add" =>
          /\ p.kp.client \in Users /\ p.kp.leaf \in Leaf /\ p.kp.leaf.expires \in Nat
          /\ VerifiesAs(p.kp.leaf, "KeyPackage", None)
          /\ TryFrom(p.kp.exts, ValidInKeyPackage)
          /\ CheckExtensionSupport(p.kp.leaf, p.kp.exts)
    /\ p.kind = "Update" =>
          /\ p.by \in Users /\ p.leaf \in Leaf
          /\ VerifiesAs(p.leaf, "Update", p.by)
          /\ p.leaf.expires = None
    /\ p.kind = "GroupContextExtensions" => TryFrom(p.exts, ValidInGroupContext)

CommitRecord ==
    [by : Users, external : BOOLEAN, covers : {commit.covers}, path : Leaf \cup {None},
     waiting : SUBSET Users, followed : SUBSET Users, refused : SUBSET Users]

Types ==
    /\ group = [epoch |-> group.epoch, tree |-> group.tree, exts |-> group.exts,
                required |-> group.required, since |-> group.since]
    /\ group.epoch \in Nat /\ group.since \in 0..group.epoch
    /\ group.tree \in [Users -> TreeEntry \cup {None}]
    /\ \A u \in Members(group) : group.tree[u].since <= group.epoch
    /\ active \subseteq Members(group)
    /\ \A p \in store : WellMade(p) /\ p.kind # "ExternalInit"
    /\ commit # None => commit \in CommitRecord
    /\ invited \subseteq Members(group)
    /\ now \in Nat

(* The commit on its way passed its author's checks, at some time, against  *)
(* the group that its receivers still have.                                 *)
PassedThen ==
    commit # None =>
        /\ \A p \in commit.covers : WellMade(p)
        /\ \E t \in 0..now : ValidProposals(group, commit.covers, commit.by, t)
        /\ NeedsPath(commit.covers) => commit.path # None
        /\ commit.path # None =>
              /\ commit.path.expires = None
              /\ OwnPathChecked(commit.path, NextGroup(group, commit.covers, commit.by, commit.path, FALSE))
        /\ IF commit.external THEN commit.path # None /\ ValidExternal(commit.covers)
           ELSE /\ OfKind(commit.covers, "ExternalInit") = {}
                /\ commit.by \in Members(group) \ Leaving(commit.covers)

(* Whoever follows a commit has compared the leaf of its path with the      *)
(* leaves of the group.                                                     *)
FollowedSaw ==
    commit # None /\ commit.followed # {} /\ commit.path # None =>
        LeafCapabilities(group, commit.path)

Inv == /\ Types /\ PassedThen /\ FollowedSaw
       /\ RefusalsExplained /\ RequirementsKept /\ CredentialsUnderstood
-----------------------------------------------------------------------------
(* A key package that a client publishes holds a leaf it can make. *)
LEMMA PublishedOk ==
    ASSUME now \in Nat, NEW kp \in Published
    PROVE  kp.client \in Users /\ kp.leaf \in Leaf /\ kp.leaf.expires \in Nat
  <1>1. PICK u \in Users, params \in Params, lastResort \in BOOLEAN, t \in 0..now :
           kp = NewKeyPackage(u, params, lastResort, t + Life)
    BY DEF Published
  <1>2. t + Life \in Nat
    BY ConstantsOk
  <1>3. kp.client = u /\ kp.leaf = NewLeaf(params, t + Life)
    BY <1>1 DEF NewKeyPackage
  <1>4. params \in Chosen
    BY DEF Chosen
  <1> QED BY <1>2, <1>3, <1>4 DEF NewLeaf, Payload, Leaf

(* The leaves that members and external committers make. *)
LEMMA MadeLeaves ==
    ASSUME NEW leaf \in Leaf, NEW u \in Users
    PROVE  /\ \A params \in Params \cup {None} :
                /\ UpdatedLeaf(leaf, params, u) \in Leaf
                /\ VerifiesAs(UpdatedLeaf(leaf, params, u), "Update", u)
                /\ UpdatedLeaf(leaf, params, u).expires = None
           /\ \A params \in PathParams :
                /\ MemberPathLeaf(leaf, params, u) \in Leaf
                /\ MemberPathLeaf(leaf, params, u).expires = None
  <1>1. \A params \in Params \cup PathParams : params # None => params \in Chosen
    BY DEF Chosen
  <1>2. ASSUME NEW params \in Params \cup PathParams \cup {None},
               NEW contents, contents = IF params = None THEN leaf ELSE params,
               NEW source \in {"Update", "Commit"}
        PROVE  /\ Payload(contents, source, u, None) \in Leaf
               /\ Payload(contents, source, u, None).source = source
               /\ Payload(contents, source, u, None).place = u
               /\ Payload(contents, source, u, None).expires = None
    <2>1. /\ contents.credential \in {p.credential : p \in Chosen}
          /\ contents.caps \in {p.caps : p \in Chosen} \cup {DefaultCapabilities}
          /\ contents.exts \in {p.exts : p \in Chosen} \cup {{}}
      <3>1. CASE params = None
        BY <1>2, <3>1 DEF Leaf
      <3>2. CASE params # None
        BY <1>1, <1>2, <3>2
      <3> QED BY <3>1, <3>2
    <2> QED BY <2>1 DEF Payload, Leaf
  <1> QED BY <1>2 DEF UpdatedLeaf, MemberPathLeaf, VerifiesAs, OfSource, SignedFor

(* The leaf of an external commit is one, and does not expire. *)
LEMMA ExternalLeaf ==
    ASSUME NEW credential \in {p.credential : p \in Params}, NEW params \in PathParams, NEW u \in Users
    PROVE  /\ ExternalPathLeaf(credential, params, u) \in Leaf
           /\ ExternalPathLeaf(credential, params, u).expires = None
  <1>1. params # None => params \in Chosen
    BY DEF Chosen
  <1>2. credential \in {p.credential : p \in Chosen}
    BY DEF Chosen
  <1> DEFINE caps == IF params = None THEN DefaultCapabilities ELSE params.caps
             exts == IF params = None THEN {} ELSE params.exts
  <1>3. caps \in {p.caps : p \in Chosen} \cup {DefaultCapabilities}
    BY <1>1
  <1>4. exts \in {p.exts : p \in Chosen} \cup {{}}
    BY <1>1
  <1>5. ExternalPathLeaf(credential, params, u) =
          [credential |-> credential, caps |-> caps, exts |-> exts,
           source |-> "Commit", place |-> u, expires |-> None]
    BY DEF ExternalPathLeaf, Payload
  <1> HIDE DEF caps, exts
  <1> QED BY <1>2, <1>3, <1>4, <1>5 DEF Leaf

(* A group with one leaf. *)
LEMMA InvInit == Init => Inv
  <1> SUFFICES ASSUME Init PROVE Inv
    OBVIOUS
  <1>1. PICK f \in Founding :
          group = [epoch |-> 0, exts |-> f.context.exts, required |-> f.context.required,
                   since |-> 0,
                   tree |-> [u \in Users |->
                      IF u = Creator THEN Entry(NewLeaf(f.params, Life), 0, FALSE) ELSE None]]
    BY DEF Init
  <1>2. NewLeaf(f.params, Life) \in Leaf
    <2>1. f.params \in Chosen
      BY DEF Chosen
    <2> QED BY <2>1, ConstantsOk DEF NewLeaf, Payload, Leaf
  <1>3. Entry(NewLeaf(f.params, Life), 0, FALSE) \in TreeEntry
    BY <1>2 DEF Entry, TreeEntry
  <1>4. group.tree \in [Users -> TreeEntry \cup {None}] /\ group.tree[Creator] # None
    BY <1>1, <1>3, NoneIsAbsent, ConstantsOk
  <1>5. \A u \in Members(group) : group.tree[u].since = 0
    BY <1>1 DEF Members, Entry
  <1>a. group.epoch = 0 /\ group.since = 0
    BY <1>1
  <1>b. group = [epoch |-> group.epoch, tree |-> group.tree, exts |-> group.exts,
                 required |-> group.required, since |-> group.since]
    BY <1>1
  <1>c. Creator \in Members(group) /\ active = {Creator}
    BY <1>4, ConstantsOk DEF Init, Members
  <1>d. store = {} /\ commit = None /\ invited = {} /\ now = 0
    BY DEF Init
  <1>e. active \subseteq Members(group)
    BY <1>c
  <1>f. group.epoch \in Nat /\ group.since \in 0..group.epoch
    BY <1>a
  <1>g. \A u \in Members(group) : group.tree[u].since <= group.epoch
    BY <1>a, <1>5
  <1>6. Types
    BY <1>4, <1>b, <1>d, <1>e, <1>f, <1>g, Zenon DEF Types
  <1>7. PassedThen /\ FollowedSaw /\ RefusalsExplained
    BY DEF Init, PassedThen, FollowedSaw, RefusalsExplained
  <1>8. RequirementsKept /\ CredentialsUnderstood
    BY <1>5, <1>a DEF RequirementsKept, CredentialsUnderstood
  <1> QED BY <1>6, <1>7, <1>8 DEF Inv

(* Steps that leave the group, its members and the commit alone. *)
LEMMA InvQuiet ==
    ASSUME Inv, UNCHANGED <<group, active, commit, invited, now>>,
           \A p \in store' : p \in store \/ (WellMade(p) /\ p.kind # "ExternalInit")
    PROVE  Inv'
  <1>1. Types'
    BY DEF Inv, Types, Members, CommitRecord
  <1>2. PassedThen'
    BY DEF Inv, PassedThen
  <1>3. FollowedSaw' /\ RefusalsExplained' /\ RequirementsKept' /\ CredentialsUnderstood'
    BY DEF Inv, FollowedSaw, RefusalsExplained, RequirementsKept, CredentialsUnderstood
  <1> QED BY <1>1, <1>2, <1>3 DEF Inv

(* Proposing adds to the store what a member made or has read. *)
LEMMA InvPropose ==
    ASSUME Inv, \/ \E kp \in Published : ProposeAdd(kp)
                \/ \E u \in active : ProposeUpdate(u) \/ ProposeOther(u) \/ ProposeGce(u)
    PROVE  Inv'
  <1>0. now \in Nat /\ active \subseteq Members(group)
    BY DEF Inv, Types
  <1>1. CASE \E kp \in Published : ProposeAdd(kp)
    <2>1. PICK kp \in Published : ProposeAdd(kp)
      BY <1>1
    <2>2. kp.client \in Users /\ kp.leaf \in Leaf /\ kp.leaf.expires \in Nat
      BY <1>0, PublishedOk
    <2>3. WellMade(Add(kp, FALSE)) /\ Add(kp, FALSE).kind # "ExternalInit"
      BY <2>1, <2>2 DEF ProposeAdd, Readable, KeyPackageValid, Add, WellMade
    <2> QED BY <2>1, <2>3, InvQuiet DEF ProposeAdd
  <1>2. ASSUME NEW u \in active, ProposeUpdate(u) PROVE Inv'
    <2>1. PICK params \in Params \cup {None} :
             store' = store \cup {Update(u, UpdatedLeaf(LeafOf(group, u), params, u))}
      BY <1>2 DEF ProposeUpdate
    <2>2. u \in Users /\ LeafOf(group, u) \in Leaf
      BY <1>0 DEF Inv, Types, Members, LeafOf, TreeEntry
    <2> DEFINE leaf == UpdatedLeaf(LeafOf(group, u), params, u)
    <2>3. leaf \in Leaf /\ VerifiesAs(leaf, "Update", u) /\ leaf.expires = None
      BY <2>2, MadeLeaves
    <2> HIDE DEF leaf
    <2>4. WellMade(Update(u, leaf)) /\ Update(u, leaf).kind # "ExternalInit"
      BY <2>2, <2>3 DEF Update, WellMade
    <2> QED BY <1>2, <2>1, <2>4, InvQuiet DEF ProposeUpdate, leaf
  <1>3. ASSUME NEW u \in active, ProposeOther(u) PROVE Inv'
    <2>1. PICK p \in {Remove(v, FALSE) : v \in Members(group)} \cup {SelfRemove(u), Custom(FALSE)} :
             store' = store \cup {p}
      BY <1>3 DEF ProposeOther
    <2>2. WellMade(p) /\ p.kind # "ExternalInit"
      BY <2>1 DEF WellMade, Remove, SelfRemove, Custom
    <2> QED BY <1>3, <2>1, <2>2, InvQuiet DEF ProposeOther
  <1>4. ASSUME NEW u \in active, ProposeGce(u) PROVE Inv'
    <2>1. PICK c \in Contexts : store' = store \cup {Gce(c, FALSE)}
      BY <1>4 DEF ProposeGce
    <2>2. WellMade(Gce(c, FALSE)) /\ Gce(c, FALSE).kind # "ExternalInit"
      BY ContextsTyped DEF WellMade, Gce
    <2> QED BY <1>4, <2>1, <2>2, InvQuiet DEF ProposeGce
  <1> QED BY <1>1, <1>2, <1>3, <1>4

(* A commit starts on its way with its author's checks done. *)
LEMMA InvSent ==
    ASSUME Inv, NEW c \in Users, NEW external \in BOOLEAN, NEW S, NEW path \in Leaf \cup {None},
           invited = {},
           Sent(c, external, S, path), UNCHANGED <<group, active, store, invited, now>>,
           \A p \in S : WellMade(p),
           BuilderChecks(group, S, c, now),
           NeedsPath(S) => path # None,
           path # None => path.expires = None,
           external => path # None /\ ValidExternal(S),
           ~external => OfKind(S, "ExternalInit") = {} /\ c \in Members(group) \ Leaving(S)
    PROVE  Inv'
  <1> DEFINE sent == [by |-> c, external |-> external, covers |-> S, path |-> path,
                      waiting |-> active \ {c}, followed |-> {}, refused |-> {}]
  <1>1. commit' = sent
    BY DEF Sent
  <1>2. OwnPathChecked(path, NextGroup(group, S, c, path, FALSE))
    BY DEF Sent
  <1>3. /\ commit'.by = c /\ commit'.external = external /\ commit'.covers = S /\ commit'.path = path
        /\ commit'.waiting = active \ {c} /\ commit'.followed = {} /\ commit'.refused = {}
    BY <1>1
  <1>4. now \in Nat /\ active \subseteq Users
    BY DEF Inv, Types, Members
  <1>5. commit' \in CommitRecord'
    BY <1>1, <1>3, <1>4 DEF CommitRecord
  <1>6. Types'
    BY <1>5 DEF Inv, Types, Members
  <1>7. PassedThen'
    <2>1. now \in 0..now /\ ValidProposals(group, S, c, now)
      BY <1>4 DEF BuilderChecks
    <2> QED BY <1>2, <1>3, <2>1 DEF PassedThen
  <1>8. FollowedSaw' /\ RefusalsExplained'
    BY <1>3 DEF FollowedSaw, RefusalsExplained
  <1>9. RequirementsKept' /\ CredentialsUnderstood'
    BY DEF Inv, RequirementsKept, CredentialsUnderstood
  <1> QED BY <1>6, <1>7, <1>8, <1>9 DEF Inv

(* The commit of a member. *)
LEMMA InvBuild ==
    ASSUME Inv, NEW c \in active, Build(c)
    PROVE  Inv'
  <1>0. now \in Nat /\ c \in Members(group) /\ c \in Users
    BY DEF Inv, Types, Members
  <1>1. PICK own \in Inline, params \in PathParams :
          LET S == FilterProposals(store \cup own, c)
              ownUpdate == \E p \in OfKind(store, "Update") : p.by = c
              path == IF NeedsPath(S) \/ ownUpdate \/ params # None
                      THEN MemberPathLeaf(LeafOf(group, c), params, c) ELSE None
          IN  /\ BuilderChecks(group, S, c, now)
              /\ c \notin Leaving(S)
              /\ Sent(c, FALSE, S, path)
    BY DEF Build
  <1> DEFINE S == FilterProposals(store \cup own, c)
             ownUpdate == \E p \in OfKind(store, "Update") : p.by = c
             leaf == MemberPathLeaf(LeafOf(group, c), params, c)
             path == IF NeedsPath(S) \/ ownUpdate \/ params # None THEN leaf ELSE None
  <1>2. BuilderChecks(group, S, c, now) /\ c \notin Leaving(S) /\ Sent(c, FALSE, S, path)
    BY <1>1
  <1>3. leaf \in Leaf /\ leaf.expires = None
    <2>1. LeafOf(group, c) \in Leaf
      BY <1>0 DEF Inv, Types, Members, LeafOf, TreeEntry
    <2> QED BY <1>0, <2>1, MadeLeaves
  <1>4. \A p \in own : WellMade(p) /\ p.kind # "ExternalInit"
    <2>1. CASE own = {}
      BY <2>1
    <2>2. CASE \E kp \in Published : KeyPackageValid(kp, now) /\ own = {Add(kp, TRUE)}
      <3>1. PICK kp \in Published : KeyPackageValid(kp, now) /\ own = {Add(kp, TRUE)}
        BY <2>2
      <3>2. kp.client \in Users /\ kp.leaf \in Leaf /\ kp.leaf.expires \in Nat
        BY <1>0, PublishedOk
      <3> QED BY <3>1, <3>2 DEF KeyPackageValid, Add, WellMade
    <2>3. CASE \E u \in Members(group) : own = {Remove(u, TRUE)}
      BY <2>3 DEF Remove, WellMade
    <2>4. CASE \E cc \in Contexts : own = {Gce(cc, TRUE)}
      BY <2>4, ContextsTyped DEF Gce, WellMade
    <2>5. CASE own = {Custom(TRUE)}
      BY <2>5 DEF Custom, WellMade
    <2> QED BY <2>1, <2>2, <2>3, <2>4, <2>5 DEF Inline
  <1>5. \A p \in S : WellMade(p) /\ p.kind # "ExternalInit"
    BY <1>4 DEF FilterProposals, Inv, Types
  <1>6. OfKind(S, "ExternalInit") = {}
    BY <1>5 DEF OfKind
  <1>7. NeedsPath(S) => path # None
    BY <1>3, NoneIsAbsent
  <1>8. path \in Leaf \cup {None} /\ (path # None => path.expires = None)
    BY <1>3
  <1>9. invited = {} /\ UNCHANGED <<group, active, store, invited, now>>
    BY DEF Build, CanCommit
  <1> HIDE DEF S, ownUpdate, leaf, path
  <1> QED BY <1>0, <1>2, <1>5, <1>6, <1>7, <1>8, <1>9, InvSent

(* The commit of a client outside. *)
LEMMA InvExternal ==
    ASSUME Inv, NEW c \in Users, ExternalCommit(c)
    PROVE  Inv'
  <1>1. PICK params \in PathParams, credential \in {p.credential : p \in Params} :
          LET S == FilterProposals(
                      {ExternalInit} \cup OfKind(store, "SelfRemove")
                        \cup (IF c \in Members(group) THEN {Remove(c, TRUE)} ELSE {}), c)
          IN  /\ BuilderChecks(group, S, c, now)
              /\ ValidExternal(S)
              /\ Sent(c, TRUE, S, ExternalPathLeaf(credential, params, c))
    BY DEF ExternalCommit
  <1> DEFINE Q == {ExternalInit} \cup OfKind(store, "SelfRemove")
                     \cup (IF c \in Members(group) THEN {Remove(c, TRUE)} ELSE {})
             S == FilterProposals(Q, c)
             path == ExternalPathLeaf(credential, params, c)
  <1>2. BuilderChecks(group, S, c, now) /\ ValidExternal(S) /\ Sent(c, TRUE, S, path)
    BY <1>1
  <1>3. path \in Leaf /\ path.expires = None
    BY ExternalLeaf
  <1>4. path # None
    BY <1>3, NoneIsAbsent
  <1>5. \A p \in Q : WellMade(p)
    BY DEF ExternalInit, OfKind, Remove, WellMade, Inv, Types
  <1>6. \A p \in S : WellMade(p)
    BY <1>5 DEF FilterProposals
  <1>7. invited = {} /\ UNCHANGED <<group, active, store, invited, now>>
    BY DEF ExternalCommit, CanCommit
  <1> HIDE DEF Q, S, path
  <1> QED BY <1>2, <1>3, <1>4, <1>6, <1>7, InvSent

(* The committer's checks, made at an earlier time, are the receivers' own  *)
(* as long as the key packages have not expired and the path is valid.      *)
LEMMA ChecksAgree ==
    ASSUME Types, PassedThen, commit # None,
           PathValid(group, commit.path, commit.by, now),
           \A p \in OfKind(commit.covers, "Add") : LifetimeValid(p.kp.leaf.expires, now)
    PROVE  ValidCommit(group, commit, now)
  <1> DEFINE S == commit.covers
             c == commit.by
  <1>1. PICK t \in 0..now : ValidProposals(group, S, c, t)
    BY DEF PassedThen
  <1>2. \A p \in S : WellMade(p)
    BY DEF PassedThen
  <1>3. \A p \in S : Readable(p, now)
    BY <1>2 DEF WellMade, Readable, KeyPackageValid, OfKind
  <1>4. ValidAdds(group, S, now)
    BY <1>1 DEF ValidProposals, ValidAdds, ValidLeaf, LeafLifetimeValid
  <1>5. ValidUpdates(group, S, c, now)
    <2>1. \A p \in OfKind(S, "Update") : p.leaf.expires = None
      BY <1>2 DEF OfKind, WellMade
    <2> QED BY <1>1, <2>1 DEF ValidProposals, ValidUpdates, ValidLeaf, LeafLifetimeValid
  <1>6. ValidProposals(group, S, c, now)
    BY <1>1, <1>4, <1>5 DEF ValidProposals
  <1>7. IF commit.external THEN commit.path # None /\ ValidExternal(S)
                           ELSE OfKind(S, "ExternalInit") = {}
    BY DEF PassedThen
  <1>8. NeedsPath(S) => commit.path # None
    BY DEF PassedThen
  <1> QED BY <1>3, <1>6, <1>7, <1>8 DEF ValidCommit

(* A receiver follows or refuses. *)
LEMMA InvReceive ==
    ASSUME Inv, NEW r \in Users, Receive(r)
    PROVE  Inv'
  <1>1. /\ commit # None /\ commit \in CommitRecord
        /\ UNCHANGED <<group, active, store, invited, now>>
    BY DEF Receive, Inv, Types
  <1>a. /\ commit.waiting \in SUBSET Users /\ commit.waiting \ {r} \in SUBSET Users
        /\ commit.followed \in SUBSET Users /\ commit.followed \cup {r} \in SUBSET Users
        /\ commit.refused \in SUBSET Users /\ commit.refused \cup {r} \in SUBSET Users
    BY <1>1 DEF CommitRecord
  <1>2. PICK w, f, x \in SUBSET Users :
          /\ commit' = [commit EXCEPT !.waiting = w, !.followed = f, !.refused = x]
          /\ f # commit.followed => ValidCommit(group, commit, now)
          /\ x # commit.refused => ~ValidCommit(group, commit, now)
    <2>1. CASE ValidCommit(group, commit, now)
      <3>1. commit' = [commit EXCEPT !.waiting = commit.waiting \ {r},
                         !.followed = commit.followed \cup {r}, !.refused = commit.refused]
        BY <1>1, <2>1 DEF Receive, CommitRecord
      <3> QED BY <1>a, <2>1, <3>1
    <2>2. CASE ~ValidCommit(group, commit, now)
      <3>1. commit' = [commit EXCEPT !.waiting = commit.waiting \ {r},
                         !.followed = commit.followed, !.refused = commit.refused \cup {r}]
        BY <1>1, <2>2 DEF Receive, CommitRecord
      <3> QED BY <1>a, <2>2, <3>1
    <2> QED BY <2>1, <2>2
  <1>3. /\ commit' \in CommitRecord
        /\ commit'.by = commit.by /\ commit'.external = commit.external
        /\ commit'.covers = commit.covers /\ commit'.path = commit.path
        /\ commit'.followed = f /\ commit'.refused = x
    BY <1>1, <1>2 DEF CommitRecord
  <1>4. Types'
    <2>1. commit' \in CommitRecord'
      BY <1>3 DEF CommitRecord
    <2> QED BY <1>1, <2>1 DEF Inv, Types, Members
  <1>5. PassedThen'
    BY <1>1, <1>3 DEF Inv, PassedThen
  <1>6. FollowedSaw'
    <2>1. ValidCommit(group, commit, now) /\ commit.path # None => LeafCapabilities(group, commit.path)
      BY DEF ValidCommit, PathValid, ValidLeaf
    <2> QED BY <1>1, <1>2, <1>3, <2>1 DEF Inv, FollowedSaw
  <1>7. RefusalsExplained'
    <2>1. ~ValidCommit(group, commit, now) =>
            \/ ~PathValid(group, commit.path, commit.by, now)
            \/ \E p \in OfKind(commit.covers, "Add") : ~LifetimeValid(p.kp.leaf.expires, now)
      BY <1>1, ChecksAgree DEF Inv
    <2> QED BY <1>1, <1>2, <1>3, <2>1 DEF Inv, RefusalsExplained
  <1>8. RequirementsKept' /\ CredentialsUnderstood'
    BY <1>1 DEF Inv, RequirementsKept, CredentialsUnderstood
  <1> QED BY <1>4, <1>5, <1>6, <1>7, <1>8 DEF Inv

(* Joining with a Welcome. *)
LEMMA InvJoin ==
    ASSUME Inv, NEW u \in Users, Join(u)
    PROVE  Inv'
  <1>1. UNCHANGED <<group, store, commit, now>>
    BY DEF Join
  <1>2. active' \subseteq Members(group) /\ invited' \subseteq Members(group)
    BY DEF Join, Inv, Types
  <1>3. Types'
    BY <1>1, <1>2 DEF Inv, Types, Members, CommitRecord
  <1>4. PassedThen'
    BY <1>1 DEF Inv, PassedThen
  <1>5. FollowedSaw' /\ RefusalsExplained' /\ RequirementsKept' /\ CredentialsUnderstood'
    BY <1>1 DEF Inv, FollowedSaw, RefusalsExplained, RequirementsKept, CredentialsUnderstood
  <1> QED BY <1>3, <1>4, <1>5 DEF Inv

(* Time makes key packages expire, and nothing valid again. *)
LEMMA InvTick ==
    ASSUME Inv, Tick
    PROVE  Inv'
  <1>1. UNCHANGED <<group, active, store, commit, invited>>
    BY DEF Tick
  <1>2. now \in Nat /\ now' = now + 1
    BY DEF Tick, Inv, Types
  <1>3. Types'
    BY <1>1, <1>2 DEF Inv, Types, Members, CommitRecord
  <1>4. PassedThen'
    <2>1. 0..now \subseteq 0..now'
      BY <1>2
    <2> QED BY <1>1, <2>1 DEF Inv, PassedThen
  <1>5. RefusalsExplained'
    <2> SUFFICES ASSUME commit # None, commit.refused # {}
                 PROVE  \/ ~PathValid(group, commit.path, commit.by, now')
                        \/ \E p \in OfKind(commit.covers, "Add") : ~LifetimeValid(p.kp.leaf.expires, now')
      BY <1>1 DEF RefusalsExplained
    <2>1. CASE ~PathValid(group, commit.path, commit.by, now)
      <3>1. commit.path # None => commit.path.expires = None
        BY DEF Inv, PassedThen
      <3>2. ~PathValid(group, commit.path, commit.by, now')
        BY <2>1, <3>1 DEF PathValid, ValidLeaf, LeafLifetimeValid
      <3> QED BY <3>2
    <2>2. ASSUME NEW p \in OfKind(commit.covers, "Add"), ~LifetimeValid(p.kp.leaf.expires, now)
          PROVE  ~LifetimeValid(p.kp.leaf.expires, now')
      <3>1. p.kp.leaf.expires \in Nat
        BY DEF OfKind, Inv, PassedThen, WellMade
      <3> QED BY <1>2, <2>2, <3>1 DEF LifetimeValid
    <2> QED BY <2>1, <2>2 DEF Inv, RefusalsExplained
  <1>6. FollowedSaw' /\ RequirementsKept' /\ CredentialsUnderstood'
    BY <1>1 DEF Inv, FollowedSaw, RequirementsKept, CredentialsUnderstood
  <1> QED BY <1>3, <1>4, <1>5, <1>6 DEF Inv

(* What a leaf of the next epoch is: the path's, one that was added or      *)
(* updated, none, or the old one.                                           *)
ComesBy(n, u, g, S, c, path, seen) ==
    \/ u = c /\ path # None /\ n = Entry(path, g.epoch + 1, seen)
    \/ /\ u # c \/ path = None
       /\ \E p \in OfKind(S, "Add") : p.kp.client = u /\ n = Entry(p.kp.leaf, g.epoch + 1, TRUE)
    \/ /\ u # c \/ path = None
       /\ u \notin Added(S)
       /\ \/ u \in Leaving(S) /\ n = None
          \/ \E p \in OfKind(S, "Update") : n = Entry(p.leaf, g.epoch + 1, TRUE)
          \/ n = g.tree[u]

(* The tree of the next epoch consists of such leaves. *)
LEMMA NextEntry ==
    ASSUME NEW g, NEW S, NEW c, NEW path, NEW seen, NEW u \in Users
    PROVE  ComesBy(NextGroup(g, S, c, path, seen).tree[u], u, g, S, c, path, seen)
  <1> DEFINE e == g.epoch + 1
             n == NextGroup(g, S, c, path, seen).tree[u]
             added == CHOOSE p \in OfKind(S, "Add") : p.kp.client = u
             updated == CHOOSE p \in OfKind(S, "Update") : p.by = u
  <1>1. n = IF u = c /\ path # None THEN Entry(path, e, seen)
            ELSE IF u \in Added(S) THEN Entry(added.kp.leaf, e, TRUE)
            ELSE IF u \in Leaving(S) THEN None
            ELSE IF \E p \in OfKind(S, "Update") : p.by = u THEN Entry(updated.leaf, e, TRUE)
            ELSE g.tree[u]
    BY DEF NextGroup
  <1>2. u \in Added(S) => added \in OfKind(S, "Add") /\ added.kp.client = u
    BY DEF Added
  <1>3. (\E p \in OfKind(S, "Update") : p.by = u) => updated \in OfKind(S, "Update")
    OBVIOUS
  <1> HIDE DEF n, added, updated
  <1>4. ComesBy(n, u, g, S, c, path, seen)
    BY <1>1, <1>2, <1>3 DEF ComesBy
  <1> QED BY <1>4 DEF n

(* The context of the next epoch: the old one, or that of the one proposal  *)
(* that replaces it.                                                        *)
LEMMA NextContext ==
    ASSUME NEW g, NEW S, NEW c, NEW path, NEW seen
    PROVE  LET n == NextGroup(g, S, c, path, seen)
           IN  /\ n = [epoch |-> n.epoch, tree |-> n.tree, exts |-> n.exts,
                       required |-> n.required, since |-> n.since]
               /\ n.epoch = g.epoch + 1
               /\ \/ n.exts = g.exts /\ n.required = g.required /\ n.since = g.since
                  \/ /\ n.since = g.epoch + 1
                     /\ \E p \in OfKind(S, "GroupContextExtensions") :
                           n.exts = p.exts /\ n.required = p.required
  <1> DEFINE n == NextGroup(g, S, c, path, seen)
             gce == OfKind(S, "GroupContextExtensions")
             q == CHOOSE p \in gce : TRUE
  <1>1. CASE gce = {}
    BY <1>1 DEF NextGroup
  <1>2. CASE gce # {}
    <2>1. q \in gce
      BY <1>2
    <2>2. n.exts = q.exts /\ n.required = q.required /\ n.since = g.epoch + 1
      BY <1>2 DEF NextGroup
    <2>3. /\ n = [epoch |-> n.epoch, tree |-> n.tree, exts |-> n.exts,
                  required |-> n.required, since |-> n.since]
          /\ n.epoch = g.epoch + 1
      BY DEF NextGroup
    <2> HIDE DEF n, q
    <2> QED BY <2>1, <2>2, <2>3 DEF n
  <1> QED BY <1>1, <1>2

(* The exts and required capabilities do not depend on who has checked the  *)
(* path.                                                                    *)
LEMMA SameContext ==
    ASSUME NEW g, NEW S, NEW c, NEW path, NEW seen
    PROVE  LET n == NextGroup(g, S, c, path, seen)
               m == NextGroup(g, S, c, path, FALSE)
           IN  n.exts = m.exts /\ n.required = m.required
  BY DEF NextGroup

(* A leaf of the next epoch is an old one, or it came with this commit and  *)
(* was checked: in any case against the context, and, unless it is a path   *)
(* that nobody followed, against the leaves of the group.                   *)
LEMMA NextLeaf ==
    ASSUME Inv, commit # None, NEW seen \in BOOLEAN, seen => commit.followed # {},
           NEW n, n = NextGroup(group, commit.covers, commit.by, commit.path, seen),
           NEW u \in Users, n.tree[u] # None
    PROVE  \/ u \in Members(group) /\ n.tree[u] = group.tree[u]
           \/ /\ n.tree[u] \in TreeEntry
              /\ n.tree[u].since = group.epoch + 1
              /\ n.since # group.epoch + 1 =>
                    /\ CheckExtensionSupport(n.tree[u].leaf, n.exts)
                    /\ SupportsRequired(n.tree[u].leaf.caps, n.required)
              /\ n.tree[u].seen => LeafCapabilities(group, n.tree[u].leaf)
  <1> DEFINE S == commit.covers
             c == commit.by
             path == commit.path
             e == group.epoch + 1
             Goal == \/ u \in Members(group) /\ n.tree[u] = group.tree[u]
                     \/ /\ n.tree[u] \in TreeEntry
                        /\ n.tree[u].since = e
                        /\ n.since # e =>
                              /\ CheckExtensionSupport(n.tree[u].leaf, n.exts)
                              /\ SupportsRequired(n.tree[u].leaf.caps, n.required)
                        /\ n.tree[u].seen => LeafCapabilities(group, n.tree[u].leaf)
  <1> SUFFICES Goal
    OBVIOUS
  <1>0. group.epoch \in Nat /\ e \in Nat
    BY DEF Inv, Types
  <1>a. n = NextGroup(group, S, c, path, seen)
    OBVIOUS
  <1>1. n.since # e => n.exts = group.exts /\ n.required = group.required
    BY NextContext
  <1>2. PICK t \in 0..now : ValidProposals(group, S, c, t)
    BY DEF Inv, PassedThen
  <1>3. \A p \in S : WellMade(p)
    BY DEF Inv, PassedThen
  <1>4. ASSUME NEW leaf \in Leaf, NEW s \in BOOLEAN, n.tree[u] = Entry(leaf, e, s),
               n.since # e => /\ CheckExtensionSupport(leaf, n.exts)
                              /\ SupportsRequired(leaf.caps, n.required),
               s => LeafCapabilities(group, leaf)
        PROVE  Goal
    <2>1. /\ n.tree[u] \in TreeEntry /\ n.tree[u].since = e
          /\ n.tree[u].leaf = leaf /\ n.tree[u].seen = s
      BY <1>0, <1>4 DEF Entry, TreeEntry
    <2> QED BY <1>4, <2>1
  <1>5. CASE u = c /\ path # None /\ n.tree[u] = Entry(path, e, seen)
    <2>1. path \in Leaf
      BY <1>5 DEF Inv, Types, CommitRecord
    <2>2. seen => LeafCapabilities(group, path)
      BY <1>5 DEF Inv, FollowedSaw
    <2>3. CheckExtensionSupport(path, n.exts) /\ SupportsRequired(path.caps, n.required)
      <3>1. OwnPathChecked(path, NextGroup(group, S, c, path, FALSE))
        BY <1>5 DEF Inv, PassedThen
      <3> HIDE DEF S, c, path, e
    <3>2. /\ n.exts = NextGroup(group, S, c, path, FALSE).exts
            /\ n.required = NextGroup(group, S, c, path, FALSE).required
        BY <1>a, SameContext, ZenonT(60)
      <3> QED BY <1>5, <3>1, <3>2 DEF OwnPathChecked
    <2> HIDE DEF Goal, path, e
    <2> QED BY <1>4, <1>5, <2>1, <2>2, <2>3
  <1>6. ASSUME NEW p \in OfKind(S, "Add"), n.tree[u] = Entry(p.kp.leaf, e, TRUE)
        PROVE  Goal
    <2>1. p.kp.leaf \in Leaf
      BY <1>3 DEF OfKind, WellMade
    <2>2. /\ CheckExtensionSupport(p.kp.leaf, group.exts)
          /\ LeafCapabilities(group, p.kp.leaf)
      BY <1>2 DEF ValidProposals, ValidAdds, ValidLeaf
    <2>3. SupportsRequired(p.kp.leaf.caps, group.required)
      BY <2>2 DEF LeafCapabilities
    <2> HIDE DEF Goal, e, S
    <2> QED BY <1>1, <1>4, <1>6, <2>1, <2>2, <2>3
  <1>7. ASSUME NEW p \in OfKind(S, "Update"), n.tree[u] = Entry(p.leaf, e, TRUE)
        PROVE  Goal
    <2>1. p.leaf \in Leaf
      BY <1>3 DEF OfKind, WellMade
    <2>2. /\ CheckExtensionSupport(p.leaf, group.exts)
          /\ LeafCapabilities(group, p.leaf)
      BY <1>2 DEF ValidProposals, ValidUpdates, ValidLeaf
    <2>3. SupportsRequired(p.leaf.caps, group.required)
      BY <2>2 DEF LeafCapabilities
    <2> HIDE DEF Goal, e, S
    <2> QED BY <1>1, <1>4, <1>7, <2>1, <2>2, <2>3
  <1>8. CASE n.tree[u] = group.tree[u]
    BY <1>8 DEF Members
  <1> HIDE DEF S, c, path
  <1>9. \/ u = c /\ path # None /\ n.tree[u] = Entry(path, e, seen)
        \/ \E p \in OfKind(S, "Add") : n.tree[u] = Entry(p.kp.leaf, e, TRUE)
        \/ \E p \in OfKind(S, "Update") : n.tree[u] = Entry(p.leaf, e, TRUE)
        \/ n.tree[u] = group.tree[u]
    <2>1. ComesBy(n.tree[u], u, group, S, c, path, seen)
      BY <1>a, NextEntry
    <2> QED BY <2>1 DEF ComesBy
  <1> HIDE DEF Goal
  <1> QED BY <1>5, <1>6, <1>7, <1>8, <1>9

(* Old members support the extensions of a new context. *)
LEMMA OldSupportNew ==
    ASSUME Inv, commit # None, NEW seen,
           NEW n, n = NextGroup(group, commit.covers, commit.by, commit.path, seen),
           n.since = group.epoch + 1,
           NEW u \in Members(group)
    PROVE  LET leaf == group.tree[u].leaf
           IN  /\ CheckExtensionSupport(leaf, n.exts)
               /\ n.required # None => CheckExtensionSupport(leaf, n.required.extensions)
  <1>1. PICK t \in 0..now : ValidProposals(group, commit.covers, commit.by, t)
    BY DEF Inv, PassedThen
  <1>2. group.epoch \in Nat /\ group.since \in 0..group.epoch
    BY DEF Inv, Types
  <1>3. group.since # group.epoch + 1
    BY <1>2
  <1>4. PICK p \in OfKind(commit.covers, "GroupContextExtensions") :
            n.exts = p.exts /\ n.required = p.required
    BY <1>3, NextContext
  <1> DEFINE types == IF p.required = None THEN {} ELSE p.required.extensions
             leaf == group.tree[u].leaf
  <1>5. /\ \A l \in Leaves(group) : CheckExtensionSupport(l, types)
        /\ \A x \in p.exts : IsDefaultExtension(x) \/ x \in types
    BY <1>1 DEF ValidProposals, ValidGce
  <1>6. leaf \in Leaves(group)
    BY DEF Leaves, LeafOf
  <1>7. CheckExtensionSupport(leaf, types)
    BY <1>5, <1>6
  <1> HIDE DEF leaf
  <1>8. CheckExtensionSupport(leaf, n.exts)
    BY <1>4, <1>5, <1>7 DEF CheckExtensionSupport, SupportsExtension
  <1>9. n.required # None => CheckExtensionSupport(leaf, n.required.extensions)
    BY <1>4, <1>7
  <1> QED BY <1>8, <1>9 DEF leaf

(* A commit that everybody has decided on: nobody follows and its author    *)
(* is gone, or the group moves on.                                          *)
LEMMA InvSettle ==
    ASSUME Inv, Settle
    PROVE  Inv'
  <1> DEFINE seen == commit.followed # {}
             next == NextGroup(group, commit.covers, commit.by, commit.path, seen)
             stayed == commit.followed \cap Members(next)
             alone == commit.refused \cap Members(next) # {} /\ stayed = {}
  <1>0. commit # None /\ commit' = None /\ now' = now /\ commit.by \in Users
    BY DEF Settle, Inv, Types, CommitRecord
  <1>1. IF alone
        THEN active' = active \ {commit.by} /\ UNCHANGED <<group, store, invited>>
        ELSE /\ group' = next /\ active' = stayed \cup {commit.by}
             /\ store' = {} /\ invited' = Added(commit.covers)
    BY DEF Settle
  <1>2. PassedThen' /\ FollowedSaw' /\ RefusalsExplained'
    BY <1>0 DEF PassedThen, FollowedSaw, RefusalsExplained
  <1>3. CASE alone
    <2>1. UNCHANGED <<group, store, invited, now>> /\ active' \subseteq active
      BY <1>0, <1>1, <1>3
    <2>2. Types'
      BY <1>0, <2>1 DEF Inv, Types, Members
    <2>3. RequirementsKept' /\ CredentialsUnderstood'
      BY <2>1 DEF Inv, RequirementsKept, CredentialsUnderstood
    <2> QED BY <1>2, <2>2, <2>3 DEF Inv
  <1>4. CASE ~alone
    <2> DEFINE e == group.epoch + 1
    <2>1. PICK n : n = next
      OBVIOUS
    <2>2. group' = n /\ store' = {} /\ invited' = Added(commit.covers)
      BY <1>1, <1>4, <2>1
    <2>3. active' \subseteq Members(n) \cup {commit.by}
      BY <1>1, <1>4, <2>1
    <2>4. /\ group.epoch \in Nat /\ group.since \in 0..group.epoch
          /\ group.tree \in [Users -> TreeEntry \cup {None}]
          /\ \A u \in Members(group) : group.tree[u].since \in Nat /\ group.tree[u].since <= group.epoch
      BY DEF Inv, Types, Members, TreeEntry
    <2>5. /\ n = [epoch |-> n.epoch, tree |-> n.tree, exts |-> n.exts,
                  required |-> n.required, since |-> n.since]
          /\ n.epoch = e
          /\ \/ n.exts = group.exts /\ n.required = group.required /\ n.since = group.since
             \/ n.since = e
      BY <2>1, NextContext
    <2>6. ASSUME NEW u \in Users, n.tree[u] # None
          PROVE  \/ u \in Members(group) /\ n.tree[u] = group.tree[u]
                 \/ /\ n.tree[u] \in TreeEntry
                    /\ n.tree[u].since = e
                    /\ n.since # e =>
                          /\ CheckExtensionSupport(n.tree[u].leaf, n.exts)
                          /\ SupportsRequired(n.tree[u].leaf.caps, n.required)
                    /\ n.tree[u].seen => LeafCapabilities(group, n.tree[u].leaf)
      <3>1. seen \in BOOLEAN /\ (seen => commit.followed # {})
        OBVIOUS
      <3>2. n = NextGroup(group, commit.covers, commit.by, commit.path, seen)
        BY <2>1
      <3> HIDE DEF seen
      <3> QED BY <1>0, <2>6, <3>1, <3>2, NextLeaf
    <2>7. ASSUME NEW u \in Members(group), n.since = e
          PROVE  /\ CheckExtensionSupport(group.tree[u].leaf, n.exts)
                 /\ n.required # None => CheckExtensionSupport(group.tree[u].leaf, n.required.extensions)
      <3> HIDE DEF seen
      <3> QED BY <1>0, <2>1, <2>7, OldSupportNew
    <2>8. \A u \in Users : ComesBy(n.tree[u], u, group, commit.covers, commit.by, commit.path, seen)
      <3> HIDE DEF seen
      <3> QED BY <2>1, NextEntry
    <2> HIDE DEF next, stayed, alone
    <2>9. Types'
      <3>1. \A u \in Users : n.tree[u] \in TreeEntry \cup {None}
        BY <2>4, <2>6 DEF Members
      <3>2. n.tree \in [Users -> TreeEntry \cup {None}]
        <4>1. n.tree = [u \in Users |-> n.tree[u]]
          BY <2>1 DEF next, NextGroup
        <4> QED BY <3>1, <4>1
      <3>3. n.epoch \in Nat /\ n.since \in 0..n.epoch
        BY <2>4, <2>5
      <3>4. \A u \in Members(n) : n.tree[u].since <= n.epoch
        BY <2>4, <2>5, <2>6 DEF Members
      <3>5. Added(commit.covers) \subseteq Members(n)
        <4> SUFFICES ASSUME NEW p \in OfKind(commit.covers, "Add") PROVE p.kp.client \in Members(n)
          BY DEF Added
        <4> DEFINE u == p.kp.client
        <4>1. u \in Users /\ u \in Added(commit.covers)
          BY <1>0 DEF Inv, PassedThen, OfKind, WellMade, Added
        <4>2. n.tree[u] # None
          <5>1. CASE u = commit.by /\ commit.path # None
            <6>1. n.tree[u] = Entry(commit.path, e, seen)
              BY <2>8, <4>1, <5>1 DEF ComesBy
            <6>2. commit.path \in Leaf
              BY <1>0, <5>1 DEF Inv, Types, CommitRecord
            <6>3. Entry(commit.path, e, seen) \in TreeEntry
              BY <2>4, <6>2 DEF Entry, TreeEntry
            <6> QED BY <6>1, <6>3, NoneIsAbsent
          <5>2. CASE ~(u = commit.by /\ commit.path # None)
            <6>1. PICK q \in OfKind(commit.covers, "Add") : n.tree[u] = Entry(q.kp.leaf, e, TRUE)
              BY <2>8, <4>1, <5>2 DEF ComesBy
            <6>2. q.kp.leaf \in Leaf
              BY <1>0 DEF Inv, PassedThen, OfKind, WellMade
            <6>3. Entry(q.kp.leaf, e, TRUE) \in TreeEntry
              BY <2>4, <6>2 DEF Entry, TreeEntry
            <6> QED BY <6>1, <6>3, NoneIsAbsent
          <5> QED BY <5>1, <5>2
        <4> QED BY <4>1, <4>2 DEF Members
      <3>6. commit.by \in Members(n)
        <4> DEFINE u == commit.by
        <4>1. CASE commit.path # None
          <5>1. n.tree[u] = Entry(commit.path, e, seen)
            BY <1>0, <2>8, <4>1 DEF ComesBy
          <5>2. commit.path \in Leaf
            BY <1>0, <4>1 DEF Inv, Types, CommitRecord
          <5>3. Entry(commit.path, e, seen) \in TreeEntry
            BY <2>4, <5>2 DEF Entry, TreeEntry
          <5> QED BY <1>0, <5>1, <5>3, NoneIsAbsent DEF Members
        <4>2. CASE commit.path = None
          <5>1. ~commit.external
            BY <1>0, <4>2 DEF Inv, PassedThen
          <5>2. u \in Members(group) /\ u \notin Leaving(commit.covers)
            BY <1>0, <5>1 DEF Inv, PassedThen
          <5>3. CASE u \in Added(commit.covers)
            BY <3>5, <5>3
          <5>4. CASE u \notin Added(commit.covers)
            <6>1. \/ \E p \in OfKind(commit.covers, "Update") : n.tree[u] = Entry(p.leaf, e, TRUE)
                  \/ n.tree[u] = group.tree[u]
              BY <1>0, <2>8, <4>2, <5>2, <5>4 DEF ComesBy, Added
            <6>2. ASSUME NEW p \in OfKind(commit.covers, "Update"), n.tree[u] = Entry(p.leaf, e, TRUE)
                  PROVE  n.tree[u] # None
              <7>1. p.leaf \in Leaf
                BY <1>0 DEF Inv, PassedThen, OfKind, WellMade
              <7>2. Entry(p.leaf, e, TRUE) \in TreeEntry
                BY <2>4, <7>1 DEF Entry, TreeEntry
              <7> QED BY <6>2, <7>2, NoneIsAbsent
            <6> QED BY <1>0, <5>2, <6>1, <6>2 DEF Members
          <5> QED BY <5>3, <5>4
        <4> QED BY <4>1, <4>2
      <3>7. active' \subseteq Members(n)
        BY <2>3, <3>6
      <3>8. now \in Nat
        BY DEF Inv, Types
      <3>9. Members(n) = Members(group')
        BY <2>2
      <3>10. /\ group' = [epoch |-> group'.epoch, tree |-> group'.tree, exts |-> group'.exts,
                          required |-> group'.required, since |-> group'.since]
             /\ group'.epoch \in Nat /\ group'.since \in 0..group'.epoch
             /\ group'.tree \in [Users -> TreeEntry \cup {None}]
             /\ \A u \in Members(group') : group'.tree[u].since <= group'.epoch
             /\ active' \subseteq Members(group')
             /\ invited' \subseteq Members(group')
        BY <2>2, <2>5, <3>2, <3>3, <3>4, <3>5, <3>7, <3>9
      <3> QED BY <1>0, <2>2, <3>8, <3>10 DEF Types
    <2>10. RequirementsKept'
      <3> SUFFICES ASSUME NEW u \in Members(n)
                   PROVE  /\ n.tree[u].since # n.since =>
                               /\ CheckExtensionSupport(n.tree[u].leaf, n.exts)
                               /\ n.required # None =>
                                    CheckExtensionSupport(n.tree[u].leaf, n.required.extensions)
                          /\ n.tree[u].since > n.since => SupportsRequired(n.tree[u].leaf.caps, n.required)
        BY <2>2 DEF RequirementsKept
      <3>1. u \in Users /\ n.tree[u] # None
        BY DEF Members
      <3>2. CASE u \in Members(group) /\ n.tree[u] = group.tree[u]
        <4>1. CASE n.since = e
          BY <2>4, <2>7, <3>2, <4>1
        <4>2. CASE n.since # e
          BY <2>5, <3>2, <4>2 DEF Inv, RequirementsKept
        <4> QED BY <4>1, <4>2
      <3>3. CASE /\ n.tree[u].since = e
                 /\ n.since # e =>
                      /\ CheckExtensionSupport(n.tree[u].leaf, n.exts)
                      /\ SupportsRequired(n.tree[u].leaf.caps, n.required)
        <4>1. CASE n.since = e
          BY <2>4, <3>3, <4>1
        <4>2. CASE n.since # e
          <5>1. n.required # None =>
                   CheckExtensionSupport(n.tree[u].leaf, n.required.extensions)
            BY <3>3, <4>2 DEF SupportsRequired, CheckExtensionSupport, SupportsExtension, ContainsExtension
          <5> QED BY <3>3, <4>2, <5>1
        <4> QED BY <4>1, <4>2
      <3> QED BY <2>6, <3>1, <3>2, <3>3
    <2>11. CredentialsUnderstood'
      <3> SUFFICES ASSUME NEW u \in Members(n), NEW v \in Members(n),
                          n.tree[u].since < n.tree[v].since, n.tree[v].seen
                   PROVE  /\ ContainsCredential(n.tree[u].leaf.caps, n.tree[v].leaf.credential)
                          /\ ContainsCredential(n.tree[v].leaf.caps, n.tree[u].leaf.credential)
        BY <2>2 DEF CredentialsUnderstood
      <3>1. u \in Users /\ v \in Users /\ n.tree[u] # None /\ n.tree[v] # None
        BY DEF Members
      <3>2. u \in Members(group) /\ n.tree[u] = group.tree[u]
        <4>1. n.tree[v].since <= e /\ n.tree[v].since \in Nat
          BY <2>4, <2>6, <3>1
        <4> QED BY <2>4, <2>6, <3>1, <4>1
      <3>3. CASE v \in Members(group) /\ n.tree[v] = group.tree[v]
        BY <3>2, <3>3 DEF Inv, CredentialsUnderstood
      <3>4. CASE LeafCapabilities(group, n.tree[v].leaf)
        <4>1. group.tree[u].leaf \in Leaves(group)
          BY <3>2 DEF Leaves, LeafOf
        <4> QED BY <3>2, <3>4, <4>1 DEF LeafCapabilities
      <3> QED BY <2>6, <3>1, <3>3, <3>4
    <2> QED BY <1>2, <2>9, <2>10, <2>11 DEF Inv
  <1> QED BY <1>3, <1>4

(* Every step keeps the invariant. *)
LEMMA InvNext == Inv /\ [Next]_vars => Inv'
  <1> SUFFICES ASSUME Inv, [Next]_vars PROVE Inv'
    OBVIOUS
  <1>1. CASE \E kp \in Published : ProposeAdd(kp)
    BY <1>1, InvPropose
  <1>2. CASE \E u \in active : ProposeUpdate(u) \/ ProposeOther(u) \/ ProposeGce(u)
    BY <1>2, InvPropose
  <1>3. CASE \E u \in active : Build(u)
    BY <1>3, InvBuild
  <1>4. CASE \E u \in Users \ active : ExternalCommit(u)
    BY <1>4, InvExternal
  <1>5. CASE \E u \in Users : Receive(u)
    BY <1>5, InvReceive
  <1>6. CASE \E u \in Users : Join(u)
    BY <1>6, InvJoin
  <1>7. CASE Settle
    BY <1>7, InvSettle
  <1>8. CASE Tick
    BY <1>8, InvTick
  <1>9. CASE UNCHANGED vars
    BY <1>9, InvQuiet DEF vars
  <1> QED BY <1>1, <1>2, <1>3, <1>4, <1>5, <1>6, <1>7, <1>8, <1>9 DEF Next

(* Types, and what is known of the commit on its way, in every state. *)
LEMMA InvAlways == Spec => []Inv
  BY InvInit, InvNext, PTL DEF Spec

(* Receivers refuse a commit of build_internal only for the leaf of its     *)
(* path or for a key package that expired on the way: for every group, all  *)
(* contents of leaves and whatever else happens meanwhile, the checks of    *)
(* CommitBuilder and of PublicGroup::validate_commit agree otherwise.       *)
THEOREM RefusalsAlwaysExplained == Spec => []RefusalsExplained
  <1>1. Inv => RefusalsExplained
    BY DEF Inv
  <1> QED BY <1>1, InvAlways, PTL

(* The validation functions together keep every leaf of the tree able to    *)
(* handle the extensions of the group context, and the capabilities that    *)
(* the group required when the leaf came in.                                *)
THEOREM RequirementsAlwaysKept == Spec => []RequirementsKept
  <1>1. Inv => RequirementsKept
    BY DEF Inv
  <1> QED BY <1>1, InvAlways, PTL

(* validate_leaf_node_capabilities makes members able to read each other's  *)
(* credentials, whichever of them came first.                               *)
THEOREM CredentialsAlwaysUnderstood == Spec => []CredentialsUnderstood
  <1>1. Inv => CredentialsUnderstood
    BY DEF Inv
  <1> QED BY <1>1, InvAlways, PTL
=============================================================================
