------------------------------ MODULE MlsGroup ------------------------------
(***************************************************************************)
(* What OpenMLS does with the proposals of one epoch: which of the queued  *)
(* ones a commit covers, when the commit is refused, and the membership it *)
(* leads to.                                                               *)
(*                                                                         *)
(* A proposal is a record [kind, sender, target, epoch] and is known by    *)
(* its ProposalRef, here its index in the sequence `props` of all the      *)
(* proposals ever made.  A proposal store is a sequence of such            *)
(* references, in order of arrival.  A member is identified by its         *)
(* signature key, that is by the client: the leaf index a Remove or Update *)
(* names in the code is determined by it within one epoch.                 *)
(***************************************************************************)
EXTENDS Naturals, Sequences

Queued(store) == {store[i] : i \in 1..Len(store)}

(* Targets of the Add and of the Remove proposals among the references S. *)
Added(props, S)   == {props[r].target : r \in {x \in S : props[x].kind = "Add"}}
Removed(props, S) == {props[r].target : r \in {x \in S : props[x].kind = "Remove"}}

(* ProposalQueue::filter_proposals with Proposal::has_lower_priority_than:  *)
(* every Add is kept; of the proposals for one leaf the last Remove, or the *)
(* last Update if there is no Remove; the committer's own Updates are left  *)
(* out (the commit's path replaces its leaf).                               *)
FilterProposals(props, store, own) ==
    LET Is(i, kind) == props[store[i]].kind = kind
        Kept(i) ==
            \/ Is(i, "Add")
            \/ /\ Is(i, "Remove")
               /\ \A j \in i+1..Len(store) :
                    ~(Is(j, "Remove") /\ props[store[j]].target = props[store[i]].target)
            \/ /\ Is(i, "Update")
               /\ props[store[i]].sender # own
               /\ \A j \in i+1..Len(store) :
                    ~(Is(j, "Update") /\ props[store[j]].sender = props[store[i]].sender)
               /\ \A j \in 1..Len(store) :
                    ~(Is(j, "Remove") /\ props[store[j]].target = props[store[i]].sender)
    IN  {store[i] : i \in {k \in 1..Len(store) : Kept(k)}}

(* PublicGroup::validate_key_uniqueness, ValSem101: no two Adds carry the   *)
(* same signature key, and none the key of a member that is not removed by  *)
(* the same commit.                                                         *)
KeysAreUnique(props, S, members) ==
    /\ \A r, s \in S :
         props[r].kind = "Add" /\ props[s].kind = "Add"
            /\ props[r].target = props[s].target => r = s
    /\ Added(props, S) \cap (members \ Removed(props, S)) = {}

(* CommitBuilder::build_internal for a member: validation of the covered    *)
(* proposals, and CannotRemoveSelf.                                         *)
CanCommit(props, S, members, own) ==
    /\ KeysAreUnique(props, S, members)
    /\ own \notin Removed(props, S)

(* PublicGroupDiff::apply_proposals: removes before adds. *)
ApplyProposals(props, S, members) ==
    (members \ Removed(props, S)) \cup Added(props, S)
=============================================================================
